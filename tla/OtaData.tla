------------------------------- MODULE OtaData -------------------------------
(***************************************************************************)
(* The otadata partition of the board: two records, kept in two flash      *)
(* sectors, from which ESP-IDF works out which application slot is         *)
(* selected for boot.  None of this is code of the loader; the loader      *)
(* reads it through esp_ota_get_boot_partition and changes it through      *)
(* esp_ota_set_boot_partition, and the second-stage boot loader (with      *)
(* CONFIG_BOOTLOADER_APP_ROLLBACK_ENABLE, sdkconfig.defaults) reads and    *)
(* changes it at every reset.  docs/phase1-rollback-findings.md records    *)
(* what the project observed of it.                                        *)
(*                                                                         *)
(* The module only holds constant operators on a value od of OtaDatas.     *)
(***************************************************************************)
EXTENDS Integers

Slots == {"ota_0", "ota_1"}

\* The partition the loader itself runs from; no update ever targets it.
Factory == "factory"

\* The other of the two application slots.
Other(s) == IF s = "ota_0" THEN "ota_1" ELSE "ota_0"

\* esp_ota_img_states_t, without INVALID, which nothing here ever writes.
ImgStates == {"undefined", "new", "pending", "valid", "aborted"}

Records  == [seq : Nat, state : ImgStates]
OtaDatas == [0..1 -> Records]

\* An erased sector.  It reads as seq = UINT32_MAX, an invalid record; the
\* valid sequence numbers start at 1, so 0 stands for it here.
Erased == [seq |-> 0, state |-> "undefined"]

AllErased == [i \in 0..1 |-> Erased]

\* The slot a sequence number encodes: (ota_seq - 1) % 2.
SlotOf(seq) == IF seq % 2 = 1 THEN "ota_0" ELSE "ota_1"

\* bootloader_common_ota_select_valid.
ValidRecord(r) == r.seq # 0 /\ r.state # "aborted"

HasSelection(od) == \E i \in 0..1 : ValidRecord(od[i])

\* The record that counts: the only valid one, or the one with the higher
\* sequence number, record 0 on a tie.
ActiveRecord(od) ==
    IF ~ ValidRecord(od[1]) \/ (ValidRecord(od[0]) /\ od[0].seq >= od[1].seq)
    THEN 0
    ELSE 1

\* esp_ota_get_boot_partition.
BootPartition(od) ==
    IF HasSelection(od) THEN SlotOf(od[ActiveRecord(od)].seq) ELSE Factory

\* The record esp_ota_set_boot_partition rewrites: never the active one.
SpareRecord(od) == IF HasSelection(od) THEN 1 - ActiveRecord(od) ELSE 0

\* The least sequence number, not below the active one, that encodes s.
NextSeq(od, s) ==
    LET seq == od[ActiveRecord(od)].seq
    IN  IF ~ HasSelection(od)
        THEN IF s = "ota_0" THEN 1 ELSE 2
        ELSE IF SlotOf(seq) = s THEN seq ELSE seq + 1

\* esp_ota_set_boot_partition(s), s a slot, and the state in which a loss of
\* power between its sector erase and its write leaves the two records.
SelectSlot(od, s) ==
    [od EXCEPT ![SpareRecord(od)] = [seq |-> NextSeq(od, s), state |-> "new"]]
TornSelect(od)    == [od EXCEPT ![SpareRecord(od)] = Erased]

\* esp_ota_mark_app_valid_cancel_rollback, called by an application.
MarkValid(od) == [od EXCEPT ![ActiveRecord(od)].state = "valid"]

\* At reset the boot loader first gives up every record whose application
\* did not confirm itself since it was started ...
Aborted(od) ==
    [i \in 0..1 |-> IF od[i].state = "pending"
                    THEN [od[i] EXCEPT !.state = "aborted"] ELSE od[i]]

\* Slip: a boot loader that was built without app rollback.
AtResetWithoutRollback(od) == od

\* ... and then starts the confirmation period of a new selection.
AtReset(od) ==
    LET a == Aborted(od)
    IN  IF HasSelection(a) /\ a[ActiveRecord(a)].state = "new"
        THEN [a EXCEPT ![ActiveRecord(a)].state = "pending"]
        ELSE a
==============================================================================

----------------------------- MODULE NamedStore -----------------------------
(***************************************************************************)
(* What the SAMD21 configuration store promises: a map from names to whole *)
(* files.  A write takes effect at one instant or not at all, whenever the *)
(* power fails; only a format takes files away, and a format cut short can *)
(* leave nothing but versions that were once committed.                    *)
(*                                                                         *)
(* disk     the file a reboot would find under each name                   *)
(* kept     the versions of each name that the flash still holds           *)
(* writing  the name and file of the write in progress                     *)
(* wiping   a format is running                                            *)
(***************************************************************************)
CONSTANTS Names, Files, NoFile, Idle

VARIABLES disk, kept, writing, wiping

absVars == <<disk, kept, writing, wiping>>

AbsInit ==
    /\ disk = [n \in Names |-> NoFile]
    /\ kept = [n \in Names |-> {}]
    /\ writing = Idle
    /\ wiping = FALSE

(* Superseded versions may be reclaimed; the current one never is.         *)
OnlyOldDropped ==
    \A n \in Names : /\ kept'[n] \subseteq kept[n]
                     /\ disk'[n] # NoFile => disk'[n] \in kept'[n]

Begin == /\ writing = Idle /\ ~wiping
         /\ writing' \in Names \X Files
         /\ disk' = disk /\ OnlyOldDropped /\ UNCHANGED wiping

Reclaim == disk' = disk /\ OnlyOldDropped /\ UNCHANGED <<writing, wiping>>

Publish == /\ writing # Idle
           /\ LET n == writing[1] IN
              /\ disk' = [disk EXCEPT ![n] = writing[2]]
              /\ kept' = [kept EXCEPT ![n] = @ \cup {writing[2]}]
           /\ writing' = Idle /\ UNCHANGED wiping

(* A power failure, or a write that does not verify.                       *)
Abandon == /\ writing' = Idle /\ wiping' = FALSE
           /\ disk' = disk /\ OnlyOldDropped

Format == /\ writing = Idle /\ wiping' = TRUE
          /\ UNCHANGED <<disk, kept, writing>>

Erase == /\ wiping /\ UNCHANGED <<writing, wiping>>
         /\ disk' \in [Names -> Files \cup {NoFile}]
         /\ OnlyOldDropped

Formatted == /\ wiping /\ wiping' = FALSE
             /\ \A n \in Names : disk[n] = NoFile
             /\ UNCHANGED <<disk, kept, writing>>

AbsNext == \/ Begin \/ Reclaim \/ Publish \/ Abandon
           \/ Format \/ Erase \/ Formatted

AbsSpec == AbsInit /\ [][AbsNext]_absVars
=============================================================================

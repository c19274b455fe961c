----------------------------- MODULE VoiceWork -----------------------------
(***************************************************************************)
(* What the voice of a shop keeps between two transcripts: the command a   *)
(* session asked about, and the bills it has drafted.  The commands meet   *)
(* the drafts only as turns, so each behaviour follows one of the two.     *)
(***************************************************************************)
EXTENDS VoiceConfirmation, VoiceDrafts

VARIABLE part   \* never changes

workVars == <<part, vars, voiceVars>>

WorkTypeOK == TypeOK /\ VoiceDraftsTypeOK

WorkInit == part \in {"confirmation", "drafts"} /\ Init /\ VoiceDraftsInit

WorkNext ==
    \/ part = "confirmation" /\ Next /\ UNCHANGED <<part, voiceVars>>
    \/ part = "drafts" /\ VoiceDraftsNext /\ UNCHANGED <<part, vars>>

WorkSpec == WorkInit /\ [][WorkNext]_workVars
=============================================================================

---------------------------- MODULE MCVoiceCall ----------------------------
(* One call with its faults (VoiceCall), or the candidates of a call that goes *)
(* well (VoiceIce): the initial state says which of the two a behaviour is     *)
(* about.                                                                      *)
EXTENDS VoiceCall

CONSTANT Cands

VARIABLES part, iceLog, stage, side, post, icePush

Ice == INSTANCE VoiceIce WITH log <- iceLog, push <- icePush

ice == <<iceLog, stage, side, post, icePush>>

MCInit == part \in {"call", "ice"} /\ Init /\ Ice!Init

CallStep == part = "call" /\ Next /\ UNCHANGED <<part, ice>>
IceStep == part = "ice" /\ Ice!Next /\ UNCHANGED <<part, vars>>

MCSpec == MCInit /\ [][CallStep \/ IceStep]_<<part, vars, ice>> /\ WF_vars(part = "call" /\ Progress)

(* The fields of both modules have their types.                                *)
MCTypeOK == TypeOK /\ Ice!TypeOK

(* VoiceIce: no candidate is lost between the buffers.                         *)
NoCandidateLeftBehind == Ice!NoCandidateLeftBehind
=============================================================================

------------------------------- MODULE Martine -------------------------------
(***************************************************************************)
(* The daemons of Martine that keep state: the XMPP inviter, the voice     *)
(* service and the CoT client.  Each is a process of its own, and the only *)
(* thing two of them share is the transcript: the voice service appends,   *)
(* and the inviter, whose model has lines appended at any time, reads.     *)
(* What is said of one therefore holds whatever the others do, and a       *)
(* behaviour is that of one of them, the others standing still.            *)
(***************************************************************************)
EXTENDS XmppInviter, VoiceSegments, CotClient

VARIABLE daemon   \* the one that runs

inviterVars == vars
martineVars == <<inviterVars, voiceVars, cotVars, daemon>>

MartineInit ==
  /\ Init /\ VoiceInit /\ CotInit
  /\ daemon \in {"inviter", "voice", "cot"}

Inviter(act) == daemon = "inviter" /\ act /\ UNCHANGED <<voiceVars, cotVars, daemon>>
Voice(act)   == daemon = "voice" /\ act /\ UNCHANGED <<inviterVars, cotVars, daemon>>
Cot(act)     == daemon = "cot" /\ act /\ UNCHANGED <<inviterVars, voiceVars, daemon>>

MartineNext == Inviter(Next) \/ Voice(VoiceNext) \/ Cot(CotNext)

\* Each daemon goes on, as systemd starts it again; time passes; and the inviter
\* ticks for ever, and again and again for each invite.
MartineSpec ==
  /\ MartineInit /\ [][MartineNext]_martineVars
  /\ WF_martineVars(Inviter(Work))
  /\ \A n \in Invites :
       SF_martineVars(Inviter(\E wanted \in SUBSET Invites : n \in wanted /\ Tick(wanted)))
  /\ WF_martineVars(Voice(VoiceWork)) /\ WF_martineVars(Voice(Pass))
  /\ WF_martineVars(Cot(CotWork))
=============================================================================

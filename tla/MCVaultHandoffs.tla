--------------------------- MODULE MCVaultHandoffs --------------------------
(***************************************************************************)
(* Both hand-offs of a vault.  They share no state in the program, and a   *)
(* behaviour of this module is one of either: a create link and its seed   *)
(* link (the variables of VaultCreate), or a restore link (the same        *)
(* variables, without the seed's, which stay at Idle).                     *)
(*                                                                         *)
(* create   two POSTs of the page, two confirmations of the seed, one poll *)
(* restore  two POSTs and two polls                                        *)
(***************************************************************************)
EXTENDS VaultCreate

CONSTANTS RestorePollers,
          RestoreTombstones   \* the cap of the restore endpoint

ASSUME RestoreTombstoneCap == RestoreTombstones \in Nat

VARIABLE flow

Restore == INSTANCE VaultRestore WITH
  Pollers <- RestorePollers, MaxSpentTombstones <- RestoreTombstones

Idle == "-"

seedOnly    == <<sd, seedMinted, seedLapsed, linked, at, seed, confirmed>>
restoreVars == <<handles, reg, stage, ask, verdict, told, ep, minted, lapsed, unlinked,
                 outcome, aged, pc, tok, runs, result>>
bothVars    == <<flow, vars>>

-----------------------------------------------------------------------------
BothInit ==
  /\ flow \in {"create", "restore"}
  /\ IF flow = "create" THEN Init
     ELSE /\ Restore!Init
          /\ sd = Idle /\ seedMinted = Idle /\ seedLapsed = Idle /\ linked = Idle
          /\ at = Idle /\ seed = Idle /\ confirmed = Idle

BothNext ==
  /\ UNCHANGED flow
  /\ \/ flow = "create" /\ Next
     \/ flow = "restore" /\ Restore!Next /\ UNCHANGED seedOnly

(* The fairness of each flow: see VaultRestore.Fairness and                 *)
(* VaultCreate.Fairness.                                                    *)
BothSpec ==
  /\ BothInit /\ [][BothNext]_bothVars
  /\ \A t \in Tokens :
       /\ WF_vars(flow = "create" /\ Lapse(t))
       /\ SF_vars(flow = "create" /\ \E p \in Pollers : CallResume(p, t))
       /\ WF_restoreVars(flow = "restore" /\ Restore!Lapse(t))
       /\ SF_restoreVars(flow = "restore" /\ \E p \in RestorePollers : Restore!CallResume(p, t))
  /\ \A r \in Requests :
       /\ WF_vars(flow = "create" /\ Serve(r))
       /\ WF_restoreVars(flow = "restore" /\ Restore!Serve(r))
  /\ \A c \in Confirmations : WF_vars(flow = "create" /\ ServeSeed(c))
  /\ \A p \in Pollers : WF_vars(flow = "create" /\ Continue(p))
  /\ \A p \in RestorePollers : WF_restoreVars(flow = "restore" /\ Restore!Continue(p))

-----------------------------------------------------------------------------
(* Every variable of the flow keeps its type. *)
BothTypeOK == IF flow = "create" THEN TypeOK ELSE Restore!TypeOK

(* The agent is told the truth about the create (VaultCreate.Truthful) and  *)
(* the restore (VaultRestore.Truthful).                                     *)
AgentToldTruth == IF flow = "create" THEN Truthful ELSE Restore!Truthful

(* VaultRestore.InFlightRecorded: a running restore keeps its record.       *)
RunningIsRecorded == flow = "restore" => Restore!InFlightRecorded

(* VaultCreate.NotStranded: the seed stays within the human's reach.        *)
SeedInReach == flow = "create" => NotStranded

(* VaultRestore.OutcomeNotLost: what happened is kept until the agent has   *)
(* heard of it.                                                             *)
OutcomeKept ==
  [][flow = "restore" =>
       \A t \in Tokens :
         outcome[t] \in Restore!Results /\ outcome'[t] = "none" =>
           \/ t \in aged
           \/ \E p \in RestorePollers : ask[p] = t /\ verdict[p] \in {"done", "failed"}]_bothVars

(* Either flow drives its endpoint as Handoff allows: the specification of  *)
(* Handoff under the refinement mapping of its module.                      *)
BothImplementHandoff ==
  /\ IF flow = "create" THEN Generic!Init ELSE Restore!Generic!Init
  /\ [][IF flow = "create" THEN [Generic!Next]_(Generic!vars)
        ELSE [Restore!Generic!Next]_(Restore!Generic!vars)]_bothVars

(* An agent that keeps polling gets a final answer (EveryHandoffAnswered),  *)
(* or the seed link no longer resolves (AnsweredOrSeedLost).                *)
AgentAnswered ==
  \A t \in Tokens :
    t \in unlinked \cup minted ~>
      told[t] # {} \/ (flow = "create" /\ SeedLost(t))
=============================================================================

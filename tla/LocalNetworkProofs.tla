-------------------------- MODULE LocalNetworkProofs --------------------------
(* The safety properties of the local network, for every set of agents, calls *)
(* and requests, every policy and every bound: identities and resets, the     *)
(* ledgers of the nodes, the books (blocks, journals, snapshots), restores,   *)
(* types, and what an answer promises.                                        *)
EXTENDS LocalNetwork, SumProofs

-----------------------------------------------------------------------------
(* What calls and restores do to the memory leaves the keys of the nodes. *)

Keeps(m, n) == "keys" \in DOMAIN m /\ m.keys = n.keys

LEMMA AuditedKeeps ==
    ASSUME NEW n, NEW id, "keys" \in DOMAIN n PROVE Keeps(Audited(n, id), n)
  BY DEF Audited, Keeps

LEMMA DecideKeeps ==
    ASSUME NEW n, NEW p, NEW ballot, "keys" \in DOMAIN n
    PROVE  Keeps(Decide(n, p, ballot), n)
  BY DEF Decide, Keeps

LEMMA RewardKeeps ==
    ASSUME NEW n, "keys" \in DOMAIN n PROVE Keeps(SettleValidationReward(n), n)
  <1>1. ASSUME NEW x PROVE Keeps([n EXCEPT !.ledger = x], n)
    BY DEF Keeps
  <1> QED BY <1>1, AuditedKeeps DEF SettleValidationReward, Keeps

LEMMA ForceKeeps ==
    ASSUME NEW n, NEW c, "keys" \in DOMAIN n PROVE Keeps(ForceAccepted(n, c), n)
  BY DecideKeeps, RewardKeeps DEF ForceAccepted, Keeps

LEMMA RestoreKeeps ==
    ASSUME NEW n, NEW s, "keys" \in DOMAIN n PROVE Keeps(Restore(n, s), n)
  BY DEF Restore, Keeps

LEMMA GenesisKeeps ==
    ASSUME NEW n, "keys" \in DOMAIN n PROVE Keeps(EnsureGenesis(n), n)
  <1>1. ASSUME NEW x PROVE Keeps([n EXCEPT !.ledger = x], n)
    BY DEF Keeps
  <1> QED BY <1>1, AuditedKeeps DEF EnsureGenesis, Keeps

-----------------------------------------------------------------------------
(* The shape of the state *)

Saves == {"deciding", "settling"}

\* Who saves is somewhere its save belongs: a call in one of the two places that await
\* a save, start() in its last step.  Only a running network is reset.
ShapeInv ==
    /\ scenario \in Scenario /\ crashes \in Nat
    /\ phase \in {"down", "identifying", "starting", "up"}
    /\ reset \in {"none", "clearing", "unmirroring", "stopping", "stopped"}
    /\ reset \in {"clearing", "unmirroring", "stopping"} => phase = "up"
    /\ "keys" \in DOMAIN net
    /\ call = [c \in Call |-> call[c]]
    /\ pending = [s \in Saver |-> pending[s]]
    /\ committed \subseteq {s \in Saver : pending[s] # None}
    /\ pending[Boot] # None => phase = "starting"
    /\ \A c \in Call : pending[c] # None => call[c] \in Saves

\* A step of a call between two of its saves: it moves that call on and may start
\* a save, and the nodes keep their keys.
Advances(c) ==
    /\ phase = "up" /\ UNCHANGED <<phase, committed, store, control>>
    /\ call' = [call EXCEPT ![c] = call'[c]]
    /\ pending' = [pending EXCEPT ![c] = pending'[c]]
    /\ pending[c] = None
    /\ Keeps(net', net)
    /\ \/ pending'[c] = None
       \/ call'[c] \in Saves /\ pending'[c].agents = net.keys
    /\ (c \in Active /\ alone' = alone) \/ ~alone' \/ reset = "none"

LEMMA CallIsSaver ==
    ASSUME ShapeInv, NEW c \in DOMAIN Request
    PROVE  c \in Call /\ c \in Saver /\ c # Boot
  BY NetworkAssumption DEF ShapeInv, Request, Saver

LEMMA SnapshotKeys ==
    ASSUME NEW c \in Saver, NEW m, StartSave(c, m), pending = [s \in Saver |-> pending[s]]
    PROVE  /\ pending' = [pending EXCEPT ![c] = pending'[c]]
           /\ pending'[c].agents = m.keys
  <1>1. pending' = [pending EXCEPT ![c] = Snapshot(m)] /\ pending'[c] = Snapshot(m)
    BY DEF StartSave
  <1>2. Snapshot(m).agents = m.keys
    BY DEF Snapshot
  <1> QED BY <1>1, <1>2

LEMMA CallAdvances ==
    ASSUME ShapeInv, NEW c \in DOMAIN Request,
           SubmitCall(c) \/ SettleTransfer(c) \/ RefuseTransfer(c) \/ ApproveBridge(c)
             \/ UnknownAdapter(c) \/ ChargeBridge(c) \/ RefuseBridge(c) \/ FinishBridge(c)
    PROVE  Advances(c)
  <1>1. c \in Call /\ c \in Saver
    BY CallIsSaver
  <1>2. "keys" \in DOMAIN net /\ pending = [s \in Saver |-> pending[s]]
        /\ call = [d \in Call |-> call[d]]
        /\ \A d \in Call : pending[d] # None => call[d] \in Saves
    BY DEF ShapeInv
  <1>3. ASSUME NEW from, NEW to, Step(c, from, to), from \notin Saves
        PROVE  /\ phase = "up" /\ UNCHANGED <<phase, committed, store, control>>
               /\ call' = [call EXCEPT ![c] = call'[c]] /\ call'[c] = to
               /\ pending[c] = None
               /\ from \notin {"idle", "ok", "failed", "lost"} => c \in Active
    BY <1>1, <1>2, <1>3 DEF Step, Active
  <1>4. ASSUME NEW m, StartSave(c, m), Keeps(m, net)
        PROVE  /\ pending' = [pending EXCEPT ![c] = pending'[c]]
               /\ pending'[c].agents = net.keys
    BY <1>1, <1>2, <1>4, SnapshotKeys DEF Keeps
  <1>5. ASSUME UNCHANGED pending
        PROVE  pending' = [pending EXCEPT ![c] = pending'[c]] /\ pending'[c] = pending[c]
    BY <1>2, <1>5
  <1>6. CASE SubmitCall(c)
    <2>1. PICK ballot \in Ballots :
             net' = SettleValidationReward(Decide(net, <<c, "vote">>, ballot))
      BY <1>6 DEF SubmitCall
    <2>2. Keeps(net', net)
      BY <1>2, <2>1, DecideKeeps, RewardKeeps DEF Keeps
    <2>3. Step(c, "idle", "deciding") /\ StartSave(c, net')
          /\ (~alone' \/ reset = "none")
      BY <1>6 DEF SubmitCall
    <2>4. "idle" \notin Saves /\ "deciding" \in Saves
      BY DEF Saves
    <2> QED BY <1>3, <1>4, <2>2, <2>3, <2>4 DEF Advances
  <1>7. ASSUME NEW n, Keeps(n, net), NEW x, NEW id
        PROVE  /\ Keeps([n EXCEPT !.ledger = x], net)
               /\ Keeps(Audited([n EXCEPT !.ledger = x], id), net)
    <2>1. Keeps([n EXCEPT !.ledger = x], net)
      BY <1>7 DEF Keeps
    <2> QED BY <2>1, AuditedKeeps DEF Keeps
  <1>8. Keeps(ForceAccepted(net, c), net)
    BY <1>2, ForceKeeps
  <1>9. "decided" \notin Saves /\ "executing" \notin Saves /\ "publishing" \notin Saves
        /\ "settling" \in Saves
    BY DEF Saves
  <1>10. CASE SettleTransfer(c)
    <2>1. Keeps(net', net) /\ StartSave(c, net')
      BY <1>7, <1>8, <1>10 DEF SettleTransfer
    <2>2. Step(c, "decided", "settling") /\ alone' = alone
      BY <1>10 DEF SettleTransfer
    <2> QED BY <1>3, <1>4, <1>9, <2>1, <2>2 DEF Advances
  <1>11. CASE RefuseTransfer(c)
    <2>1. Keeps(net', net)
      BY <1>7, <1>8, <1>11 DEF RefuseTransfer
    <2>2. Step(c, "decided", "failed") /\ alone' = alone /\ UNCHANGED pending
      BY <1>11 DEF RefuseTransfer
    <2> QED BY <1>3, <1>5, <1>9, <2>1, <2>2 DEF Advances
  <1>12. CASE ApproveBridge(c)
    <2>1. Keeps(net', net)
      BY <1>8, <1>12 DEF ApproveBridge
    <2>2. Step(c, "decided", "executing") /\ alone' = alone /\ UNCHANGED pending
      BY <1>12 DEF ApproveBridge
    <2> QED BY <1>3, <1>5, <1>9, <2>1, <2>2 DEF Advances
  <1>13. CASE UnknownAdapter(c)
    <2>1. Step(c, "executing", "failed") /\ alone' = alone /\ UNCHANGED <<net, pending>>
      BY <1>13 DEF UnknownAdapter
    <2> QED BY <1>2, <1>3, <1>5, <1>9, <2>1 DEF Advances, Keeps
  <1>14. Keeps(Reported(net, c), net)
    BY <1>2 DEF Reported, Keeps
  <1>15. CASE ChargeBridge(c)
    <2>1. ASSUME NEW x, NEW y
          PROVE  Keeps([Reported(net, c) EXCEPT !.artifacts = y, !.ledger = x], net)
      BY <1>14 DEF Keeps
    <2>2. Keeps(net', net)
      BY <1>15, <2>1 DEF ChargeBridge
    <2>3. Step(c, "executing", "publishing") /\ alone' = alone /\ UNCHANGED pending
      BY <1>15 DEF ChargeBridge
    <2> QED BY <1>3, <1>5, <1>9, <2>2, <2>3 DEF Advances
  <1>16. CASE RefuseBridge(c)
    <2>1. Keeps(net', net)
      BY <1>7, <1>14, <1>16 DEF RefuseBridge
    <2>2. Step(c, "executing", "failed") /\ alone' = alone /\ UNCHANGED pending
      BY <1>16 DEF RefuseBridge
    <2> QED BY <1>3, <1>5, <1>9, <2>1, <2>2 DEF Advances
  <1>17. CASE FinishBridge(c)
    <2>1. Keeps(net', net) /\ StartSave(c, net')
      BY <1>2, <1>17, AuditedKeeps DEF FinishBridge
    <2>2. Step(c, "publishing", "settling") /\ alone' = alone
      BY <1>17 DEF FinishBridge
    <2> QED BY <1>3, <1>4, <1>9, <2>1, <2>2 DEF Advances
  <1> QED BY <1>6, <1>10, <1>11, <1>12, <1>13, <1>15, <1>16, <1>17

LEMMA InitShape == Init => ShapeInv
  <1> SUFFICES ASSUME Init PROVE ShapeInv
    OBVIOUS
  <1>1. "keys" \in DOMAIN net
    BY DEF Init, Unused, Fresh
  <1>2. /\ pending = [s \in Saver |-> None] /\ call = [c \in Call |-> "idle"]
        /\ committed = {} /\ crashes = 0 /\ phase = "down" /\ reset = "none"
        /\ scenario \in Scenario
    BY DEF Init
  <1> QED BY <1>1, <1>2 DEF ShapeInv, Saver

\* The end of a save, well or not, moves on who saved.
LEMMA EndSaveShape ==
    ASSUME ShapeInv, NEW s \in Saver, EndSave(s)
    PROVE  /\ pending' = [t \in Saver |-> pending'[t]] /\ pending'[s] = None
           /\ \A t \in Saver \ {s} : pending'[t] = pending[t]
           /\ committed' \subseteq {t \in Saver : pending'[t] # None}
  BY DEF ShapeInv, EndSave

LEMMA AdvanceShape ==
    ASSUME ShapeInv, NEW c \in DOMAIN Request, Advances(c)
    PROVE  ShapeInv'
  <1>1. c \in Call /\ c \in Saver /\ c # Boot
    BY CallIsSaver
  <1>2. "keys" \in DOMAIN net'
    BY DEF Advances, Keeps
  <1>3. call' = [d \in Call |-> call'[d]] /\ \A d \in Call \ {c} : call'[d] = call[d]
    BY <1>1 DEF ShapeInv, Advances
  <1>4. pending' = [t \in Saver |-> pending'[t]]
        /\ \A t \in Saver \ {c} : pending'[t] = pending[t]
    BY <1>1 DEF ShapeInv, Advances
  <1>5. \A d \in Call : pending'[d] # None => call'[d] \in Saves
    BY <1>1, <1>3, <1>4 DEF ShapeInv, Advances, Saver
  <1>6. UNCHANGED <<phase, committed, scenario, crashes, reset>> /\ phase = "up"
    BY DEF Advances, control
  <1>7. pending'[Boot] = pending[Boot]
    BY <1>1, <1>4 DEF Saver
  <1>8. committed' \subseteq {t \in Saver : pending'[t] # None}
    BY <1>4, <1>6 DEF ShapeInv, Advances
  <1> QED BY <1>2, <1>3, <1>4, <1>5, <1>6, <1>7, <1>8 DEF ShapeInv

LEMMA StepShape == ShapeInv /\ [Next]_vars => ShapeInv'
  <1> SUFFICES ASSUME ShapeInv, [Next]_vars PROVE ShapeInv'
    OBVIOUS
  <1>1. CASE LoadIdentities
    <2>1. "keys" \in DOMAIN net'
      BY <1>1 DEF LoadIdentities, Fresh
    <2>2. UNCHANGED <<call, pending, committed, scenario, crashes, reset>>
          /\ phase = "down" /\ phase' = "identifying"
          /\ \A s \in Saver : pending[s] = None
      BY <1>1 DEF LoadIdentities, saving, control
    <2> QED BY <2>1, <2>2 DEF ShapeInv, Saver
  <1>2. CASE SaveIdentity
    BY <1>2 DEF ShapeInv, SaveIdentity, memory, saving, control
  <1>3. CASE RestoreRuntime
    <2>1. "keys" \in DOMAIN net'
      BY <1>3, RestoreKeeps, GenesisKeeps DEF RestoreRuntime, Keeps, ShapeInv
    <2>2. UNCHANGED <<call, committed, scenario, crashes, reset>>
          /\ phase = "identifying" /\ phase' = "starting" /\ StartSave(Boot, net')
      BY <1>3 DEF RestoreRuntime, control
    <2>3. pending' = [t \in Saver |-> pending'[t]]
          /\ \A t \in Saver \ {Boot} : pending'[t] = pending[t]
      BY <2>2 DEF ShapeInv, StartSave
    <2>4. Boot \notin committed /\ Boot \in Saver
      BY <2>2 DEF ShapeInv, Saver
    <2>5. committed' \subseteq {t \in Saver : pending'[t] # None}
      BY <2>2, <2>3, <2>4 DEF ShapeInv
    <2>6. \A d \in Call : pending'[d] # None => call'[d] \in Saves
      BY <2>2, <2>3, NetworkAssumption DEF ShapeInv, Saver
    <2> QED BY <2>1, <2>2, <2>3, <2>5, <2>6 DEF ShapeInv
  <1>4. CASE FinishStart \/ FailStart
    <2>1. /\ EndSave(Boot) /\ phase' = "up" /\ reset' = "none"
          /\ UNCHANGED <<net, call, scenario, crashes>>
      BY <1>4 DEF FinishStart, FailStart
    <2>2. /\ pending' = [t \in Saver |-> pending'[t]] /\ pending'[Boot] = None
          /\ \A t \in Saver \ {Boot} : pending'[t] = pending[t]
          /\ committed' \subseteq {t \in Saver : pending'[t] # None}
      BY <2>1, EndSaveShape DEF Saver
    <2>3. \A d \in Call : pending'[d] = pending[d]
      BY <2>2, NetworkAssumption DEF Saver
    <2> QED BY <2>1, <2>2, <2>3 DEF ShapeInv
  <1>5. CASE End
    <2>1. "keys" \in DOMAIN net'
      BY <1>5 DEF End, Vanish, Unused, Fresh
    <2>2. /\ pending' = [s \in Saver |-> None] /\ committed' = {}
          /\ call' = [c \in Call |-> call'[c]] /\ crashes' = crashes + 1
          /\ phase' = "down" /\ reset' = "none" /\ scenario' = scenario
      BY <1>5 DEF End, Vanish
    <2> QED BY <2>1, <2>2 DEF ShapeInv, Saver
  <1>6. CASE Reset \/ ClearDatabase \/ ClearMirror \/ FailReset
    BY <1>6 DEF ShapeInv, Reset, ClearDatabase, ClearMirror, FailReset, memory, saving,
       control
  <1>7. CASE Stop
    <2>1. "keys" \in DOMAIN net'
      BY <1>7 DEF Stop, Vanish, Unused, Fresh
    <2>2. /\ UNCHANGED <<pending, committed, scenario, crashes>> /\ phase = "up"
          /\ phase' = "down" /\ reset' = "stopped"
          /\ call' = [c \in Call |-> call'[c]]
          /\ \A c \in Call : pending[c] # None => call'[c] = call[c]
      BY <1>7 DEF Stop, Vanish, saving, ShapeInv
    <2> QED BY <2>1, <2>2 DEF ShapeInv
  <1>8. ASSUME NEW s \in Saver, CommitSave(s) PROVE ShapeInv'
    BY <1>8 DEF ShapeInv, CommitSave, memory, control
  <1>9. ASSUME NEW c \in DOMAIN Request, CallStep(c) PROVE ShapeInv'
    <2>0. c \in Call /\ c \in Saver /\ c # Boot
      BY CallIsSaver
    <2>1. CASE MirrorSave(c) \/ FailSave(c)
      <3>1. /\ EndSave(c) /\ call' = [call EXCEPT ![c] = call'[c]]
            /\ UNCHANGED <<memory, scenario, crashes, reset>>
        BY <2>0, <2>1 DEF MirrorSave, FailSave, control, ShapeInv
      <3>2. /\ pending' = [t \in Saver |-> pending'[t]] /\ pending'[c] = None
            /\ \A t \in Saver \ {c} : pending'[t] = pending[t]
            /\ committed' \subseteq {t \in Saver : pending'[t] # None}
        BY <2>0, <3>1, EndSaveShape
      <3>3. call' = [d \in Call |-> call'[d]] /\ \A d \in Call \ {c} : call'[d] = call[d]
        BY <2>0, <3>1 DEF ShapeInv
      <3>4. pending'[Boot] = pending[Boot]
        BY <2>0, <3>2 DEF Saver
      <3>5. \A d \in Call : pending'[d] # None => call'[d] \in Saves
        BY <3>2, <3>3 DEF ShapeInv, Saver
      <3> QED BY <3>1, <3>2, <3>3, <3>4, <3>5 DEF ShapeInv, memory
    <2>2. CASE ~(MirrorSave(c) \/ FailSave(c))
      BY <1>9, <2>2, CallAdvances, AdvanceShape DEF CallStep
    <2> QED BY <2>1, <2>2
  <1>10. ASSUME NEW fee \in gossip, DeliverFee(fee) PROVE ShapeInv'
    BY <1>10 DEF ShapeInv, DeliverFee, saving, control
  <1>11. CASE UNCHANGED vars
    BY <1>11 DEF ShapeInv, vars, memory, saving, control
  <1> QED BY <1>1, <1>2, <1>3, <1>4, <1>5, <1>6, <1>7, <1>8, <1>9, <1>10, <1>11 DEF Next

-----------------------------------------------------------------------------
(* Identities *)

Named == \A a \in Agent : slots[a] # NoKey
Fits(snapshot) == snapshot # None => Named /\ snapshot.agents = slots

\* While the identities are being stored there is nothing that would fit others:
\* they are generated only when some are missing, and then no snapshot was ever
\* made.  Every snapshot under way is one of the nodes whose keys are stored.
IdentityInv ==
    /\ Fits(db) /\ Fits(mirror)
    /\ \A s \in Saver : Fits(pending[s])
    /\ phase \in {"starting", "up"} => Named /\ net.keys = slots
    /\ phase = "identifying" =>
          /\ \A s \in Saver : pending[s] = None
          /\ \A a \in Agent : net.keys[a] # NoKey
          /\ slots = net.keys \/ (db = None /\ mirror = None)

LEMMA InitIdentity == Init => IdentityInv
  BY DEF Init, IdentityInv, Fits

LEMMA SaveEndsFits ==
    ASSUME ShapeInv, IdentityInv, NEW s \in Saver, EndSave(s), UNCHANGED slots
    PROVE  \A t \in Saver : Fits(pending[t])'
  <1>1. \A t \in Saver : pending'[t] = None \/ pending'[t] = pending[t]
    BY EndSaveShape
  <1> QED BY <1>1 DEF IdentityInv, Fits, Named

LEMMA StepIdentity == ShapeInv /\ IdentityInv /\ [Next]_vars => IdentityInv'
  <1> SUFFICES ASSUME ShapeInv, IdentityInv, [Next]_vars PROVE IdentityInv'
    OBVIOUS
  <1>1. CASE LoadIdentities
    <2>1. /\ UNCHANGED <<pending, db, mirror, slots>> /\ phase' = "identifying"
          /\ \A s \in Saver : pending[s] = None
      BY <1>1 DEF LoadIdentities, saving, store
    <2>2. CASE AllIdentities
      <3>1. net'.keys = slots
        BY <1>1, <2>2 DEF LoadIdentities, Fresh
      <3> QED BY <2>1, <2>2, <3>1 DEF IdentityInv, Fits, Named, AllIdentities
    <2>3. CASE ~AllIdentities
      <3>1. net'.keys = [a \in Agent |-> crashes] /\ crashes # NoKey
        BY <1>1, <2>3, NetworkAssumption DEF LoadIdentities, Fresh, ShapeInv
      <3>2. db = None /\ mirror = None
        BY <2>3 DEF IdentityInv, Fits, Named, AllIdentities
      <3> QED BY <2>1, <3>1, <3>2 DEF IdentityInv, Fits, Named
    <2> QED BY <2>2, <2>3
  <1>2. CASE SaveIdentity
    <2>1. /\ UNCHANGED <<net, phase, pending, db, mirror>> /\ phase = "identifying"
          /\ slots # net.keys
      BY <1>2 DEF SaveIdentity, memory, saving
    <2> QED BY <2>1 DEF IdentityInv, Fits
  <1>3. CASE RestoreRuntime
    <2>1. /\ phase = "identifying" /\ phase' = "starting" /\ slots = net.keys
          /\ UNCHANGED <<db, slots>> /\ StartSave(Boot, net')
          /\ mirror' \in {db, mirror}
      BY <1>3 DEF RestoreRuntime, Cached
    <2>2. Keeps(net', net)
      BY <1>3, RestoreKeeps, GenesisKeeps DEF RestoreRuntime, Keeps, ShapeInv
    <2>3. Named
      BY <2>1 DEF IdentityInv, Named
    <2>4. \A t \in Saver : pending'[t] = None \/ pending'[t].agents = slots
      <3>1. pending'[Boot].agents = slots
        BY <2>1, <2>2, SnapshotKeys DEF ShapeInv, Keeps, Saver
      <3>2. \A t \in Saver \ {Boot} : pending'[t] = None
        BY <2>1 DEF StartSave, ShapeInv, IdentityInv
      <3> QED BY <3>1, <3>2
    <2> QED BY <2>1, <2>2, <2>3, <2>4 DEF IdentityInv, Fits, Named, Keeps
  <1>4. CASE FinishStart \/ FailStart
    <2>1. /\ EndSave(Boot) /\ phase' = "up"
          /\ UNCHANGED <<net, db, slots>> /\ mirror' \in {pending[Boot], mirror}
      BY <1>4 DEF FinishStart, FailStart, Cached, store
    <2>2. phase = "starting"
      BY <1>4 DEF ShapeInv, FinishStart, FailStart
    <2>3. Boot \in Saver
      BY DEF Saver
    <2>4. \A t \in Saver : Fits(pending[t])'
      BY <2>1, <2>3, SaveEndsFits
    <2> QED BY <2>1, <2>2, <2>3, <2>4 DEF IdentityInv, Fits, Named
  <1>5. CASE End
    <2>1. pending' = [s \in Saver |-> None] /\ phase' = "down" /\ UNCHANGED store
      BY <1>5 DEF End, Vanish
    <2> QED BY <2>1 DEF IdentityInv, Fits, Named, store
  <1>6. CASE Reset \/ FailReset
    BY <1>6 DEF IdentityInv, Fits, Named, Reset, FailReset, memory, saving, store
  <1>7. CASE ClearDatabase
    BY <1>7 DEF IdentityInv, Fits, Named, ClearDatabase, memory, saving
  <1>8. CASE ClearMirror
    BY <1>8 DEF IdentityInv, Fits, Named, ClearMirror, memory, saving
  <1>9. CASE Stop
    BY <1>9 DEF IdentityInv, Fits, Named, Stop, Vanish, saving, store
  <1>10. ASSUME NEW s \in Saver, CommitSave(s) PROVE IdentityInv'
    BY <1>10 DEF IdentityInv, Fits, Named, CommitSave, memory
  <1>11. ASSUME NEW c \in DOMAIN Request, CallStep(c) PROVE IdentityInv'
    <2>0. c \in Call /\ c \in Saver /\ c # Boot
      BY CallIsSaver
    <2>1. CASE MirrorSave(c) \/ FailSave(c)
      <3>1. /\ EndSave(c) /\ UNCHANGED <<memory, db, slots>>
            /\ mirror' \in {pending[c], mirror}
        BY <2>1 DEF MirrorSave, FailSave, store, Cached
      <3>2. \A t \in Saver : Fits(pending[t])'
        BY <2>0, <3>1, SaveEndsFits
      <3>3. phase' # "identifying" \/ pending' = pending
        BY <2>0, <2>1, <3>1 DEF MirrorSave, FailSave, IdentityInv, ShapeInv, memory
      <3> QED BY <2>0, <3>1, <3>2, <3>3 DEF IdentityInv, Fits, Named, memory
    <2>2. CASE ~(MirrorSave(c) \/ FailSave(c))
      <3>1. Advances(c)
        BY <1>11, <2>2, CallAdvances DEF CallStep
      <3>2. /\ UNCHANGED <<phase, db, mirror, slots>> /\ phase = "up"
            /\ net'.keys = net.keys
            /\ pending'[c] = None \/ pending'[c].agents = slots
        BY <3>1 DEF Advances, store, Keeps, IdentityInv
      <3>3. \A t \in Saver \ {c} : pending'[t] = pending[t]
        BY <2>0, <3>1 DEF Advances, ShapeInv
      <3> QED BY <3>2, <3>3 DEF IdentityInv, Fits, Named
    <2> QED BY <2>1, <2>2
  <1>12. ASSUME NEW fee \in gossip, DeliverFee(fee) PROVE IdentityInv'
    BY <1>12 DEF IdentityInv, Fits, Named, DeliverFee, saving, store
  <1>13. CASE UNCHANGED vars
    BY <1>13 DEF IdentityInv, Fits, Named, vars, memory, saving, store
  <1> QED BY <1>1, <1>2, <1>3, <1>4, <1>5, <1>6, <1>7, <1>8, <1>9, <1>10, <1>11, <1>12,
             <1>13 DEF Next

LEMMA Shape == Spec => []ShapeInv
  BY InitShape, StepShape, PTL DEF Spec

\* No start, however often it was cut off before, meets a snapshot of nodes with
\* other identities than those stored (loadOrCreateIdentities, saveNodeIdentities).
THEOREM SnapshotsFitIdentities == Spec => []SnapshotFitsIdentities
  <1>1. IdentityInv => SnapshotFitsIdentities
    BY DEF IdentityInv, Fits, Named, SnapshotFitsIdentities
  <1> QED BY <1>1, Shape, InitIdentity, StepIdentity, PTL DEF Spec

-----------------------------------------------------------------------------
(* Resets *)

Quiet == \A c \in Call : call[c] \in {"idle", "ok", "failed", "lost"}

\* A reset that no call overlaps leaves nobody who could save: what it has cleared
\* stays cleared, until the nodes start again with nothing but their keys.
ResetInv ==
    /\ alone /\ reset # "none" => Quiet
    /\ alone /\ phase # "starting" /\ reset \in {"unmirroring", "stopping", "stopped"}
         => db = None
    /\ alone /\ phase # "starting" /\ reset \in {"stopping", "stopped"} => mirror = None
    /\ phase = "identifying" => net = Fresh(net.keys)
    /\ alone /\ phase = "starting" /\ reset = "stopped"
         => net = EnsureGenesis(Fresh(slots))

LEMMA InitReset == Init => ResetInv
  BY DEF Init, ResetInv, Quiet

\* While all is quiet no call saves.
LEMMA QuietSavesNothing ==
    ASSUME ShapeInv, Quiet
    PROVE  \A s \in Saver : pending[s] # None => s = Boot /\ phase = "starting"
  BY DEF ShapeInv, Quiet, Saves, Saver

LEMMA StepReset == ShapeInv /\ ResetInv /\ [Next]_vars => ResetInv'
  <1> SUFFICES ASSUME ShapeInv, ResetInv, [Next]_vars PROVE ResetInv'
    OBVIOUS
  <1>1. CASE LoadIdentities
    <2>1. /\ UNCHANGED <<call, db, mirror, reset, alone>>
          /\ phase = "down" /\ phase' = "identifying"
      BY <1>1 DEF LoadIdentities, store, control
    <2>2. net' = Fresh(net'.keys)
      BY <1>1 DEF LoadIdentities, Fresh
    <2> QED BY <2>1, <2>2 DEF ResetInv, Quiet
  <1>2. CASE SaveIdentity
    <2>1. UNCHANGED <<phase, net, call, db, mirror, reset, alone>>
          /\ phase = "identifying"
      BY <1>2 DEF SaveIdentity, memory, control
    <2> QED BY <2>1 DEF ResetInv, Quiet
  <1>3. CASE RestoreRuntime
    <2>1. /\ phase = "identifying" /\ phase' = "starting" /\ slots = net.keys
          /\ UNCHANGED <<call, db, slots, reset, alone>>
      BY <1>3 DEF RestoreRuntime, control
    <2>2. ASSUME alone, reset = "stopped" PROVE net' = EnsureGenesis(Fresh(slots'))
      <3>1. Source = None
        BY <2>1, <2>2 DEF Source, ResetInv
      <3>2. net' = EnsureGenesis(net)
        BY <1>3, <3>1 DEF RestoreRuntime
      <3>3. net = Fresh(slots)
        BY <2>1 DEF ResetInv
      <3> QED BY <2>1, <3>2, <3>3
    <2> QED BY <2>1, <2>2 DEF ResetInv, Quiet
  <1>4. CASE FinishStart \/ FailStart \/ End
    <2>1. reset' = "none" /\ phase' \in {"up", "down"}
      BY <1>4 DEF FinishStart, FailStart, End, Vanish
    <2> QED BY <2>1 DEF ResetInv
  <1>5. CASE Reset
    <2>1. /\ phase = "up" /\ phase' = "up" /\ reset' = "clearing"
          /\ alone' = (Active = {}) /\ call' = call
      BY <1>5 DEF Reset, memory
    <2>2. alone' => Quiet'
      BY <2>1 DEF Active, Quiet
    <2> QED BY <2>1, <2>2 DEF ResetInv
  <1>6. CASE ClearDatabase
    <2>1. /\ reset = "clearing" /\ reset' = "unmirroring" /\ db' = None
          /\ UNCHANGED <<phase, net, call, alone>>
      BY <1>6 DEF ClearDatabase, memory
    <2>2. phase = "up"
      BY <2>1 DEF ShapeInv
    <2> QED BY <2>1, <2>2 DEF ResetInv, Quiet
  <1>7. CASE ClearMirror
    <2>1. /\ reset = "unmirroring" /\ reset' = "stopping" /\ mirror' = None
          /\ UNCHANGED <<phase, net, call, db, alone>>
      BY <1>7 DEF ClearMirror, memory
    <2>2. phase = "up"
      BY <2>1 DEF ShapeInv
    <2> QED BY <2>1, <2>2 DEF ResetInv, Quiet
  <1>8. CASE FailReset
    <2>1. reset' = "none" /\ UNCHANGED <<phase, net>>
      BY <1>8 DEF FailReset, memory
    <2> QED BY <2>1 DEF ResetInv
  <1>9. CASE Stop
    <2>1. /\ reset = "stopping" /\ phase' = "down"
          /\ UNCHANGED <<db, mirror, alone>>
      BY <1>9 DEF Stop, Vanish, store
    <2>2. Quiet => Quiet'
      BY <1>9 DEF Stop, Quiet
    <2>3. phase = "up"
      BY <2>1 DEF ShapeInv
    <2> QED BY <2>1, <2>2, <2>3 DEF ResetInv
  <1>10. ASSUME NEW s \in Saver, CommitSave(s) PROVE ResetInv'
    <2>1. /\ UNCHANGED <<phase, net, call, mirror, slots, reset, alone>>
          /\ pending[s] # None
      BY <1>10 DEF CommitSave, memory, control
    <2>2. Quiet => phase = "starting"
      BY <2>1, QuietSavesNothing
    <2> QED BY <2>1, <2>2 DEF ResetInv, Quiet
  <1>11. ASSUME NEW c \in DOMAIN Request, CallStep(c) PROVE ResetInv'
    <2>0. c \in Call /\ c \in Saver /\ c # Boot
      BY CallIsSaver
    <2>1. CASE MirrorSave(c) \/ FailSave(c)
      <3>1. UNCHANGED <<phase, net, slots, reset, alone>> /\ pending[c] # None
        BY <2>1 DEF MirrorSave, FailSave, memory, control, store, ShapeInv
      <3>2. ~Quiet
        BY <2>0, <3>1, QuietSavesNothing
      <3> QED BY <3>1, <3>2 DEF ResetInv
    <2>2. CASE ~(MirrorSave(c) \/ FailSave(c))
      <3>1. Advances(c)
        BY <1>11, <2>2, CallAdvances DEF CallStep
      <3>2. /\ phase = "up" /\ UNCHANGED <<phase, db, mirror, slots, reset>>
            /\ (c \in Active /\ alone' = alone) \/ ~alone' \/ reset = "none"
        BY <3>1 DEF Advances, store, control
      <3>3. c \in Active => ~Quiet
        BY <2>0 DEF Active, Quiet
      <3> QED BY <3>2, <3>3 DEF ResetInv
    <2> QED BY <2>1, <2>2
  <1>12. ASSUME NEW fee \in gossip, DeliverFee(fee) PROVE ResetInv'
    BY <1>12 DEF ResetInv, Quiet, DeliverFee, store, control
  <1>13. CASE UNCHANGED vars
    BY <1>13 DEF ResetInv, Quiet, vars, memory, store, control
  <1> QED BY <1>1, <1>2, <1>3, <1>4, <1>5, <1>6, <1>7, <1>8, <1>9, <1>10, <1>11, <1>12,
             <1>13 DEF Next

\* Nothing else of a reset moves in the last step of start().
LEMMA StartingIsUndisturbed ==
    ASSUME ShapeInv, [Next]_vars, phase' = "starting", reset = "stopped"
    PROVE  UNCHANGED <<slots, reset, alone>>
  <1>1. ~(LoadIdentities \/ SaveIdentity \/ FinishStart \/ FailStart \/ End \/ Stop)
    BY DEF LoadIdentities, SaveIdentity, FinishStart, FailStart, End, Stop, Vanish, memory
  <1>2. ~(Reset \/ ClearDatabase \/ ClearMirror \/ FailReset)
    BY DEF Reset, ClearDatabase, ClearMirror, FailReset
  <1>3. CASE RestoreRuntime
    BY <1>3 DEF RestoreRuntime, control
  <1>4. ASSUME NEW s \in Saver, CommitSave(s) PROVE UNCHANGED <<slots, reset, alone>>
    BY <1>4 DEF CommitSave, control
  <1>5. ASSUME NEW c \in DOMAIN Request, CallStep(c)
        PROVE  UNCHANGED <<slots, reset, alone>>
    <2>1. CASE MirrorSave(c) \/ FailSave(c)
      BY <2>1 DEF MirrorSave, FailSave, store, control
    <2>2. CASE ~(MirrorSave(c) \/ FailSave(c))
      BY <1>5, <2>2, CallAdvances DEF CallStep, Advances
    <2> QED BY <2>1, <2>2
  <1>6. ASSUME NEW fee \in gossip, DeliverFee(fee)
        PROVE  UNCHANGED <<slots, reset, alone>>
    BY <1>6 DEF DeliverFee, store, control
  <1>7. CASE UNCHANGED vars
    BY <1>7 DEF vars, store, control
  <1> QED BY <1>1, <1>2, <1>3, <1>4, <1>5, <1>6, <1>7 DEF Next

\* A reset that no call overlaps forgets everything but the identities: the nodes
\* start again from the genesis, whatever the database and Redis held (reset,
\* clearRuntimeState).
THEOREM ResetsForget == Spec => ResetForgets
  <1>1. ShapeInv /\ ResetInv /\ ResetInv' /\ [Next]_vars
          => [reset = "stopped" /\ phase' = "starting" /\ alone
                => net' = EnsureGenesis(Fresh(slots))]_vars
    <2> SUFFICES ASSUME ShapeInv, ResetInv, ResetInv', [Next]_vars,
                        reset = "stopped", phase' = "starting", alone
                 PROVE  net' = EnsureGenesis(Fresh(slots)) \/ UNCHANGED vars
      OBVIOUS
    <2>1. UNCHANGED <<slots, reset, alone>>
      BY StartingIsUndisturbed
    <2> QED BY <2>1 DEF ResetInv
  <1> QED BY <1>1, Shape, InitReset, StepReset, PTL DEF Spec, ResetForgets

-----------------------------------------------------------------------------
(* The ledgers of the other nodes *)

IsSequence(s) == s \in Seq({s[i] : i \in DOMAIN s})

LEMMA SequenceAppend ==
    ASSUME NEW s, IsSequence(s), NEW e
    PROVE  /\ IsSequence(Append(s, e))
           /\ \A i \in DOMAIN s : i \in DOMAIN Append(s, e) /\ Append(s, e)[i] = s[i]
           /\ \E i \in DOMAIN Append(s, e) : Append(s, e)[i] = e
  <1> DEFINE S == {s[i] : i \in DOMAIN s}
             T == S \cup {e}
             t == Append(s, e)
  <1>1. s \in Seq(S) /\ s \in Seq(T)
    BY DEF IsSequence
  <1> HIDE DEF S
  <1>2. /\ t \in Seq(T) /\ Len(s) \in Nat /\ DOMAIN s = 1 .. Len(s)
        /\ Len(t) = Len(s) + 1 /\ DOMAIN t = 1 .. Len(s) + 1
        /\ \A i \in 1 .. Len(s) : t[i] = s[i]
        /\ t[Len(s) + 1] = e
    BY <1>1
  <1> HIDE DEF t, T
  <1>3. t \in Seq({t[i] : i \in DOMAIN t})
    BY <1>2
  <1>4. /\ \A i \in DOMAIN s : i \in DOMAIN t /\ t[i] = s[i]
        /\ \E i \in DOMAIN t : t[i] = e
    BY <1>2
  <1> QED BY <1>3, <1>4 DEF IsSequence, t

LedgerParts == {"accounts", "balance", "nonce", "minted", "events", "fees"}

LedgerShape(L) == LedgerParts \subseteq DOMAIN L /\ IsSequence(L.fees)

\* Two ledgers that differ in nothing but the accounts that exist without ever having
\* held anything.
Agree(L, M) ==
    /\ LedgerShape(L) /\ LedgerShape(M)
    /\ L.balance = M.balance /\ L.nonce = M.nonce
    /\ L.events = M.events /\ L.fees = M.fees

\* M has every fee of L.
KeepsFees(L, M) ==
    LedgerShape(M) /\ \A fee : Token!HasFee(L, fee) => Token!HasFee(M, fee)

LEMMA EmptyShape == LedgerShape(Token!EmptyLedger)
  <1>1. Token!EmptyLedger.fees = <<>>
    BY DEF Token!EmptyLedger
  <1>2. IsSequence(<<>>)
    BY DEF IsSequence
  <1> QED BY <1>1, <1>2 DEF LedgerShape, LedgerParts, Token!EmptyLedger

LEMMA EnsureAgrees ==
    ASSUME NEW L, LedgerShape(L), NEW owners
    PROVE  Agree(L, Token!Ensure(L, owners))
  BY DEF Agree, LedgerShape, LedgerParts, Token!Ensure

LEMMA AgreeKeeps ==
    ASSUME NEW L, NEW M, Agree(L, M)
    PROVE  KeepsFees(L, M)
  BY DEF Agree, KeepsFees, Token!HasFee

LEMMA KeepsTransitive ==
    ASSUME NEW L, NEW M, NEW N, KeepsFees(L, M), KeepsFees(M, N)
    PROVE  KeepsFees(L, N)
  BY DEF KeepsFees

\* An operation that leaves the fee journal alone ...
LEMMA SameFees ==
    ASSUME NEW L, LedgerShape(L), NEW M, LedgerParts \subseteq DOMAIN M, M.fees = L.fees
    PROVE  KeepsFees(L, M)
  BY DEF KeepsFees, LedgerShape, Token!HasFee

\* ... and one that appends to it.
LEMMA OneMoreFee ==
    ASSUME NEW L, LedgerShape(L), NEW M, LedgerParts \subseteq DOMAIN M, NEW fee,
           M.fees = Append(L.fees, fee)
    PROVE  /\ KeepsFees(L, M)
           /\ \A f : f.id = fee.id => Token!HasFee(M, f)
  <1>1. IsSequence(L.fees)
    BY DEF LedgerShape
  <1>2. /\ IsSequence(M.fees)
        /\ \A i \in DOMAIN L.fees : i \in DOMAIN M.fees /\ M.fees[i] = L.fees[i]
        /\ \E i \in DOMAIN M.fees : M.fees[i] = fee
    BY <1>1, SequenceAppend
  <1> QED BY <1>2 DEF KeepsFees, LedgerShape, Token!HasFee

LEMMA MintKeeps ==
    ASSUME NEW L, LedgerShape(L), NEW kind, NEW ref, NEW height, NEW to, NEW amount
    PROVE  KeepsFees(L, Token!Mint(L, kind, ref, height, to, amount))
  <1> DEFINE M == Token!Mint(L, kind, ref, height, to, amount)
  <1>1. LedgerParts \subseteq DOMAIN M /\ M.fees = L.fees
    BY DEF LedgerShape, LedgerParts, Token!Mint, Token!Ensure
  <1> HIDE DEF M
  <1>2. KeepsFees(L, M)
    BY <1>1, SameFees
  <1> QED BY <1>2 DEF M

LEMMA SeedKeeps ==
    ASSUME NEW L, LedgerShape(L), NEW agents
    PROVE  KeepsFees(L, Token!SeedGenesis(L, agents))
  <1> DEFINE M == Token!SeedGenesis(L, agents)
  <1>1. LedgerParts \subseteq DOMAIN M /\ M.fees = L.fees
    BY DEF LedgerShape, LedgerParts, Token!SeedGenesis, Token!Ensure
  <1> HIDE DEF M
  <1>2. KeepsFees(L, M)
    BY <1>1, SameFees
  <1> QED BY <1>2 DEF M

LEMMA TransferKeeps ==
    ASSUME NEW L, LedgerShape(L), NEW t
    PROVE  KeepsFees(L, Token!Transfer(L, t))
  <1> DEFINE M == Token!Transfer(L, t)
             fee == Token!FeeEvent(t.ref, "coordination", t.from,
                        Token!FeeCollector(t.from, t.validator),
                        Token!TransferFee(t.amount, t.height, t.memoBytes))
  <1>1. LedgerParts \subseteq DOMAIN M /\ M.fees = Append(L.fees, fee)
    BY DEF LedgerShape, LedgerParts, Token!Transfer, Token!Ensure
  <1> HIDE DEF M, fee
  <1>2. KeepsFees(L, M)
    BY <1>1, OneMoreFee
  <1> QED BY <1>2 DEF M

LEMMA PayFeeKeeps ==
    ASSUME NEW L, LedgerShape(L), NEW ref, NEW kind, NEW payer, NEW payee, NEW amount,
           NEW fee, fee = Token!FeeEvent(ref, kind, payer, payee, amount)
    PROVE  /\ KeepsFees(L, Token!PayFee(L, ref, kind, payer, payee, amount))
           /\ Token!HasFee(Token!PayFee(L, ref, kind, payer, payee, amount), fee)
  <1> DEFINE M == Token!PayFee(L, ref, kind, payer, payee, amount)
  <1>1. LedgerParts \subseteq DOMAIN M /\ M.fees = Append(L.fees, fee)
    BY DEF LedgerShape, LedgerParts, Token!PayFee, Token!Ensure
  <1> HIDE DEF M
  <1>2. KeepsFees(L, M) /\ \A f : f.id = fee.id => Token!HasFee(M, f)
    BY <1>1, OneMoreFee
  <1> QED BY <1>2 DEF M

NodeParts == {"keys", "core", "audit", "ledger", "registry", "artifacts"}

NodeShape(n) == NodeParts \subseteq DOMAIN n /\ LedgerShape(n.ledger)

\* From n to m no fee is lost.
KeepsBooks(n, m) == NodeShape(m) /\ KeepsFees(n.ledger, m.ledger)

LEMMA SameBooks ==
    ASSUME NEW n, NodeShape(n) PROVE KeepsBooks(n, n)
  BY DEF KeepsBooks, KeepsFees, NodeShape

LEMMA BooksTransitive ==
    ASSUME NEW n, NEW m, NEW o, KeepsBooks(n, m), KeepsBooks(m, o)
    PROVE  KeepsBooks(n, o)
  BY KeepsTransitive DEF KeepsBooks

LEMMA NewLedger ==
    ASSUME NEW n, NodeShape(n), NEW L, KeepsFees(n.ledger, L),
           NEW m, m = [n EXCEPT !.ledger = L]
    PROVE  KeepsBooks(n, m) /\ m.ledger = L
  BY DEF KeepsBooks, KeepsFees, NodeShape, NodeParts

LEMMA AuditedBooks ==
    ASSUME NEW n, NodeShape(n), NEW id
    PROVE  KeepsBooks(n, Audited(n, id)) /\ Audited(n, id).ledger = n.ledger
  <1>1. NodeParts \subseteq DOMAIN Audited(n, id) /\ Audited(n, id).ledger = n.ledger
    BY DEF Audited, NodeShape, NodeParts
  <1> QED BY <1>1, SameBooks DEF KeepsBooks, NodeShape

LEMMA DecideBooks ==
    ASSUME NEW n, NodeShape(n), NEW p, NEW ballot
    PROVE  KeepsBooks(n, Decide(n, p, ballot))
  <1>1. NodeParts \subseteq DOMAIN Decide(n, p, ballot)
        /\ Decide(n, p, ballot).ledger = n.ledger
    BY DEF Decide, NodeShape, NodeParts
  <1> QED BY <1>1, SameBooks DEF KeepsBooks, NodeShape

LEMMA RewardBooks ==
    ASSUME NEW n, NodeShape(n) PROVE KeepsBooks(n, SettleValidationReward(n))
  <1> DEFINE block == LastBlock(n)
             due == Token!RewardDue(n.ledger, block.height)
             unpaid == Token!Rewarded(n.ledger, BlockId(block)) \/ due = 0
             mint == Token!Mint(n.ledger, "reward", BlockId(block), block.height,
                                Coordinator, due)
             paid == IF unpaid THEN n.ledger ELSE mint
             m == [n EXCEPT !.ledger = paid]
             id == <<"token.reward.issued", BlockId(block)>>
  <1>1. SettleValidationReward(n) = Audited(m, id)
    BY DEF SettleValidationReward
  <1>2. LedgerShape(n.ledger) /\ KeepsFees(n.ledger, n.ledger)
    BY SameBooks DEF NodeShape, KeepsBooks
  <1>3. KeepsFees(n.ledger, mint)
    BY <1>2, MintKeeps
  <1> HIDE DEF mint, unpaid, id
  <1>4. KeepsFees(n.ledger, paid)
    BY <1>2, <1>3
  <1> HIDE DEF paid
  <1>5. KeepsBooks(n, m)
    BY <1>4, NewLedger
  <1> HIDE DEF m
  <1>6. KeepsBooks(m, Audited(m, id))
    BY <1>5, AuditedBooks DEF KeepsBooks
  <1> QED BY <1>1, <1>5, <1>6, BooksTransitive

LEMMA ForceBooks ==
    ASSUME NEW n, NodeShape(n), NEW c PROVE KeepsBooks(n, ForceAccepted(n, c))
  <1> DEFINE m == Decide(n, <<c, "approved">>, AllSupport)
             o == SettleValidationReward(m)
  <1>1. ForceAccepted(n, c) = n \/ ForceAccepted(n, c) = o
    BY DEF ForceAccepted
  <1>2. KeepsBooks(n, m)
    BY DecideBooks
  <1> HIDE DEF m
  <1>3. KeepsBooks(m, o)
    BY <1>2, RewardBooks DEF KeepsBooks
  <1> HIDE DEF o
  <1>4. KeepsBooks(n, o)
    BY <1>2, <1>3, BooksTransitive
  <1> QED BY <1>1, <1>4, SameBooks

\* The ledger of a snapshot is that of the node it was taken from.
LEMMA SnapshotLedger ==
    ASSUME NEW n PROVE Snapshot(n).ledger = n.ledger
  BY DEF Snapshot

LEMMA GenesisBooks ==
    ASSUME NEW n, NodeShape(n) PROVE KeepsBooks(n, EnsureGenesis(n))
  <1> DEFINE L == Token!SeedGenesis(n.ledger, AgentOrder)
             m == [n EXCEPT !.ledger = L]
             id == <<"token.genesis.seeded">>
  <1>1. EnsureGenesis(n) = n \/ EnsureGenesis(n) = Audited(m, id)
    BY DEF EnsureGenesis
  <1>2. KeepsFees(n.ledger, L)
    BY SeedKeeps DEF NodeShape
  <1> HIDE DEF L, id
  <1>3. KeepsBooks(n, m)
    BY <1>2, NewLedger
  <1> HIDE DEF m
  <1>4. KeepsBooks(m, Audited(m, id))
    BY <1>3, AuditedBooks DEF KeepsBooks
  <1> QED BY <1>1, <1>3, <1>4, BooksTransitive, SameBooks

LEMMA RestoredShape ==
    ASSUME NEW n, NodeShape(n), NEW s, LedgerShape(s.ledger)
    PROVE  NodeShape(Restore(n, s))
  BY DEF Restore, NodeShape, NodeParts

LEMMA FreshShape ==
    ASSUME NEW keys
    PROVE  /\ NodeShape(Fresh(keys)) /\ Fresh(keys).ledger = Token!EmptyLedger
           /\ Fresh(keys).keys = keys
  BY EmptyShape DEF Fresh, NodeShape, NodeParts

-----------------------------------------------------------------------------
(* The inductive invariant *)

Publishing == \E c \in Call : call[c] = "publishing"

Booked(snapshot) == snapshot # None => LedgerShape(snapshot.ledger)

\* The ledgers agree while no call has a fee to copy, and every fee that is still
\* on its way is in the journal already: when it arrives it is ignored, unless a
\* call is about to copy the ledger anyway.  A restore may replace the journal
\* because no fee of an earlier process is on its way.
FollowInv ==
    /\ NodeShape(net)
    /\ \A s \in Saver : Booked(pending[s])
    /\ Booked(db) /\ Booked(mirror)
    /\ \A fee \in gossip : Token!HasFee(net.ledger, fee)
    /\ phase \in {"down", "identifying"} =>
          /\ gossip = {}
          /\ replica = Token!EmptyLedger /\ net.ledger = Token!EmptyLedger
    /\ Publishing \/ Agree(net.ledger, replica)

\* The form the steps of calls have: one call moves on, no fee is forgotten.
LEMMA CallFollows ==
    ASSUME ShapeInv, FollowInv, NEW c \in DOMAIN Request, Advances(c),
           KeepsBooks(net, net'),
           \A fee \in gossip' \ gossip : Token!HasFee(net'.ledger, fee),
           pending'[c] # None => pending'[c].ledger = net'.ledger,
           \/ replica' = net'.ledger
           \/ call'[c] = "publishing"
           \/ call[c] # "publishing" /\ (~Publishing => Agree(net'.ledger, replica'))
    PROVE  FollowInv' /\ KeepsBooks(net, net')
  <1>1. c \in Call /\ c \in Saver /\ c # Boot
    BY CallIsSaver
  <1>2. NodeShape(net') /\ LedgerShape(net'.ledger)
    BY DEF KeepsBooks, NodeShape
  <1>3. \A s \in Saver : Booked(pending[s])'
    <2>1. \A s \in Saver \ {c} : pending'[s] = pending[s]
      BY <1>1 DEF ShapeInv, Advances
    <2>2. Booked(pending'[c])
      BY <1>2 DEF Booked
    <2> QED BY <2>1, <2>2 DEF FollowInv, Booked
  <1>4. UNCHANGED <<db, mirror>> /\ phase' = "up"
    BY DEF Advances, store
  <1>5. \A fee \in gossip' : Token!HasFee(net'.ledger, fee)
    BY DEF FollowInv, KeepsBooks, KeepsFees
  <1>6. Publishing' \/ Agree(net'.ledger, replica')
    <2>1. Publishing /\ call[c] # "publishing" => Publishing'
      BY <1>1 DEF Publishing, Advances, ShapeInv
    <2>2. replica' = net'.ledger => Agree(net'.ledger, replica')
      BY <1>2 DEF Agree
    <2>3. call'[c] = "publishing" => Publishing'
      BY <1>1 DEF Publishing
    <2> QED BY <2>1, <2>2, <2>3
  <1> QED BY <1>2, <1>3, <1>4, <1>5, <1>6 DEF FollowInv, Booked

\* A call that is not publishing neither starts nor ends being so.
LEMMA CallStepFollows ==
    ASSUME ShapeInv, FollowInv, NEW c \in DOMAIN Request,
           SubmitCall(c) \/ SettleTransfer(c) \/ RefuseTransfer(c) \/ ApproveBridge(c)
             \/ UnknownAdapter(c) \/ ChargeBridge(c) \/ RefuseBridge(c) \/ FinishBridge(c)
    PROVE  FollowInv' /\ KeepsBooks(net, net')
  <1>1. c \in Call /\ c \in Saver /\ Advances(c)
    BY CallIsSaver, CallAdvances
  <1>2. NodeShape(net) /\ LedgerShape(net.ledger) /\ (~Publishing => Agree(net.ledger, replica))
    BY DEF FollowInv, NodeShape
  <1>3. ASSUME NEW m, StartSave(c, m) PROVE pending'[c].ledger = m.ledger
    BY <1>1, <1>3, SnapshotLedger DEF StartSave, ShapeInv
  <1>4. ASSUME UNCHANGED pending PROVE pending'[c] = None
    BY <1>1, <1>4 DEF Advances
  <1>5. ASSUME NEW from, NEW to, Step(c, from, to) PROVE call[c] = from /\ call'[c] = to
    BY <1>1, <1>5 DEF Step, ShapeInv
  <1> DEFINE n == ForceAccepted(net, c)
             t == TransferOf(n, c)
  <1>6. KeepsBooks(net, n) /\ NodeShape(n) /\ LedgerShape(n.ledger)
    BY <1>2, ForceBooks DEF KeepsBooks, NodeShape
  <1>7. CASE SubmitCall(c)
    <2>1. PICK ballot \in Ballots :
             net' = SettleValidationReward(Decide(net, <<c, "vote">>, ballot))
      BY <1>7 DEF SubmitCall
    <2> DEFINE m == Decide(net, <<c, "vote">>, ballot)
    <2>2. KeepsBooks(net, m)
      BY <1>2, DecideBooks
    <2>3. net' = SettleValidationReward(m)
      BY <2>1
    <2> HIDE DEF m
    <2>4. KeepsBooks(m, net')
      BY <2>2, <2>3, RewardBooks DEF KeepsBooks
    <2>5. KeepsBooks(net, net')
      BY <2>2, <2>4, BooksTransitive
    <2>6. replica' = net'.ledger /\ StartSave(c, net') /\ gossip' = gossip
      BY <1>7 DEF SubmitCall
    <2>7. pending'[c].ledger = net'.ledger
      BY <1>3, <2>6
    <2> QED BY <1>1, <2>5, <2>6, <2>7, CallFollows
  <1>8. CASE SettleTransfer(c)
    <2> DEFINE L == Token!Transfer(n.ledger, t)
               m == [n EXCEPT !.ledger = L]
               id == <<"token.transfer.settled", t.ref>>
    <2>1. net' = Audited(m, id) /\ replica' = net'.ledger /\ StartSave(c, net')
          /\ gossip' = gossip
      BY <1>8 DEF SettleTransfer
    <2> HIDE DEF t, id
    <2>2. KeepsFees(n.ledger, L)
      BY <1>6, TransferKeeps
    <2> HIDE DEF n, L
    <2>3. KeepsBooks(n, m)
      BY <1>6, <2>2, NewLedger
    <2> HIDE DEF m
    <2>4. KeepsBooks(m, net')
      BY <2>1, <2>3, AuditedBooks DEF KeepsBooks
    <2>5. KeepsBooks(net, net')
      BY <1>6, <2>3, <2>4, BooksTransitive
    <2>6. pending'[c].ledger = net'.ledger
      BY <1>3, <2>1
    <2> QED BY <1>1, <2>1, <2>5, <2>6, CallFollows
  <1>9. CASE RefuseTransfer(c)
    <2> DEFINE owners == Token!TransferOwners(t)
               L == Token!Ensure(n.ledger, owners)
    <2>1. /\ net' = [n EXCEPT !.ledger = L]
          /\ replica' = IF n = net THEN replica ELSE n.ledger
          /\ gossip' = gossip /\ UNCHANGED pending
      BY <1>9 DEF RefuseTransfer
    <2>2. call[c] = "decided"
      BY <1>5, <1>9 DEF RefuseTransfer
    <2> HIDE DEF owners
    <2>3. Agree(n.ledger, L)
      BY <1>6, EnsureAgrees
    <2> HIDE DEF L, n
    <2>4. KeepsFees(n.ledger, L)
      BY <2>3, AgreeKeeps
    <2>5. KeepsBooks(n, net') /\ net'.ledger = L
      BY <1>6, <2>1, <2>4, NewLedger
    <2>6. KeepsBooks(net, net')
      BY <1>6, <2>5, BooksTransitive
    <2>7. ~Publishing => Agree(net'.ledger, replica')
      BY <1>2, <2>1, <2>3, <2>5 DEF Agree
    <2> QED BY <1>1, <1>4, <2>1, <2>2, <2>6, <2>7, CallFollows
  <1>10. CASE ApproveBridge(c)
    <2>1. /\ net' = n /\ replica' = IF net' = net THEN replica ELSE net'.ledger
          /\ gossip' = gossip /\ UNCHANGED pending
      BY <1>10 DEF ApproveBridge
    <2>2. call[c] = "decided"
      BY <1>5, <1>10 DEF ApproveBridge
    <2> HIDE DEF n
    <2> QED BY <1>1, <1>2, <1>4, <1>6, <2>1, <2>2, CallFollows
  <1>11. CASE UnknownAdapter(c)
    <2>1. UNCHANGED <<net, replica, gossip, pending>>
      BY <1>11 DEF UnknownAdapter
    <2>2. call[c] = "executing"
      BY <1>5, <1>11 DEF UnknownAdapter
    <2>3. KeepsBooks(net, net)
      BY <1>2, SameBooks
    <2> QED BY <1>1, <1>2, <1>4, <2>1, <2>2, <2>3, CallFollows
  <1>12. NodeShape(Reported(net, c)) /\ Reported(net, c).ledger = net.ledger
    BY <1>2 DEF Reported, NodeShape, NodeParts
  <1>13. CASE ChargeBridge(c)
    <2> DEFINE fee == Token!FeeEvent(c, "bridge", Request[c].from, BridgePayee(c),
                                     Request[c].amount)
               L == Token!PayFee(net.ledger, c, "bridge", fee.payer, fee.payee, fee.amount)
               m == Reported(net, c)
    <2>1. /\ net' = [m EXCEPT !.artifacts = @ \cup {c},
                              !.ledger = Token!PayFee(@, c, "bridge", fee.payer, fee.payee,
                                                      fee.amount)]
          /\ gossip' = gossip \cup {fee} /\ UNCHANGED pending
      BY <1>13 DEF ChargeBridge
    <2>2. call'[c] = "publishing"
      BY <1>5, <1>13 DEF ChargeBridge
    <2>3. fee = Token!FeeEvent(c, "bridge", fee.payer, fee.payee, fee.amount)
      BY DEF Token!FeeEvent
    <2>4. net' = [m EXCEPT !.artifacts = @ \cup {c}, !.ledger = L]
      BY <1>12, <2>1
    <2> HIDE DEF fee
    <2>5. KeepsFees(net.ledger, L) /\ Token!HasFee(L, fee)
      BY <1>2, <2>3, PayFeeKeeps
    <2> HIDE DEF L, m
    <2>6. NodeParts \subseteq DOMAIN net' /\ net'.ledger = L
      BY <1>12, <2>4 DEF m, NodeShape, NodeParts
    <2>7. KeepsBooks(net, net')
      BY <2>5, <2>6 DEF KeepsBooks, NodeShape, KeepsFees
    <2> QED BY <1>1, <1>4, <2>1, <2>2, <2>5, <2>6, <2>7, CallFollows
  <1>14. CASE RefuseBridge(c)
    <2> DEFINE L == Token!Ensure(net.ledger, {Request[c].from, BridgePayee(c)})
               m == Reported(net, c)
    <2>1. /\ net' = [m EXCEPT !.ledger = L]
          /\ UNCHANGED <<replica, gossip, pending>>
      BY <1>12, <1>14 DEF RefuseBridge
    <2>2. call[c] = "executing"
      BY <1>5, <1>14 DEF RefuseBridge
    <2>3. Agree(net.ledger, L)
      BY <1>2, EnsureAgrees
    <2> HIDE DEF L, m
    <2>4. KeepsFees(m.ledger, L)
      BY <1>12, <2>3, AgreeKeeps DEF m
    <2>5. KeepsBooks(m, net') /\ net'.ledger = L
      BY <1>12, <2>1, <2>4, NewLedger DEF m
    <2>6. KeepsBooks(net, net')
      BY <1>12, <2>5 DEF KeepsBooks, m
    <2>7. ~Publishing => Agree(net'.ledger, replica')
      BY <1>2, <2>1, <2>3, <2>5 DEF Agree
    <2> QED BY <1>1, <1>4, <2>1, <2>2, <2>6, <2>7, CallFollows
  <1>15. CASE FinishBridge(c)
    <2> DEFINE id == <<"token.fee.bridge", c>>
    <2>1. /\ net' = Audited(net, id) /\ replica' = net.ledger /\ StartSave(c, net')
          /\ gossip' = gossip
      BY <1>15 DEF FinishBridge
    <2> HIDE DEF id
    <2>2. KeepsBooks(net, net') /\ net'.ledger = net.ledger
      BY <1>2, <2>1, AuditedBooks
    <2>3. pending'[c].ledger = net'.ledger
      BY <1>3, <2>1
    <2> QED BY <1>1, <2>1, <2>2, <2>3, CallFollows
  <1> QED BY <1>7, <1>8, <1>9, <1>10, <1>11, <1>13, <1>14, <1>15

LEMMA InitFollow == Init => FollowInv
  <1> SUFFICES ASSUME Init PROVE FollowInv
    OBVIOUS
  <1>1. /\ net = Fresh(NoKeys) /\ replica = Token!EmptyLedger /\ gossip = {}
        /\ db = None /\ mirror = None /\ \A s \in Saver : pending[s] = None
    BY DEF Init, Unused
  <1>2. NodeShape(net) /\ net.ledger = Token!EmptyLedger
    BY <1>1, FreshShape
  <1> QED BY <1>1, <1>2, EmptyShape DEF FollowInv, Booked, Agree

\* A fee that arrives is known, or a call is about to copy the ledger.
LEMMA DeliveryFollows ==
    ASSUME FollowInv, NEW fee \in gossip, DeliverFee(fee)
    PROVE  FollowInv'
  <1>1. /\ gossip' = gossip \ {fee} /\ replica' = Token!ImportFee(replica, fee)
        /\ UNCHANGED <<phase, net, call, pending, db, mirror>>
    BY DEF DeliverFee, saving, store
  <1>2. CASE Publishing
    BY <1>1, <1>2 DEF FollowInv, Booked, Publishing
  <1>3. CASE ~Publishing
    <2>1. Token!HasFee(replica, fee)
      BY <1>3 DEF FollowInv, Agree, Token!HasFee
    <2>2. replica' = replica
      BY <1>1, <2>1 DEF Token!ImportFee
    <2> QED BY <1>1, <2>2 DEF FollowInv, Booked, Publishing
  <1> QED BY <1>2, <1>3

LEMMA VanishFollows ==
    ASSUME FollowInv, Vanish, UNCHANGED <<db, mirror>>,
           \A s \in Saver : Booked(pending[s])'
    PROVE  FollowInv'
  <1>1. /\ net' = Fresh(NoKeys) /\ replica' = Token!EmptyLedger /\ gossip' = {}
    BY DEF Vanish, Unused
  <1>2. NodeShape(net') /\ net'.ledger = Token!EmptyLedger
    BY <1>1, FreshShape
  <1> QED BY <1>1, <1>2, EmptyShape DEF FollowInv, Booked, Agree

LEMMA StepFollow == ShapeInv /\ FollowInv /\ [Next]_vars => FollowInv'
  <1> SUFFICES ASSUME ShapeInv, FollowInv, [Next]_vars PROVE FollowInv'
    OBVIOUS
  <1>1. CASE LoadIdentities
    <2>1. PICK keys : net' = Fresh(keys)
      BY <1>1 DEF LoadIdentities
    <2>2. /\ phase = "down" /\ UNCHANGED <<replica, gossip, call, pending, db, mirror>>
      BY <1>1 DEF LoadIdentities, saving, store
    <2>3. NodeShape(net') /\ net'.ledger = Token!EmptyLedger
      BY <2>1, FreshShape
    <2> QED BY <2>2, <2>3, EmptyShape DEF FollowInv, Booked, Agree
  <1>2. CASE SaveIdentity
    BY <1>2 DEF SaveIdentity, FollowInv, Booked, Publishing, memory, saving
  <1>3. CASE RestoreRuntime
    <2> DEFINE m == IF Source = None THEN net ELSE Restore(net, Source)
    <2>1. /\ phase' = "starting" /\ net' = EnsureGenesis(m) /\ replica' = net'.ledger
          /\ gossip = {} /\ gossip' = gossip /\ db' = db /\ mirror' \in {db, mirror}
          /\ StartSave(Boot, net')
      BY <1>3 DEF RestoreRuntime, Cached, FollowInv
    <2>2. Booked(Source)
      BY DEF FollowInv, Source
    <2>3. NodeShape(m)
      BY <2>2, RestoredShape DEF FollowInv, Booked
    <2> HIDE DEF m
    <2>4. NodeShape(net')
      BY <2>1, <2>3, GenesisBooks DEF KeepsBooks
    <2>5. Agree(net'.ledger, replica')
      BY <2>1, <2>4 DEF Agree, NodeShape
    <2>6. \A s \in Saver : Booked(pending[s])'
      <3>1. \A s \in Saver \ {Boot} : pending'[s] = pending[s]
        BY <2>1 DEF StartSave, ShapeInv
      <3>2. pending'[Boot].ledger = net'.ledger
        BY <2>1, SnapshotLedger DEF StartSave, ShapeInv, Saver
      <3> QED BY <2>4, <3>1, <3>2 DEF FollowInv, Booked, NodeShape
    <2> QED BY <2>1, <2>4, <2>5, <2>6 DEF FollowInv, Booked
  <1>4. CASE FinishStart \/ FailStart
    <2>1. /\ EndSave(Boot) /\ phase' = "up" /\ mirror' \in {pending[Boot], mirror}
          /\ UNCHANGED <<net, replica, gossip, call, db>> /\ Boot \in Saver
      BY <1>4 DEF FinishStart, FailStart, Cached, Saver, store
    <2>2. \A s \in Saver : pending'[s] = None \/ pending'[s] = pending[s]
      BY <2>1, EndSaveShape
    <2> QED BY <2>1, <2>2 DEF FollowInv, Booked, Publishing
  <1>5. CASE End
    <2>1. Vanish /\ UNCHANGED <<db, mirror>> /\ \A s \in Saver : pending'[s] = None
      BY <1>5 DEF End, store
    <2> QED BY <2>1, VanishFollows DEF Booked
  <1>6. CASE Reset \/ ClearDatabase \/ ClearMirror \/ FailReset
    <2>1. /\ UNCHANGED <<phase, net, replica, gossip, call, pending>>
          /\ db' \in {db, None} /\ mirror' \in {mirror, None}
      BY <1>6 DEF Reset, ClearDatabase, ClearMirror, FailReset, memory, saving, store
    <2> QED BY <2>1 DEF FollowInv, Booked, Publishing
  <1>7. CASE Stop
    <2>1. Vanish /\ UNCHANGED <<pending, db, mirror>>
      BY <1>7 DEF Stop, saving, store
    <2> QED BY <2>1, VanishFollows DEF FollowInv, Booked
  <1>8. ASSUME NEW s \in Saver, CommitSave(s) PROVE FollowInv'
    <2>1. /\ UNCHANGED <<phase, net, replica, gossip, call, pending, mirror>>
          /\ db' = pending[s]
      BY <1>8 DEF CommitSave, memory
    <2> QED BY <2>1 DEF FollowInv, Booked, Publishing
  <1>9. ASSUME NEW c \in DOMAIN Request, CallStep(c) PROVE FollowInv'
    <2>1. c \in Call /\ c \in Saver
      BY CallIsSaver
    <2>2. CASE MirrorSave(c) \/ FailSave(c)
      <3>1. /\ EndSave(c) /\ pending[c] # None
            /\ UNCHANGED <<phase, net, replica, gossip, db>>
            /\ mirror' \in {pending[c], mirror}
            /\ call' = [call EXCEPT ![c] = call'[c]]
        BY <2>1, <2>2 DEF MirrorSave, FailSave, memory, store, Cached, ShapeInv
      <3>2. \A s \in Saver : pending'[s] = None \/ pending'[s] = pending[s]
        BY <2>1, <3>1, EndSaveShape
      <3>3. Publishing => Publishing'
        BY <2>1, <3>1 DEF Publishing, ShapeInv, Saves
      <3> QED BY <2>1, <3>1, <3>2, <3>3 DEF FollowInv, Booked
    <2>3. CASE ~(MirrorSave(c) \/ FailSave(c))
      BY <1>9, <2>3, CallStepFollows DEF CallStep
    <2> QED BY <2>2, <2>3
  <1>10. ASSUME NEW fee \in gossip, DeliverFee(fee) PROVE FollowInv'
    BY <1>10, DeliveryFollows
  <1>11. CASE UNCHANGED vars
    BY <1>11 DEF FollowInv, Booked, Publishing, vars, memory, saving, store
  <1> QED BY <1>1, <1>2, <1>3, <1>4, <1>5, <1>6, <1>7, <1>8, <1>9, <1>10, <1>11 DEF Next

LEMMA Follow == Spec => []FollowInv
  BY Shape, InitFollow, StepFollow, PTL DEF Spec

\* Whatever gossip delivers and whatever calls, ends and restores interleave with it,
\* the nodes that do not coordinate have the coordinator's balances, nonces and
\* journal, unless a call is still to copy them (executeBridge, handleBridgeEnvelope,
\* syncTokenStateFromCoordinator).
THEOREM FollowersAgreeAlways == Spec => []FollowersAgree
  <1>1. FollowInv => FollowersAgree
    BY DEF FollowInv, FollowersAgree, Publishing, Agree
  <1> QED BY <1>1, Follow, PTL

-----------------------------------------------------------------------------
(* The books: the blocks, the journals and what they say of each other. *)

LedgerOK(L) ==
    /\ LedgerParts \subseteq DOMAIN L
    /\ L.balance \in [Token!Account -> Nat]
    /\ L.nonce \in [Token!Account -> Nat]
    /\ L.minted \in 0 .. MaxSupply
    /\ IsSequence(L.events)
    /\ L.events = <<>> => L.minted = 0

Score == 0 .. MaxReputation

\* What the records of a node say about its blocks: one block after the other, each
\* with its outcome, and the reputations are those of the last outcome.
BlocksOK(x) ==
    /\ IsSequence(x.chain) /\ IsSequence(x.history)
    /\ Len(x.history) = Len(x.chain)
    /\ \A i \in DOMAIN x.chain :
          /\ x.chain[i].height = i
          /\ x.chain[i].previousHash =
                IF i = 1 THEN Genesis ELSE BlockHash(x.chain[i - 1])
          /\ x.chain[i].proposal \in Proposal
          /\ x.chain[i].status \in {"accepted", "rejected"}
          /\ x.history[i].proposal = x.chain[i].proposal
          /\ DOMAIN x.history[i].events = Agent
          /\ \A a \in Agent : x.history[i].events[a].after \in Score
    /\ \A i, j \in DOMAIN x.chain :
          x.chain[i].proposal = x.chain[j].proposal => i = j
    /\ x.proposals \subseteq Proposal
    /\ x.score = [a \in Agent |->
                    IF Len(x.chain) = 0 THEN InitialReputation
                    ELSE x.history[Len(x.chain)].events[a].after]

Holds(chain, p) == \E i \in DOMAIN chain : chain[i].proposal = p

CoreParts == {"proposals", "votes", "results", "score", "history", "chain"}

CoreOK(k) ==
    /\ CoreParts \subseteq DOMAIN k
    /\ BlocksOK(k)
    /\ k.results \in [Proposal -> {"accepted", "rejected", "none"}]
    /\ DOMAIN k.votes = Proposal
    /\ \A p \in Proposal : k.results[p] # "none" => Holds(k.chain, p)
    /\ \A i \in DOMAIN k.chain : k.results[k.chain[i].proposal] = k.chain[i].status

Early == {"idle", "deciding", "decided"}
Spent == {"settling", "ok", "failed", "lost"}

Of(L, kind) == {i \in DOMAIN L.events : L.events[i].kind = kind}

Paid(L, chain) ==
    /\ \A i \in Of(L, "reward") :
          \E j \in DOMAIN chain : /\ L.events[i].ref = BlockId(chain[j])
                                  /\ Token!RewardForBlock(j) > 0
    /\ \A i, j \in Of(L, "reward") : L.events[i].ref = L.events[j].ref => i = j
    /\ L.minted < MaxSupply =>
          \A j \in DOMAIN chain :
             Token!RewardForBlock(j) > 0 => Token!Rewarded(L, BlockId(chain[j]))

Carried(L, chain) ==
    /\ \A i \in Of(L, "transfer") :
          /\ \E j \in DOMAIN chain : /\ L.events[i].ref = BlockId(chain[j])
                                     /\ chain[j].status = "accepted"
          /\ L.events[i].from \in Agent
          /\ L.events[i].nonce \in 0 .. L.nonce[L.events[i].from] - 1
    /\ \A i, j \in Of(L, "transfer") :
          \/ L.events[i].ref = L.events[j].ref
          \/ L.events[i].from = L.events[j].from /\ L.events[i].nonce = L.events[j].nonce
          => i = j

Known(L, chain, calls) ==
    /\ \A j \in DOMAIN chain :
          LET p == chain[j].proposal
          IN  /\ calls[p[1]] # "idle"
              /\ p[2] = "approved" => calls[p[1]] \notin Early
    /\ \A i \in Of(L, "transfer") : calls[L.events[i].ref[1][1]] \in Spent

BooksOK(x, L, calls) ==
    /\ BlocksOK(x) /\ LedgerOK(L)
    /\ Paid(L, x.chain) /\ Carried(L, x.chain) /\ Known(L, x.chain, calls)

\* ensureGenesisTokenState has been here.
Started(L) ==
    \/ Token!Seeded(L)
    \/ GenesisTreasury > MaxSupply /\ Treasury \in L.accounts

NodeOK(n, calls) ==
    /\ CoreOK(n.core) /\ BooksOK(n.core, n.ledger, calls)
    /\ n.registry \subseteq Call /\ n.artifacts \subseteq Call

SnapOK(s, calls) ==
    s # None =>
      /\ {"proposals", "chain", "history", "score", "ledger", "runs"} \subseteq DOMAIN s
      /\ BooksOK(s, s.ledger, calls) /\ Started(s.ledger)
      /\ s.runs \subseteq Call

CallState == {"idle", "deciding", "decided", "executing", "publishing",
                          "settling", "ok", "failed", "lost"}

FeeOK(fee) ==
    fee.payer \in Token!Account /\ fee.payee \in Token!Account /\ fee.amount \in Nat

Bridging == \A c \in DOMAIN Request : call[c] = "executing" => Request[c].kind = "bridge"

CoreInv ==
    /\ NodeOK(net, call)
    /\ phase \in {"starting", "up"} => Started(net.ledger)
    /\ SnapOK(db, call) /\ SnapOK(mirror, call)
    /\ \A s \in Saver : SnapOK(pending[s], call)
    /\ LedgerOK(replica)
    /\ \A fee \in gossip : FeeOK(fee)
    /\ call \in [Call -> CallState]
    /\ Bridging

(* Arithmetic of the policy *)

\* A rounded quotient of naturals is a natural.
LEMMA RoundedIsNat ==
    ASSUME NEW n \in Nat, NEW d \in Nat \ {0}
    PROVE  Token!Rounded(n, d) \in Nat
  <1>1. 2 * n + d \in Nat /\ 2 * d \in Nat \ {0}
    OBVIOUS
  <1>2. \A a \in Nat, b \in Nat \ {0} : a \div b \in Nat
    OBVIOUS
  <1> QED BY <1>1, <1>2 DEF Token!Rounded

LEMMA EpochIsNat ==
    ASSUME NEW h \in Nat \ {0}
    PROVE  Token!Epoch(h) \in Nat
  <1>1. h - 1 \in Nat
    OBVIOUS
  <1>2. \A a \in Nat, b \in Nat \ {0} : a \div b \in Nat
    OBVIOUS
  <1> QED BY <1>1, <1>2, TokenPolicy DEF Token!Epoch

\* estimateTransferFee is never negative.
LEMMA TransferFeeIsNat ==
    ASSUME NEW amount \in Nat, NEW h \in Nat \ {0}
    PROVE  Token!TransferFee(amount, h, 0) \in Nat
  <1>1. \A a, b \in Nat : a * b \in Nat
    OBVIOUS
  <1>2. amount * FeeRate \in Nat /\ 0 * MemoByteFee \in Nat
    BY <1>1, TokenPolicy
  <1>3. Token!Rounded(amount * FeeRate, FeeRateBase) \in Nat
    BY <1>2, RoundedIsNat, TokenPolicy
  <1>4. Token!Epoch(h) * EpochFeeStep \in Nat
    BY <1>1, EpochIsNat, TokenPolicy
  <1> QED BY <1>2, <1>3, <1>4, TokenPolicy DEF Token!TransferFee

\* The grants that fit do fit.
LEMMA GrantsInRoom ==
    ASSUME NEW room \in Nat, NEW n \in Nat
    PROVE  /\ Token!GrantsThatFit(room, n) \in 0 .. n
           /\ Token!GrantsThatFit(room, n) * GenesisGrant \in 0 .. room
  <1> DEFINE g == GenesisGrant
             fit == Token!GrantsThatFit(room, n)
  <1>0. g \in Nat
    BY TokenPolicy
  <1>1. CASE n * g <= room
    <2>1. fit = n
      BY <1>1 DEF Token!GrantsThatFit
    <2>2. n * g \in Nat
      BY <1>0
    <2> QED BY <1>1, <2>1, <2>2
  <1>2. CASE ~(n * g <= room)
    <2>1. g \in Nat \ {0} /\ n * g > room
      BY <1>0, <1>2
    <2>2. fit = room \div g
      BY <1>2 DEF Token!GrantsThatFit
    <2>3. \A a, m \in Nat, b \in Nat \ {0} :
             m * b > a => (a \div b) \in 0 .. m /\ (a \div b) * b <= a
      OBVIOUS
    <2>4. (room \div g) \in 0 .. n /\ (room \div g) * g <= room
      BY <2>1, <2>3
    <2>5. \A a, b \in Nat : a * b \in Nat
      OBVIOUS
    <2>6. (room \div g) * g \in Nat
      BY <2>1, <2>4, <2>5
    <2> HIDE DEF g, fit
    <2>7. fit \in 0 .. n /\ fit * g \in 0 .. room
      BY <2>2, <2>4, <2>6
    <2> QED BY <2>7 DEF g, fit
  <1> QED BY <1>1, <1>2

-----------------------------------------------------------------------------
(* Journals *)

\* Journal s is the beginning of journal u.
Begins(s, u) ==
    /\ Len(s) \in Nat /\ Len(u) \in Nat /\ Len(s) <= Len(u)
    /\ DOMAIN s = 1 .. Len(s) /\ DOMAIN u = 1 .. Len(u)
    /\ \A i \in 1 .. Len(s) : u[i] = s[i]

LEMMA SequenceDomain ==
    ASSUME NEW s, IsSequence(s)
    PROVE  Len(s) \in Nat /\ DOMAIN s = 1 .. Len(s)
  BY DEF IsSequence

LEMMA AnySequence ==
    ASSUME NEW T, NEW u \in Seq(T)
    PROVE  IsSequence(u)
  <1>1. u = [i \in 1 .. Len(u) |-> u[i]] /\ Len(u) \in Nat /\ DOMAIN u = 1 .. Len(u)
    OBVIOUS
  <1> DEFINE V == {u[i] : i \in DOMAIN u}
  <1>2. \A i \in 1 .. Len(u) : u[i] \in V
    BY <1>1
  <1> HIDE DEF V
  <1>3. u \in Seq(V)
    BY <1>1, <1>2
  <1> QED BY <1>3 DEF IsSequence, V

LEMMA BeginsItself ==
    ASSUME NEW s, IsSequence(s) PROVE Begins(s, s)
  BY SequenceDomain DEF Begins

Joins(s, t, u) == u = s \o t

\* u is s, and then t.
Joined(s, t, u) ==
    /\ IsSequence(u) /\ Begins(s, u) /\ Len(u) = Len(s) + Len(t)
    /\ \A i \in 1 .. Len(t) : u[Len(s) + i] = t[i]

LEMMA JoinedSequences ==
    ASSUME NEW s, IsSequence(s), NEW t, IsSequence(t), NEW u, Joins(s, t, u)
    PROVE  Joined(s, t, u)
  <1> DEFINE T == {s[i] : i \in DOMAIN s} \cup {t[i] : i \in DOMAIN t}
  <1>1. s \in Seq(T) /\ t \in Seq(T)
    BY DEF IsSequence
  <1> HIDE DEF T
  <1>2. /\ u \in Seq(T) /\ Len(u) = Len(s) + Len(t)
        /\ \A i \in 1 .. Len(s) : u[i] = s[i]
        /\ \A i \in 1 .. Len(t) : u[Len(s) + i] = t[i]
    BY <1>1 DEF Joins
  <1>3. IsSequence(u)
    BY <1>2, AnySequence
  <1>4. Len(s) \in Nat /\ Len(t) \in Nat /\ DOMAIN s = 1 .. Len(s)
    BY <1>1
  <1>5. Len(u) \in Nat /\ DOMAIN u = 1 .. Len(u)
    BY <1>2
  <1>6. Begins(s, u)
    BY <1>2, <1>4, <1>5 DEF Begins
  <1> QED BY <1>2, <1>3, <1>6 DEF Joined

LEMMA LongerSequence ==
    ASSUME NEW s, IsSequence(s), NEW e, NEW u, u = Append(s, e)
    PROVE  /\ IsSequence(u) /\ Begins(s, u) /\ Len(u) = Len(s) + 1
           /\ u[Len(s) + 1] = e
  <1>1. IsSequence(u)
    BY SequenceAppend
  <1> DEFINE T == {s[i] : i \in DOMAIN s} \cup {e}
  <1>2. s \in Seq(T) /\ e \in T
    BY DEF IsSequence
  <1> HIDE DEF T
  <1>3. /\ u \in Seq(T) /\ Len(u) = Len(s) + 1 /\ u[Len(s) + 1] = e
        /\ \A i \in 1 .. Len(s) : u[i] = s[i]
        /\ Len(s) \in Nat /\ DOMAIN s = 1 .. Len(s)
    BY <1>2
  <1>4. Len(u) \in Nat /\ DOMAIN u = 1 .. Len(u)
    BY <1>3
  <1> QED BY <1>1, <1>3, <1>4 DEF Begins

-----------------------------------------------------------------------------
(* What the operations do to a ledger *)

\* The journal of M goes on where that of L ends, and nothing is taken back.
Grows(L, M) ==
    /\ LedgerOK(M)
    /\ Begins(L.events, M.events)
    /\ \A a \in Token!Account : M.nonce[a] >= L.nonce[a]
    /\ M.minted >= L.minted
    /\ Started(L) => Started(M)

\* No reward and no transfer is added.
Silent(L, M) ==
    /\ Grows(L, M)
    /\ \A i \in DOMAIN M.events :
          i \notin DOMAIN L.events => M.events[i].kind \notin {"reward", "transfer"}

LEMMA AccountFacts ==
    /\ Agent \subseteq Token!Account /\ Treasury \in Token!Account
    /\ Coordinator \in Agent
  <1>1. AgentOrder \in Seq(Agent) /\ AgentOrder # <<>> /\ Coordinator = AgentOrder[1]
    BY NetworkAssumption
  <1>2. Len(AgentOrder) \in Nat \ {0}
    BY <1>1
  <1> QED BY <1>1, <1>2 DEF Token!Account

LEMMA LedgerFacts ==
    ASSUME NEW L, LedgerOK(L)
    PROVE  /\ \A a \in Token!Account : L.balance[a] \in Nat /\ L.nonce[a] \in Nat
           /\ L.minted \in Nat /\ L.minted <= MaxSupply /\ MaxSupply \in Nat
           /\ Len(L.events) \in Nat /\ DOMAIN L.events = 1 .. Len(L.events)
  BY TokenPolicy, SequenceDomain DEF LedgerOK

LEMMA SilentSelf ==
    ASSUME NEW L, LedgerOK(L) PROVE Silent(L, L)
  BY LedgerFacts, BeginsItself DEF Silent, Grows, LedgerOK

LEMMA SilentTransitive ==
    ASSUME NEW L, LedgerOK(L), NEW M, NEW N, Silent(L, M), Silent(M, N)
    PROVE  Silent(L, N)
  <1>1. LedgerOK(M) /\ LedgerOK(N)
    BY DEF Silent, Grows
  <1>2. Begins(L.events, M.events) /\ Begins(M.events, N.events)
    BY DEF Silent, Grows
  <1>3. Begins(L.events, N.events)
    BY <1>2 DEF Begins
  <1>4. \A a \in Token!Account : N.nonce[a] >= L.nonce[a]
    <2> SUFFICES ASSUME NEW a \in Token!Account PROVE N.nonce[a] >= L.nonce[a]
      OBVIOUS
    <2>1. L.nonce[a] \in Nat /\ M.nonce[a] \in Nat /\ N.nonce[a] \in Nat
      BY <1>1, LedgerFacts
    <2>2. M.nonce[a] >= L.nonce[a] /\ N.nonce[a] >= M.nonce[a]
      BY DEF Silent, Grows
    <2> QED BY <2>1, <2>2
  <1>5. N.minted >= L.minted
    <2>1. L.minted \in Nat /\ M.minted \in Nat /\ N.minted \in Nat
      BY <1>1, LedgerFacts
    <2>2. M.minted >= L.minted /\ N.minted >= M.minted
      BY DEF Silent, Grows
    <2> QED BY <2>1, <2>2
  <1>6. ASSUME NEW i \in DOMAIN N.events, i \notin DOMAIN L.events
        PROVE  N.events[i].kind \notin {"reward", "transfer"}
    <2>1. CASE i \in DOMAIN M.events
      BY <1>2, <1>6, <2>1 DEF Silent, Begins
    <2>2. CASE i \notin DOMAIN M.events
      BY <1>6, <2>2 DEF Silent
    <2> QED BY <2>1, <2>2
  <1> QED BY <1>1, <1>3, <1>4, <1>5, <1>6 DEF Silent, Grows

\* ensureAccount
LEMMA EnsureLedger ==
    ASSUME NEW L, LedgerOK(L), NEW owners, NEW M, M = Token!Ensure(L, owners)
    PROVE  Silent(L, M) /\ M.events = L.events
  <1>1. /\ LedgerParts \subseteq DOMAIN M /\ M.balance = L.balance /\ M.nonce = L.nonce
        /\ M.minted = L.minted /\ M.events = L.events
        /\ L.accounts \subseteq M.accounts
    BY DEF LedgerOK, LedgerParts, Token!Ensure
  <1>2. LedgerOK(M)
    BY <1>1 DEF LedgerOK
  <1>3. Begins(L.events, M.events) /\ (Started(L) => Started(M))
    BY <1>1, BeginsItself DEF LedgerOK, Started, Token!Seeded
  <1> QED BY <1>1, <1>2, <1>3, LedgerFacts DEF Silent, Grows

\* creditAccount, within what is left of the supply.
LEMMA MintLedger ==
    ASSUME NEW L, LedgerOK(L), NEW kind, NEW ref, NEW height, NEW to \in Token!Account,
           NEW amount \in Nat, L.minted + amount <= MaxSupply,
           NEW M, M = Token!Mint(L, kind, ref, height, to, amount)
    PROVE  /\ Grows(L, M) /\ M.nonce = L.nonce /\ M.minted = L.minted + amount
           /\ Len(M.events) = Len(L.events) + 1
           /\ M.events[Len(L.events) + 1] = Token!MintEvent(kind, ref, height, to, amount)
  <1> DEFINE e == Token!MintEvent(kind, ref, height, to, amount)
  <1>1. /\ LedgerParts \subseteq DOMAIN M /\ M.nonce = L.nonce
        /\ M.balance = [L.balance EXCEPT ![to] = @ + amount]
        /\ M.minted = L.minted + amount /\ M.events = Append(L.events, e)
    BY DEF LedgerOK, LedgerParts, Token!Mint, Token!Ensure
  <1> HIDE DEF e
  <1>2. /\ IsSequence(M.events) /\ Begins(L.events, M.events)
        /\ Len(M.events) = Len(L.events) + 1 /\ M.events[Len(L.events) + 1] = e
    <2>1. IsSequence(L.events) /\ M.events = Append(L.events, e)
      BY <1>1 DEF LedgerOK
    <2> QED BY <2>1, LongerSequence
  <1>3. M.events # <<>>
    BY <1>2, LedgerFacts
  <1>4. M.balance \in [Token!Account -> Nat]
    BY <1>1 DEF LedgerOK
  <1>5. M.minted \in 0 .. MaxSupply /\ M.minted >= L.minted
    BY <1>1, LedgerFacts
  <1>6. LedgerOK(M)
    BY <1>1, <1>2, <1>3, <1>4, <1>5 DEF LedgerOK
  <1>7. \A a \in Token!Account : M.nonce[a] >= L.nonce[a]
    BY <1>1, LedgerFacts
  <1>8. Started(M)
    BY <1>3 DEF Started, Token!Seeded
  <1> QED BY <1>1, <1>2, <1>5, <1>6, <1>7, <1>8 DEF Grows, e

\* A fee, recorded here or imported.
LEMMA PayFeeLedger ==
    ASSUME NEW L, LedgerOK(L), NEW ref, NEW kind, NEW payer \in Token!Account,
           NEW payee \in Token!Account, NEW amount \in Nat,
           Token!FeeAllowed(L, payer, amount),
           NEW M, M = Token!PayFee(L, ref, kind, payer, payee, amount)
    PROVE  Silent(L, M)
  <1> DEFINE e == Token!DebitEvent("fee_settlement", ref, Token!NoHeight, payer, payee,
                                   amount, L.nonce[payer])
  <1>1. /\ LedgerParts \subseteq DOMAIN M
        /\ M.nonce = [L.nonce EXCEPT ![payer] = @ + 1]
        /\ M.balance = [L.balance EXCEPT ![payer] = L.balance[payer] - amount,
                                         ![payee] = L.balance[payee] + amount]
        /\ M.minted = L.minted /\ M.events = Append(L.events, e)
    BY DEF LedgerOK, LedgerParts, Token!PayFee, Token!Ensure
  <1>2. e.kind = "fee_settlement"
    BY DEF Token!DebitEvent
  <1> HIDE DEF e
  <1>3. /\ IsSequence(M.events) /\ Begins(L.events, M.events)
        /\ Len(M.events) = Len(L.events) + 1 /\ M.events[Len(L.events) + 1] = e
    <2>1. IsSequence(L.events) /\ M.events = Append(L.events, e)
      BY <1>1 DEF LedgerOK
    <2> QED BY <2>1, LongerSequence
  <1>4. M.events # <<>>
    BY <1>3, LedgerFacts
  <1>5. M.balance \in [Token!Account -> Nat]
    <2>1. L.balance[payer] - amount \in Nat /\ L.balance[payee] + amount \in Nat
      BY LedgerFacts DEF Token!FeeAllowed
    <2> QED BY <1>1, <2>1 DEF LedgerOK
  <1>6. M.nonce \in [Token!Account -> Nat]
        /\ \A a \in Token!Account : M.nonce[a] >= L.nonce[a]
    BY <1>1 DEF LedgerOK
  <1>7. M.minted >= L.minted /\ M.minted \in 0 .. MaxSupply
    BY <1>1, LedgerFacts
  <1>8. LedgerOK(M)
    BY <1>1, <1>3, <1>4, <1>5, <1>6, <1>7 DEF LedgerOK
  <1>9. Started(M)
    BY <1>4 DEF Started, Token!Seeded
  <1>10. \A i \in DOMAIN M.events : i \notin DOMAIN L.events => M.events[i] = e
    BY <1>3, LedgerFacts DEF Begins
  <1> QED BY <1>2, <1>3, <1>6, <1>7, <1>8, <1>9, <1>10 DEF Silent, Grows

\* A transfer that passes the checks, whichever of the accounts coincide.
LEMMA TransferLedger ==
    ASSUME NEW L, LedgerOK(L), NEW t, t.from \in Agent, t.to \in Agent,
           t.validator \in Agent, t.amount \in Nat, t.height \in Nat \ {0}, t.memoBytes = 0,
           Token!TransferAllowed(L, t), NEW M, M = Token!Transfer(L, t)
    PROVE  /\ Grows(L, M)
           /\ M.nonce[t.from] = L.nonce[t.from] + 1
           /\ Len(M.events) = Len(L.events) + 2
           /\ LET e == M.events[Len(L.events) + 1]
              IN  e.kind = "transfer" /\ e.ref = t.ref /\ e.from = t.from
                  /\ e.nonce = L.nonce[t.from]
           /\ M.events[Len(L.events) + 2].kind = "fee_settlement"
  <1> DEFINE validator == Token!FeeCollector(t.from, t.validator)
             fee == Token!TransferFee(t.amount, t.height, t.memoBytes)
             spend == Token!DebitEvent("transfer", t.ref, t.height, t.from, t.to, t.amount,
                                       t.nonce)
             charge == Token!DebitEvent("fee_settlement", t.ref, t.height, t.from, validator,
                                        fee, t.nonce)
             paid == [L.balance EXCEPT ![t.from] = L.balance[t.from] - Token!TransferTotal(t),
                                       ![t.to] = L.balance[t.to] + t.amount]
             base == IF validator = t.to THEN paid[t.to] ELSE L.balance[validator]
             new == <<spend, charge>>
  <1>1. fee \in Nat
    BY TransferFeeIsNat
  <1>2. validator \in Token!Account /\ t.from \in Token!Account /\ t.to \in Token!Account
    BY AccountFacts DEF Token!FeeCollector
  <1>3. L.balance \in [Token!Account -> Nat] /\ L.nonce \in [Token!Account -> Nat]
    BY DEF LedgerOK
  <1>4. L.balance[t.from] - Token!TransferTotal(t) \in Nat
    <2>1. Token!TransferTotal(t) = t.amount + fee
      BY DEF Token!TransferTotal
    <2>2. L.balance[t.from] >= Token!TransferTotal(t) /\ L.balance[t.from] \in Nat
      BY <1>2, <1>3 DEF Token!TransferAllowed
    <2> HIDE DEF fee
    <2> QED BY <1>1, <2>1, <2>2
  <1>5. t.nonce = L.nonce[t.from]
    BY DEF Token!TransferAllowed
  <1>6. /\ spend.kind = "transfer" /\ spend.ref = t.ref /\ spend.from = t.from
        /\ spend.nonce = t.nonce /\ charge.kind = "fee_settlement"
    BY DEF Token!DebitEvent
  <1>7. Token!TransferBalances(L, t) = [paid EXCEPT ![validator] = base + fee]
    BY DEF Token!TransferBalances
  <1>8. /\ LedgerParts \subseteq DOMAIN M /\ M.minted = L.minted
        /\ M.balance = Token!TransferBalances(L, t)
        /\ M.nonce = [L.nonce EXCEPT ![t.from] = @ + 1]
        /\ M.events = L.events \o new
    BY DEF LedgerOK, LedgerParts, Token!Transfer, Token!Ensure
  <1> HIDE DEF validator, fee
  <1>9. paid \in [Token!Account -> Nat] /\ base \in Nat
    <2>1. paid \in [Token!Account -> Nat]
      BY <1>2, <1>3, <1>4
    <2> HIDE DEF paid
    <2> QED BY <1>2, <1>3, <2>1
  <1> HIDE DEF paid, base, spend, charge
  <1>10. M.balance \in [Token!Account -> Nat]
    BY <1>1, <1>2, <1>7, <1>8, <1>9
  <1>11. IsSequence(new) /\ Len(new) = 2 /\ new[1] = spend /\ new[2] = charge
    <2>1. new \in Seq({spend, charge})
      OBVIOUS
    <2>2. IsSequence(new)
      BY <2>1, AnySequence
    <2> QED BY <2>2
  <1> HIDE DEF new
  <1>12. /\ IsSequence(M.events) /\ Begins(L.events, M.events)
         /\ Len(M.events) = Len(L.events) + Len(new)
         /\ \A i \in 1 .. Len(new) : M.events[Len(L.events) + i] = new[i]
    <2>1. IsSequence(L.events) /\ Joins(L.events, new, M.events)
      BY <1>8 DEF LedgerOK, Joins
    <2>2. Joined(L.events, new, M.events)
      BY <1>11, <2>1, JoinedSequences
    <2> QED BY <2>2 DEF Joined
  <1>13. /\ Len(M.events) = Len(L.events) + 2
         /\ M.events[Len(L.events) + 1] = spend /\ M.events[Len(L.events) + 2] = charge
    BY <1>11, <1>12
  <1>14. M.events # <<>>
    BY <1>13, LedgerFacts
  <1>15. M.nonce \in [Token!Account -> Nat] /\ M.nonce[t.from] = L.nonce[t.from] + 1
         /\ \A a \in Token!Account : M.nonce[a] >= L.nonce[a]
    <2> DEFINE nonce == L.nonce
               from == t.from
    <2>1. nonce \in [Token!Account -> Nat] /\ from \in Token!Account
          /\ M.nonce = [nonce EXCEPT ![from] = nonce[from] + 1]
      BY <1>2, <1>3, <1>8
    <2> HIDE DEF nonce, from
    <2>2. M.nonce \in [Token!Account -> Nat] /\ M.nonce[from] = nonce[from] + 1
          /\ \A a \in Token!Account : M.nonce[a] >= nonce[a]
      BY <2>1
    <2> QED BY <2>2 DEF nonce, from
  <1>16. M.minted >= L.minted /\ M.minted \in 0 .. MaxSupply
    BY <1>8, LedgerFacts
  <1>17. LedgerOK(M)
    BY <1>8, <1>10, <1>12, <1>14, <1>15, <1>16 DEF LedgerOK
  <1>18. Started(M)
    BY <1>14 DEF Started, Token!Seeded
  <1>19. Grows(L, M)
    BY <1>12, <1>15, <1>16, <1>17, <1>18 DEF Grows
  <1> QED BY <1>5, <1>6, <1>13, <1>15, <1>19

\* seedGenesis on a ledger without events: refused, cut short or complete.
LEMMA SeedLedger ==
    ASSUME NEW L, LedgerOK(L), ~Token!Seeded(L),
           NEW M, M = Token!SeedGenesis(L, AgentOrder)
    PROVE  Silent(L, M) /\ Started(M)
  <1>1. L.events = <<>> /\ L.minted = 0 /\ Token!Remaining(L) = MaxSupply
        /\ MaxSupply \in Nat /\ GenesisTreasury \in Nat /\ GenesisGrant \in Nat
    BY TokenPolicy DEF LedgerOK, Token!Seeded, Token!Remaining
  <1>2. CASE GenesisTreasury > MaxSupply
    <2>1. M = Token!Ensure(L, {Treasury})
      BY <1>1, <1>2 DEF Token!SeedGenesis
    <2>2. Treasury \in M.accounts
      BY <2>1 DEF Token!Ensure, LedgerOK, LedgerParts
    <2> QED BY <1>2, <2>1, <2>2, EnsureLedger DEF Started
  <1>3. CASE ~(GenesisTreasury > MaxSupply)
    <2> DEFINE room == MaxSupply - GenesisTreasury
               fit == Token!GrantsThatFit(room, Len(AgentOrder))
               grants == [i \in 1 .. fit |->
                            Token!MintEvent("genesis", AgentOrder[i], Token!NoHeight,
                                            AgentOrder[i], GenesisGrant)]
               first == Token!MintEvent("genesis", Treasury, Token!NoHeight, Treasury,
                                        GenesisTreasury)
               new == <<first>> \o grants
    <2>1. room \in Nat /\ Len(AgentOrder) \in Nat
      BY <1>1, <1>3, NetworkAssumption
    <2>2. room + GenesisTreasury = MaxSupply
      BY <1>1
    <2> HIDE DEF room
    <2>3. fit \in 0 .. Len(AgentOrder) /\ fit * GenesisGrant \in 0 .. room
      BY <2>1, GrantsInRoom
    <2>4. fit \in Nat
      BY <2>1, <2>3
    <2>5. /\ LedgerParts \subseteq DOMAIN M /\ M.nonce = L.nonce
          /\ M.minted = L.minted + GenesisTreasury + fit * GenesisGrant
          /\ M.balance = Token!GenesisBalance(L.balance, {AgentOrder[i] : i \in 1 .. fit})
          /\ M.events = L.events \o new
      <3>1. M = [Token!Ensure(L, Token!GenesisOwners(AgentOrder, fit)) EXCEPT
                   !.minted = @ + GenesisTreasury + fit * GenesisGrant,
                   !.balance = Token!GenesisBalance(@, {AgentOrder[i] : i \in 1 .. fit}),
                   !.events = @ \o Token!GenesisEvents(AgentOrder, fit)]
        BY <1>1, <1>3 DEF Token!SeedGenesis, room
      <3>2. Token!GenesisEvents(AgentOrder, fit) = new
        BY DEF Token!GenesisEvents
      <3> HIDE DEF fit, new
      <3> QED BY <3>1, <3>2 DEF LedgerOK, LedgerParts, Token!Ensure
    <2> HIDE DEF fit
    <2>6. M.minted \in 0 .. MaxSupply
      <3>1. L.minted + GenesisTreasury + fit * GenesisGrant \in 0 .. MaxSupply
        BY <1>1, <2>1, <2>2, <2>3
      <3> QED BY <2>5, <3>1
    <2>7. M.balance \in [Token!Account -> Nat]
      <3>1. \A a \in Token!Account : L.balance[a] \in Nat
        BY LedgerFacts
      <3> QED BY <1>1, <2>5, <3>1 DEF Token!GenesisBalance
    <2>8. IsSequence(grants) /\ Len(grants) = fit
          /\ \A i \in 1 .. fit : grants[i].kind = "genesis"
      <3>1. grants \in Seq({grants[i] : i \in 1 .. fit}) /\ Len(grants) = fit
        BY <2>4
      <3>2. \A i \in 1 .. fit : grants[i].kind = "genesis"
        BY DEF Token!MintEvent
      <3> HIDE DEF grants
      <3> QED BY <3>1, <3>2, AnySequence
    <2>9. first.kind = "genesis"
      BY DEF Token!MintEvent
    <2> HIDE DEF grants, first
    <2>10. IsSequence(<<first>>) /\ Len(<<first>>) = 1 /\ <<first>>[1] = first
      <3>1. <<first>> \in Seq({first})
        OBVIOUS
      <3>2. IsSequence(<<first>>)
        BY <3>1, AnySequence
      <3> QED BY <3>2
    <2> DEFINE head == <<first>>
    <2> HIDE DEF head
    <2>11. IsSequence(head) /\ Len(head) = 1 /\ head[1] = first /\ Joins(head, grants, new)
      BY <2>10 DEF head, Joins
    <2> HIDE DEF new
    <2>12. /\ IsSequence(new) /\ Begins(head, new) /\ Len(new) = 1 + fit
           /\ \A i \in 1 .. fit : new[1 + i] = grants[i]
      <3>1. Joined(head, grants, new)
        BY <2>8, <2>11, JoinedSequences
      <3> QED BY <2>8, <2>11, <3>1 DEF Joined
    <2>13. \A i \in 1 .. Len(new) : new[i].kind = "genesis"
      <3> SUFFICES ASSUME NEW i \in 1 .. Len(new) PROVE new[i].kind = "genesis"
        OBVIOUS
      <3>1. CASE i = 1
        BY <2>9, <2>11, <2>12, <3>1 DEF Begins
      <3>2. CASE i # 1
        <4>1. i - 1 \in 1 .. fit /\ i = 1 + (i - 1)
          BY <2>4, <2>12, <3>2
        <4>2. new[1 + (i - 1)] = grants[i - 1]
          BY <2>12, <4>1
        <4> QED BY <2>8, <4>1, <4>2
      <3> QED BY <3>1, <3>2
    <2>14. /\ IsSequence(M.events) /\ Begins(L.events, M.events)
           /\ Len(M.events) = Len(L.events) + Len(new)
           /\ \A i \in 1 .. Len(new) : M.events[Len(L.events) + i] = new[i]
      <3>1. IsSequence(L.events) /\ Joins(L.events, new, M.events)
        BY <2>5 DEF LedgerOK, Joins
      <3>2. Joined(L.events, new, M.events)
        BY <2>12, <3>1, JoinedSequences
      <3> QED BY <3>2 DEF Joined
    <2>15. Len(L.events) = 0
      BY <1>1
    <2>16. \A i \in DOMAIN M.events : M.events[i].kind = "genesis"
      BY <2>4, <2>12, <2>13, <2>14, <2>15 DEF Begins
    <2>17. M.events # <<>>
      BY <2>4, <2>12, <2>14, <2>15
    <2>18. LedgerOK(M)
      BY <2>5, <2>6, <2>7, <2>14, <2>17 DEF LedgerOK
    <2>19. M.minted >= L.minted /\ \A a \in Token!Account : M.nonce[a] >= L.nonce[a]
      BY <1>1, <2>5, <2>6, LedgerFacts
    <2>20. Started(M)
      BY <2>17 DEF Started, Token!Seeded
    <2> QED BY <2>14, <2>16, <2>18, <2>19, <2>20 DEF Silent, Grows
  <1> QED BY <1>2, <1>3

-----------------------------------------------------------------------------
(* A full ballot is decided *)

Scores == [Agent -> Score]

LEMMA WeightOf ==
    ASSUME NEW f \in Scores, NEW S \in SUBSET Agent
    PROVE  Weight(f, S) \in Nat
  <1>1. IsFiniteSet(S) /\ \A a \in S : f[a] \in Nat
    BY CoreAssumption, FS_Subset DEF Scores, Score
  <1>2. Total(f, S) \in Nat
    BY <1>1, TotalIsNat
  <1> QED BY <1>2 DEF Weight, Total

LEMMA WeightOfBoth ==
    ASSUME NEW f \in Scores, NEW A \in SUBSET Agent, NEW B \in SUBSET Agent, A \cap B = {},
           NEW C, C = A \cup B
    PROVE  Weight(f, C) = Weight(f, A) + Weight(f, B)
  <1>1. IsFiniteSet(A) /\ IsFiniteSet(B) /\ \A a \in A \cup B : f[a] \in Nat
    BY CoreAssumption, FS_Subset DEF Scores, Score
  <1>2. Total(f, A \cup B) = Total(f, A) + Total(f, B)
    BY <1>1, TotalSplit
  <1> QED BY <1>2 DEF Weight, Total

LEMMA FullBallot ==
    ASSUME NEW ballot \in [Agent -> Decision], NEW score \in Scores
    PROVE  EvaluateProposal(ballot, Agent, score, FALSE) \in {"accepted", "rejected"}
  <1> DEFINE S == Voters(ballot, "support")
             R == Voters(ballot, "reject")
             X == Voters(ballot, "abstain")
             T == S \cup R
             s == Weight(score, S)
             e == Weight(score, Agent)
  <1>1. /\ S \in SUBSET Agent /\ R \in SUBSET Agent /\ X \in SUBSET Agent
        /\ T \in SUBSET Agent /\ S \cap R = {} /\ T \cap X = {} /\ Agent = T \cup X
    BY DEF Voters, Decision
  <1>2. /\ Tally(ballot, score, "support") = Weight(score, S)
        /\ Tally(ballot, score, "reject") = Weight(score, R)
        /\ Tally(ballot, score, "abstain") = Weight(score, X)
    BY DEF Tally
  <1> HIDE DEF S, R, X
  <1>3. Weight(score, T) = Weight(score, S) + Weight(score, R)
    BY <1>1, WeightOfBoth
  <1> HIDE DEF T
  <1>4. Weight(score, Agent) = Weight(score, T) + Weight(score, X)
    BY <1>1, WeightOfBoth
  <1>5. /\ Weight(score, S) \in Nat /\ Weight(score, R) \in Nat
        /\ Weight(score, X) \in Nat /\ Weight(score, Agent) \in Nat
    BY <1>1, WeightOf
  <1>6. Missing(ballot, Agent, score) = 0
    BY <1>2, <1>3, <1>4, <1>5 DEF Missing
  <1>7. Accepts(ballot, Agent, score) \/ Rejects(ballot, Agent, score)
    BY <1>2, <1>5, <1>6 DEF Accepts, Rejects, Reaches
  <1> QED BY <1>7 DEF EvaluateProposal

\* What every node supports is accepted.
LEMMA SupportedByAll ==
    ASSUME NEW score \in Scores
    PROVE  /\ AllSupport \in [Agent -> Decision]
           /\ EvaluateProposal(AllSupport, Agent, score, FALSE) = "accepted"
  <1>1. AllSupport \in [Agent -> Decision] /\ Voters(AllSupport, "support") = Agent
    BY DEF AllSupport, Decision, Voters
  <1>2. Tally(AllSupport, score, "support") = Weight(score, Agent)
    BY <1>1 DEF Tally
  <1>3. Weight(score, Agent) \in Nat
    BY WeightOf
  <1>4. Accepts(AllSupport, Agent, score)
    BY <1>2, <1>3 DEF Accepts, Reaches
  <1> QED BY <1>1, <1>4 DEF EvaluateProposal

-----------------------------------------------------------------------------
(* What a decision does to the records *)

LEMMA ClampIsScore ==
    ASSUME NEW x \in Int
    PROVE  ClampReputation(x) \in Score
  <1>1. MaxReputation \in Nat
    BY CoreAssumption
  <1> QED BY <1>1 DEF ClampReputation, Score

LEMMA ClampKeepsScores ==
    ASSUME NEW x \in Score
    PROVE  ClampReputation(x) = x
  <1>1. MaxReputation \in Nat
    BY CoreAssumption
  <1> QED BY <1>1 DEF ClampReputation, Score

LEMMA DeltaIsInteger ==
    ASSUME NEW d, NEW s PROVE Delta(d, s) \in Int
  BY CoreAssumption DEF Delta

\* The events of a full ballot mention everybody.
LEMMA FullEvents ==
    ASSUME NEW score \in Scores, NEW ballot \in [Agent -> Decision],
           NEW status \in {"accepted", "rejected"},
           NEW events, events = OutcomeEvents(score, ballot, status)
    PROVE  DOMAIN events = Agent /\ \A a \in Agent : events[a].after \in Score
  <1>1. DOMAIN events = Agent
    BY DEF OutcomeEvents
  <1>2. ASSUME NEW a \in Agent PROVE events[a].after \in Score
    <2>1. events[a].after = ClampReputation(score[a] + Delta(ballot[a], status))
      BY DEF OutcomeEvents
    <2>2. score[a] \in Int
      BY DEF Scores, Score
    <2>3. score[a] + Delta(ballot[a], status) \in Int
      BY <2>2, DeltaIsInteger
    <2> QED BY <2>1, <2>3, ClampIsScore
  <1> QED BY <1>1, <1>2

\* They say what the scores are now.
LEMMA FullImport ==
    ASSUME NEW score, NEW events, DOMAIN events = Agent,
           \A a \in Agent : events[a].after \in Score
    PROVE  ImportEvents(score, events) = [a \in Agent |-> events[a].after]
  BY ClampKeepsScores DEF ImportEvents

\* An outcome for everybody.
Full(events) == DOMAIN events = Agent /\ \A a \in Agent : events[a].after \in Score

\* A block about a new proposal, on top of the chain.
OnTop(chain, b) ==
    /\ b.height = Len(chain) + 1 /\ b.previousHash = HeadHash(chain)
    /\ b.proposal \in Proposal /\ b.status \in {"accepted", "rejected"}
    /\ ~Holds(chain, b.proposal)

Entry(p, events) == [proposal |-> p, events |-> events]

\* d is k, and then the outcome of block b.
Settles(k, d, b, events) ==
    /\ CoreParts \subseteq DOMAIN d
    /\ d.chain = Append(k.chain, b)
    /\ d.history = Append(k.history, Entry(b.proposal, events))
    /\ d.score = ImportEvents(k.score, events)
    /\ d.results = [k.results EXCEPT ![b.proposal] = b.status]
    /\ DOMAIN d.votes = Proposal /\ d.proposals \subseteq Proposal

LEMMA BlockFacts ==
    ASSUME NEW x, BlocksOK(x)
    PROVE  /\ Len(x.chain) \in Nat /\ DOMAIN x.chain = 1 .. Len(x.chain)
           /\ DOMAIN x.history = 1 .. Len(x.chain) /\ Len(x.history) = Len(x.chain)
           /\ HeadHash(x.chain) = IF Len(x.chain) = 0 THEN Genesis
                                  ELSE BlockHash(x.chain[Len(x.chain)])
  <1>1. /\ Len(x.chain) \in Nat /\ DOMAIN x.chain = 1 .. Len(x.chain)
        /\ DOMAIN x.history = 1 .. Len(x.history) /\ Len(x.history) = Len(x.chain)
    BY SequenceDomain DEF BlocksOK
  <1>2. x.chain = <<>> <=> Len(x.chain) = 0
    BY DEF BlocksOK, IsSequence
  <1> QED BY <1>1, <1>2 DEF HeadHash

LEMMA SettledCore ==
    ASSUME NEW k, CoreOK(k), NEW b, OnTop(k.chain, b), NEW events, Full(events),
           NEW d, Settles(k, d, b, events)
    PROVE  /\ CoreOK(d)
           /\ Len(d.chain) = Len(k.chain) + 1
           /\ Begins(k.chain, d.chain) /\ Begins(k.history, d.history)
           /\ d.chain[Len(k.chain) + 1] = b
           /\ d.history[Len(k.chain) + 1].events = events
  <1> DEFINE n == Len(k.chain)
             e == Entry(b.proposal, events)
  <1>1. /\ BlocksOK(k) /\ n \in Nat /\ DOMAIN k.chain = 1 .. n
        /\ DOMAIN k.history = 1 .. n /\ Len(k.history) = n
        /\ b.previousHash = IF n = 0 THEN Genesis ELSE BlockHash(k.chain[n])
    BY BlockFacts DEF CoreOK, OnTop
  <1>2. /\ IsSequence(k.chain) /\ IsSequence(k.history)
        /\ d.chain = Append(k.chain, b) /\ d.history = Append(k.history, e)
    BY <1>1 DEF BlocksOK, Settles
  <1>3. e.proposal = b.proposal /\ e.events = events
    BY DEF Entry
  <1> HIDE DEF e
  <1>4. /\ IsSequence(d.chain) /\ Begins(k.chain, d.chain) /\ Len(d.chain) = n + 1
        /\ d.chain[n + 1] = b
    BY <1>2, LongerSequence
  <1>5. /\ IsSequence(d.history) /\ Begins(k.history, d.history) /\ Len(d.history) = n + 1
        /\ d.history[n + 1] = e
    <2>1. IsSequence(k.history) /\ d.history = Append(k.history, e)
      BY <1>2
    <2>2. /\ IsSequence(d.history) /\ Begins(k.history, d.history)
          /\ Len(d.history) = Len(k.history) + 1 /\ d.history[Len(k.history) + 1] = e
      BY <2>1, LongerSequence
    <2>3. Len(k.history) = n
      BY <1>1
    <2> QED BY <2>2, <2>3
  <1> HIDE DEF n
  <1>6. /\ DOMAIN d.chain = 1 .. n + 1
        /\ \A i \in 1 .. n : d.chain[i] = k.chain[i] /\ d.history[i] = k.history[i]
    BY <1>1, <1>4, <1>5 DEF Begins, n
  <1>7. ASSUME NEW i \in 1 .. n + 1
        PROVE  /\ d.chain[i].height = i
               /\ d.chain[i].previousHash =
                     IF i = 1 THEN Genesis ELSE BlockHash(d.chain[i - 1])
               /\ d.chain[i].proposal \in Proposal
               /\ d.chain[i].status \in {"accepted", "rejected"}
               /\ d.history[i].proposal = d.chain[i].proposal
               /\ DOMAIN d.history[i].events = Agent
               /\ \A a \in Agent : d.history[i].events[a].after \in Score
    <2>1. CASE i = n + 1
      <3>1. b.height = n + 1 /\ b.proposal \in Proposal
            /\ b.status \in {"accepted", "rejected"}
        BY DEF OnTop, n
      <3>2. b.previousHash = IF i = 1 THEN Genesis ELSE BlockHash(d.chain[i - 1])
        <4>1. CASE n = 0
          BY <1>1, <2>1, <4>1
        <4>2. CASE n # 0
          <5>1. n \in 1 .. n /\ i - 1 = n /\ i # 1
            BY <1>1, <2>1, <4>2
          <5>2. d.chain[n] = k.chain[n]
            BY <1>6, <5>1
          <5> QED BY <1>1, <4>2, <5>1, <5>2
        <4> QED BY <4>1, <4>2
      <3> QED BY <1>3, <1>4, <1>5, <2>1, <3>1, <3>2 DEF Full
    <2>2. CASE i # n + 1
      <3>1. i \in 1 .. n /\ (i # 1 => i - 1 \in 1 .. n)
        BY <1>1, <2>2
      <3>2. d.chain[i] = k.chain[i] /\ d.history[i] = k.history[i]
            /\ (i # 1 => d.chain[i - 1] = k.chain[i - 1])
        BY <1>6, <3>1
      <3>3. /\ k.chain[i].height = i
            /\ k.chain[i].previousHash =
                  IF i = 1 THEN Genesis ELSE BlockHash(k.chain[i - 1])
            /\ k.chain[i].proposal \in Proposal
            /\ k.chain[i].status \in {"accepted", "rejected"}
            /\ k.history[i].proposal = k.chain[i].proposal
            /\ DOMAIN k.history[i].events = Agent
            /\ \A a \in Agent : k.history[i].events[a].after \in Score
        BY <1>1, <3>1 DEF BlocksOK
      <3> QED BY <3>2, <3>3
    <2> QED BY <2>1, <2>2
  <1>8. \A i \in 1 .. n : k.chain[i].proposal # b.proposal
    BY <1>1 DEF OnTop, Holds
  <1>9. ASSUME NEW i \in 1 .. n + 1, NEW j \in 1 .. n + 1,
               d.chain[i].proposal = d.chain[j].proposal
        PROVE  i = j
    <2>1. \A m \in 1 .. n + 1 : m = n + 1 \/ m \in 1 .. n
      BY <1>1
    <2>2. \A l, m \in 1 .. n : k.chain[l].proposal = k.chain[m].proposal => l = m
      BY <1>1 DEF BlocksOK
    <2> QED BY <1>4, <1>6, <1>8, <1>9, <2>1, <2>2
  <1>10. d.score = [a \in Agent |-> IF Len(d.chain) = 0 THEN InitialReputation
                                    ELSE d.history[Len(d.chain)].events[a].after]
    <2>1. d.score = [a \in Agent |-> events[a].after]
      BY FullImport DEF Settles, Full
    <2>2. Len(d.chain) = n + 1 /\ n + 1 # 0 /\ d.history[n + 1].events = events
      BY <1>1, <1>3, <1>4, <1>5
    <2> QED BY <2>1, <2>2
  <1>11. BlocksOK(d)
    BY <1>4, <1>5, <1>6, <1>7, <1>9, <1>10 DEF BlocksOK, Settles
  <1>12. /\ d.results \in [Proposal -> {"accepted", "rejected", "none"}]
         /\ d.results[b.proposal] = b.status
         /\ \A p \in Proposal : p # b.proposal => d.results[p] = k.results[p]
    BY DEF CoreOK, Settles, OnTop
  <1>13. ASSUME NEW p \in Proposal, d.results[p] # "none" PROVE Holds(d.chain, p)
    <2>1. CASE p = b.proposal
      <3>1. n + 1 \in 1 .. n + 1
        BY <1>1
      <3> QED BY <1>4, <1>6, <2>1, <3>1 DEF Holds
    <2>2. CASE p # b.proposal
      <3>1. Holds(k.chain, p)
        BY <1>12, <1>13, <2>2 DEF CoreOK
      <3>2. PICK i \in 1 .. n : k.chain[i].proposal = p
        BY <1>1, <3>1 DEF Holds
      <3>3. i \in 1 .. n + 1
        BY <1>1
      <3> QED BY <1>6, <3>2, <3>3 DEF Holds
    <2> QED BY <2>1, <2>2
  <1>14. ASSUME NEW i \in 1 .. n + 1 PROVE d.results[d.chain[i].proposal] = d.chain[i].status
    <2>1. CASE i = n + 1
      BY <1>4, <1>12, <2>1
    <2>2. CASE i # n + 1
      <3>1. i \in 1 .. n
        BY <1>1, <2>2
      <3>2. k.results[k.chain[i].proposal] = k.chain[i].status
            /\ k.chain[i].proposal \in Proposal
        BY <1>1, <3>1 DEF CoreOK, BlocksOK
      <3> QED BY <1>6, <1>8, <1>12, <3>1, <3>2
    <2> QED BY <2>1, <2>2
  <1>15. CoreOK(d)
    BY <1>6, <1>11, <1>12, <1>13, <1>14 DEF CoreOK, Settles
  <1> QED BY <1>3, <1>4, <1>5, <1>15 DEF n

-----------------------------------------------------------------------------
(* Rewards *)

LEMMA PowerOfTwo ==
    ASSUME NEW n \in Nat
    PROVE  2 ^ n \in Nat \ {0}
  <1> DEFINE S == 1 .. n
  <1>1. IsFiniteSet(S) /\ Cardinality(S) = n
    BY FS_Interval
  <1> HIDE DEF S
  <1>2. IsFiniteSet(SUBSET S) /\ Cardinality(SUBSET S) = 2 ^ n
    BY <1>1, FS_SUBSET
  <1>3. SUBSET S # {}
    OBVIOUS
  <1>4. Cardinality(SUBSET S) \in Nat \ {0}
    BY <1>2, <1>3, FS_CardinalityType, FS_EmptySet
  <1> QED BY <1>2, <1>4

LEMMA RewardIsNat ==
    ASSUME NEW h \in Nat \ {0}
    PROVE  Token!RewardForBlock(h) \in Nat
  <1>1. 2 ^ Token!Epoch(h) \in Nat \ {0}
    BY EpochIsNat, PowerOfTwo
  <1>2. Token!Rounded(InitialReward, 2 ^ Token!Epoch(h)) \in Nat
    BY <1>1, RoundedIsNat, TokenPolicy
  <1> QED BY <1>2 DEF Token!RewardForBlock

\* The chain is one block longer, and that block is about p.
OneMore(chain, longer, p) ==
    /\ Begins(chain, longer) /\ Len(longer) = Len(chain) + 1
    /\ longer[Len(chain) + 1].proposal = p

\* That block has this height and this id.
Top(chain, longer, top, id) == top = Len(chain) + 1 /\ id = BlockId(longer[top])

\* A block is told by its id.
LEMMA IdTellsBlock ==
    ASSUME NEW x, BlocksOK(x), NEW i \in DOMAIN x.chain, NEW j \in DOMAIN x.chain,
           BlockId(x.chain[i]) = BlockId(x.chain[j])
    PROVE  i = j
  <1>1. x.chain[i].height = i /\ x.chain[j].height = j
    BY DEF BlocksOK
  <1>2. x.chain[i].height = x.chain[j].height
    BY DEF BlockId
  <1> QED BY <1>1, <1>2

\* settleValidationReward, for the block with that id and that height.
WithReward(L, id, top) ==
    LET due == Token!RewardDue(L, top)
    IN  IF Token!Rewarded(L, id) \/ due = 0 THEN L
        ELSE Token!Mint(L, "reward", id, top, Coordinator, due)

\* No transfer is added.
NoTransfer(L, M) ==
    /\ Grows(L, M)
    /\ \A i \in DOMAIN M.events : i \notin DOMAIN L.events => M.events[i].kind # "transfer"

\* The reward of the block on top is paid, unless there is none or nothing is left.
LEMMA PaidTop ==
    ASSUME NEW x, BlocksOK(x), NEW chain, NEW p, OneMore(chain, x.chain, p),
           NEW L, LedgerOK(L), Paid(L, chain), NEW id, NEW top,
           Top(chain, x.chain, top, id), NEW M, M = WithReward(L, id, top)
    PROVE  NoTransfer(L, M) /\ Paid(M, x.chain)
  <1> DEFINE due == Token!RewardDue(L, top)
  <1>0. M = IF Token!Rewarded(L, id) \/ due = 0 THEN L
            ELSE Token!Mint(L, "reward", id, top, Coordinator, due)
    BY DEF WithReward
  <1>1. /\ top \in Nat \ {0} /\ DOMAIN x.chain = 1 .. top /\ DOMAIN chain = 1 .. top - 1
        /\ \A j \in 1 .. top - 1 : x.chain[j] = chain[j] /\ j \in 1 .. top
        /\ top \in 1 .. top
    BY DEF OneMore, Begins, Top
  <1>2. /\ Len(L.events) \in Nat /\ DOMAIN L.events = 1 .. Len(L.events)
        /\ L.minted \in Nat /\ MaxSupply \in Nat /\ L.minted <= MaxSupply
    BY LedgerFacts
  <1>3. Token!RewardForBlock(top) \in Nat
    BY <1>1, RewardIsNat
  <1>4. /\ due \in Nat /\ L.minted + due <= MaxSupply
        /\ due = 0 => Token!RewardForBlock(top) = 0 \/ L.minted = MaxSupply
        /\ due # 0 => Token!RewardForBlock(top) > 0
    <2>1. due = IF Token!RewardForBlock(top) < MaxSupply - L.minted
                THEN Token!RewardForBlock(top) ELSE MaxSupply - L.minted
      BY DEF Token!RewardDue, Token!Least, Token!Remaining
    <2> QED BY <1>2, <1>3, <2>1
  <1> HIDE DEF due
  <1>5. \A i \in Of(L, "reward") : \E j \in 1 .. top - 1 :
            L.events[i].ref = BlockId(x.chain[j]) /\ Token!RewardForBlock(j) > 0
    BY <1>1 DEF Paid
  <1>6. ASSUME NEW i \in Of(L, "reward") PROVE L.events[i].ref # id
    <2>1. PICK j \in 1 .. top - 1 : L.events[i].ref = BlockId(x.chain[j])
      BY <1>5
    <2>2. j # top /\ j \in 1 .. top
      BY <1>1
    <2> QED BY <1>1, <2>1, <2>2, IdTellsBlock DEF Top
  <1>7. ~Token!Rewarded(L, id)
    BY <1>6 DEF Token!Rewarded, Of
  <1>8. \A j \in 1 .. top : j = top \/ j \in 1 .. top - 1
    BY <1>1
  <1>9. CASE due = 0
    <2>1. M = L
      BY <1>0, <1>9
    <2>2. Silent(L, L)
      BY SilentSelf
    <2>3. \A i, j \in Of(L, "reward") : L.events[i].ref = L.events[j].ref => i = j
      BY DEF Paid
    <2>4. L.minted < MaxSupply =>
             \A j \in 1 .. top :
                Token!RewardForBlock(j) > 0 => Token!Rewarded(L, BlockId(x.chain[j]))
      <3> SUFFICES ASSUME L.minted < MaxSupply, NEW j \in 1 .. top,
                          Token!RewardForBlock(j) > 0
                   PROVE  Token!Rewarded(L, BlockId(x.chain[j]))
        OBVIOUS
      <3>1. Token!RewardForBlock(top) = 0
        BY <1>2, <1>4, <1>9
      <3>2. j \in 1 .. top - 1
        BY <1>3, <1>8, <3>1
      <3> QED BY <1>1, <3>2 DEF Paid
    <2>5. \A i \in Of(L, "reward") : \E j \in 1 .. top :
              L.events[i].ref = BlockId(x.chain[j]) /\ Token!RewardForBlock(j) > 0
      BY <1>1, <1>5
    <2>6. Paid(L, x.chain)
      BY <1>1, <2>3, <2>4, <2>5 DEF Paid
    <2> QED BY <2>1, <2>2, <2>6 DEF Silent, NoTransfer
  <1>10. CASE due # 0
    <2> DEFINE e == Token!MintEvent("reward", id, top, Coordinator, due)
               n == Len(L.events)
    <2>1. M = Token!Mint(L, "reward", id, top, Coordinator, due)
      BY <1>0, <1>7, <1>10
    <2>2. /\ Grows(L, M) /\ M.minted = L.minted + due
          /\ Len(M.events) = n + 1 /\ M.events[n + 1] = e
      BY <1>4, <2>1, AccountFacts, MintLedger
    <2>3. e.kind = "reward" /\ e.ref = id
      BY DEF Token!MintEvent
    <2> HIDE DEF e
    <2>4. /\ DOMAIN M.events = 1 .. n + 1
          /\ \A i \in 1 .. n : M.events[i] = L.events[i]
          /\ \A i \in 1 .. n + 1 : i = n + 1 \/ i \in 1 .. n
          /\ \A i \in 1 .. n : i \in 1 .. n + 1
          /\ n + 1 \in 1 .. n + 1
      BY <1>2, <2>2 DEF Grows, Begins
    <2>5. Of(M, "reward") = Of(L, "reward") \cup {n + 1}
      BY <1>2, <2>2, <2>3, <2>4 DEF Of
    <2>6. \A i \in Of(L, "reward") : i # n + 1 /\ M.events[i] = L.events[i]
      BY <1>2, <2>4 DEF Of
    <2>7. ASSUME NEW i \in Of(M, "reward")
          PROVE  \E j \in 1 .. top :
                    M.events[i].ref = BlockId(x.chain[j]) /\ Token!RewardForBlock(j) > 0
      <3>1. CASE i = n + 1
        BY <1>1, <1>4, <1>10, <2>2, <2>3, <3>1 DEF Top
      <3>2. CASE i \in Of(L, "reward")
        BY <1>1, <1>5, <2>6, <3>2
      <3> QED BY <2>5, <3>1, <3>2
    <2>8. ASSUME NEW i \in Of(M, "reward"), NEW j \in Of(M, "reward"),
                 M.events[i].ref = M.events[j].ref
          PROVE  i = j
      <3>1. \A k, l \in Of(L, "reward") : L.events[k].ref = L.events[l].ref => k = l
        BY DEF Paid
      <3>2. CASE i \in Of(L, "reward") /\ j \in Of(L, "reward")
        BY <2>6, <2>8, <3>1, <3>2
      <3>3. M.events[n + 1].ref = id
        BY <2>2, <2>3
      <3>4. ASSUME NEW k \in Of(L, "reward"), M.events[k].ref = id PROVE FALSE
        BY <1>6, <2>6, <3>4
      <3>5. CASE i \notin Of(L, "reward") \/ j \notin Of(L, "reward")
        BY <2>5, <2>8, <3>3, <3>4, <3>5
      <3> QED BY <3>2, <3>5
    <2>9. ASSUME M.minted < MaxSupply, NEW j \in 1 .. top, Token!RewardForBlock(j) > 0
          PROVE  Token!Rewarded(M, BlockId(x.chain[j]))
      <3>1. CASE j = top
        BY <2>2, <2>3, <2>4, <3>1 DEF Token!Rewarded, Top
      <3>2. CASE j \in 1 .. top - 1
        <4>1. L.minted < MaxSupply
          BY <1>2, <1>4, <2>2, <2>9
        <4>2. Token!Rewarded(L, BlockId(x.chain[j]))
          BY <1>1, <2>9, <3>2, <4>1 DEF Paid
        <4> QED BY <1>2, <2>4, <4>2 DEF Token!Rewarded
      <3> QED BY <1>8, <3>1, <3>2
    <2>10. Paid(M, x.chain)
      BY <1>1, <2>7, <2>8, <2>9 DEF Paid
    <2>11. \A i \in DOMAIN M.events : i \notin DOMAIN L.events => M.events[i].kind # "transfer"
      BY <1>2, <2>2, <2>3, <2>4
    <2> QED BY <2>2, <2>10, <2>11 DEF NoTransfer
  <1> QED BY <1>9, <1>10

-----------------------------------------------------------------------------
(* What stays true of the books *)

\* Calls only move on.
Later(calls, later) ==
    \A c \in Call : /\ calls[c] # "idle" => later[c] # "idle"
                    /\ calls[c] \notin Early => later[c] \notin Early
                    /\ calls[c] \in Spent => later[c] \in Spent

LEMMA ProposalCall ==
    ASSUME NEW p \in Proposal PROVE p[1] \in Call /\ p = <<p[1], p[2]>>
  BY NetworkAssumption

LEMMA GrowthFacts ==
    ASSUME NEW L, LedgerOK(L), NEW M, Grows(L, M)
    PROVE  /\ LedgerOK(M) /\ DOMAIN L.events \subseteq DOMAIN M.events
           /\ \A i \in DOMAIN L.events : M.events[i] = L.events[i]
           /\ \A kind : Of(L, kind) \subseteq Of(M, kind)
           /\ \A id : Token!Rewarded(L, id) => Token!Rewarded(M, id)
           /\ M.minted < MaxSupply => L.minted < MaxSupply
  <1>1. LedgerOK(M) /\ Begins(L.events, M.events) /\ M.minted >= L.minted
    BY DEF Grows
  <1>2. /\ DOMAIN L.events \subseteq DOMAIN M.events
        /\ \A i \in DOMAIN L.events : M.events[i] = L.events[i]
    BY <1>1 DEF Begins
  <1>3. L.minted \in Nat /\ M.minted \in Nat /\ MaxSupply \in Nat
    BY <1>1, LedgerFacts
  <1>4. M.minted < MaxSupply => L.minted < MaxSupply
    BY <1>1, <1>3
  <1> QED BY <1>1, <1>2, <1>4 DEF Of, Token!Rewarded

LEMMA SilentAddsNone ==
    ASSUME NEW L, LedgerOK(L), NEW M, Silent(L, M)
    PROVE  NoTransfer(L, M) /\ Of(M, "reward") = Of(L, "reward")
  <1>1. Grows(L, M)
        /\ \A i \in DOMAIN M.events :
              i \notin DOMAIN L.events => M.events[i].kind \notin {"reward", "transfer"}
    BY DEF Silent
  <1>2. /\ DOMAIN L.events \subseteq DOMAIN M.events
        /\ \A i \in DOMAIN L.events : M.events[i] = L.events[i]
    BY <1>1, GrowthFacts
  <1> QED BY <1>1, <1>2 DEF NoTransfer, Of

LEMMA SameTransfers ==
    ASSUME NEW L, LedgerOK(L), NEW M, NoTransfer(L, M)
    PROVE  /\ Of(M, "transfer") = Of(L, "transfer")
           /\ \A i \in Of(L, "transfer") : M.events[i] = L.events[i]
  <1>1. Grows(L, M)
    BY DEF NoTransfer
  <1>2. /\ DOMAIN L.events \subseteq DOMAIN M.events
        /\ \A i \in DOMAIN L.events : M.events[i] = L.events[i]
    BY <1>1, GrowthFacts
  <1> QED BY <1>2 DEF NoTransfer, Of

LEMMA PaidStays ==
    ASSUME NEW L, LedgerOK(L), NEW M, Grows(L, M), Of(M, "reward") = Of(L, "reward"),
           NEW chain, Paid(L, chain)
    PROVE  Paid(M, chain)
  <1>1. /\ \A i \in DOMAIN L.events : M.events[i] = L.events[i]
        /\ \A id : Token!Rewarded(L, id) => Token!Rewarded(M, id)
        /\ M.minted < MaxSupply => L.minted < MaxSupply
    BY GrowthFacts
  <1>2. \A i \in Of(L, "reward") : M.events[i] = L.events[i]
    BY <1>1 DEF Of
  <1> QED BY <1>1, <1>2 DEF Paid

LEMMA CarriedStays ==
    ASSUME NEW L, LedgerOK(L), NEW M, NoTransfer(L, M), NEW chain, NEW longer,
           Begins(chain, longer), Carried(L, chain)
    PROVE  Carried(M, longer)
  <1>1. /\ Of(M, "transfer") = Of(L, "transfer")
        /\ \A i \in Of(L, "transfer") : M.events[i] = L.events[i]
    BY SameTransfers
  <1>2. \A j \in DOMAIN chain : j \in DOMAIN longer /\ longer[j] = chain[j]
    BY DEF Begins
  <1>3. \A a \in Agent : L.nonce[a] \in Nat /\ M.nonce[a] \in Nat /\ M.nonce[a] >= L.nonce[a]
    BY LedgerFacts, AccountFacts DEF NoTransfer, Grows
  <1>4. ASSUME NEW i \in Of(L, "transfer")
        PROVE  /\ \E j \in DOMAIN longer : /\ M.events[i].ref = BlockId(longer[j])
                                           /\ longer[j].status = "accepted"
               /\ M.events[i].from \in Agent
               /\ M.events[i].nonce \in 0 .. M.nonce[M.events[i].from] - 1
    <2> DEFINE e == L.events[i]
    <2>1. M.events[i] = e
      BY <1>1
    <2>2. /\ \E j \in DOMAIN chain : e.ref = BlockId(chain[j]) /\ chain[j].status = "accepted"
          /\ e.from \in Agent /\ e.nonce \in 0 .. L.nonce[e.from] - 1
      BY DEF Carried
    <2> HIDE DEF e
    <2>3. \E j \in DOMAIN longer : e.ref = BlockId(longer[j]) /\ longer[j].status = "accepted"
      BY <1>2, <2>2
    <2>4. e.nonce \in 0 .. M.nonce[e.from] - 1
      BY <1>3, <2>2
    <2> QED BY <2>1, <2>2, <2>3, <2>4
  <1>5. \A i, j \in Of(L, "transfer") :
          \/ L.events[i].ref = L.events[j].ref
          \/ L.events[i].from = L.events[j].from /\ L.events[i].nonce = L.events[j].nonce
          => i = j
    BY DEF Carried
  <1> QED BY <1>1, <1>4, <1>5 DEF Carried

\* What a transfer refers to is a block about a call.
LEMMA CarriedCall ==
    ASSUME NEW x, BlocksOK(x), NEW L, Carried(L, x.chain), NEW i \in Of(L, "transfer")
    PROVE  L.events[i].ref[1] \in Proposal
  <1>1. PICK j \in DOMAIN x.chain : L.events[i].ref = BlockId(x.chain[j])
    BY DEF Carried
  <1>2. x.chain[j].proposal \in Proposal
    BY DEF BlocksOK
  <1> QED BY <1>1, <1>2 DEF BlockId

LEMMA KnownStays ==
    ASSUME NEW x, BlocksOK(x), NEW L, LedgerOK(L), Carried(L, x.chain),
           NEW M, NoTransfer(L, M), NEW calls, NEW later, Later(calls, later),
           Known(L, x.chain, calls)
    PROVE  Known(M, x.chain, later)
  <1>1. ASSUME NEW j \in DOMAIN x.chain, NEW p, p = x.chain[j].proposal
        PROVE  /\ later[p[1]] # "idle"
               /\ p[2] = "approved" => later[p[1]] \notin Early
    <2>1. p[1] \in Call
      BY <1>1, ProposalCall DEF BlocksOK
    <2>2. /\ calls[p[1]] # "idle"
          /\ p[2] = "approved" => calls[p[1]] \notin Early
      BY <1>1 DEF Known
    <2> QED BY <2>1, <2>2 DEF Later
  <1>2. /\ Of(M, "transfer") = Of(L, "transfer")
        /\ \A i \in Of(L, "transfer") : M.events[i] = L.events[i]
    BY SameTransfers
  <1>3. ASSUME NEW i \in Of(L, "transfer") PROVE later[L.events[i].ref[1][1]] \in Spent
    <2>1. L.events[i].ref[1][1] \in Call
      BY CarriedCall, ProposalCall
    <2>2. calls[L.events[i].ref[1][1]] \in Spent
      BY DEF Known
    <2> QED BY <2>1, <2>2 DEF Later
  <1> QED BY <1>1, <1>2, <1>3 DEF Known

LEMMA LaterSelf ==
    ASSUME NEW calls PROVE Later(calls, calls)
  BY DEF Later

\* Time passes, and the ledger changes in ways that concern no block.
LEMMA BooksStay ==
    ASSUME NEW x, NEW L, NEW calls, BooksOK(x, L, calls), NEW M, Silent(L, M),
           NEW later, Later(calls, later)
    PROVE  BooksOK(x, M, later)
  <1>1. BlocksOK(x) /\ LedgerOK(L) /\ LedgerOK(M)
    BY DEF BooksOK, Silent, Grows
  <1>2. NoTransfer(L, M)
    BY <1>1, SilentAddsNone
  <1>3. Begins(x.chain, x.chain)
    BY <1>1, BeginsItself DEF BlocksOK
  <1>4. Paid(M, x.chain)
    BY <1>1, SilentAddsNone, PaidStays DEF BooksOK, Silent
  <1>5. Carried(M, x.chain)
    BY <1>1, <1>2, <1>3, CarriedStays DEF BooksOK
  <1>6. Known(M, x.chain, later)
    BY <1>1, <1>2, KnownStays DEF BooksOK
  <1> QED BY <1>1, <1>4, <1>5, <1>6 DEF BooksOK

LEMMA BooksLater ==
    ASSUME NEW x, NEW L, NEW calls, BooksOK(x, L, calls), NEW later, Later(calls, later)
    PROVE  BooksOK(x, L, later)
  <1>1. Silent(L, L)
    BY SilentSelf DEF BooksOK
  <1> QED BY <1>1, BooksStay

-----------------------------------------------------------------------------
(* Decisions *)

LEMMA CoreScores ==
    ASSUME NEW k, CoreOK(k) PROVE k.score \in Scores
  <1>1. InitialReputation \in Score
    BY CoreAssumption DEF Score
  <1>2. CASE Len(k.chain) = 0
    BY <1>1, <1>2 DEF CoreOK, BlocksOK, Scores
  <1>3. CASE Len(k.chain) # 0
    <2>1. Len(k.chain) \in DOMAIN k.chain
      BY <1>3, BlockFacts DEF CoreOK
    <2>2. \A a \in Agent : k.history[Len(k.chain)].events[a].after \in Score
      BY <2>1 DEF CoreOK, BlocksOK
    <2> QED BY <1>3, <2>2 DEF CoreOK, BlocksOK, Scores
  <1> QED BY <1>2, <1>3

\* A finalized full ballot, at the node that evaluates it.
Finalized(k, p, ballot) ==
    LET voted == [SubmitProposal(k, p) EXCEPT !.votes[p] = ballot]
    IN  FinalizeProposal(voted, p, EvaluateProposal(ballot, Agent, voted.score, FALSE))

LEMMA FinalizedCore ==
    ASSUME NEW k, CoreOK(k), NEW p \in Proposal, ~Holds(k.chain, p),
           NEW ballot \in [Agent -> Decision], NEW d, d = Finalized(k, p, ballot)
    PROVE  /\ CoreOK(d) /\ OneMore(k.chain, d.chain, p)
           /\ ballot = AllSupport => d.chain[Len(k.chain) + 1].status = "accepted"
  <1> DEFINE voted == [SubmitProposal(k, p) EXCEPT !.votes[p] = ballot]
             status == EvaluateProposal(ballot, Agent, k.score, FALSE)
             b == NextBlock(k.chain, p, ballot, status)
             events == OutcomeEvents(k.score, ballot, status)
  <1>1. k.score \in Scores
    BY CoreScores
  <1>2. status \in {"accepted", "rejected"}
        /\ (ballot = AllSupport => status = "accepted")
    BY <1>1, FullBallot, SupportedByAll
  <1>3. /\ CoreParts \subseteq DOMAIN k /\ DOMAIN k.votes = Proposal
        /\ k.proposals \subseteq Proposal
    BY DEF CoreOK, BlocksOK
  <1>4. /\ CoreParts \subseteq DOMAIN voted /\ voted.score = k.score
        /\ voted.chain = k.chain /\ voted.history = k.history
        /\ voted.results = k.results /\ voted.proposals = k.proposals \cup {p}
        /\ DOMAIN voted.votes = Proposal /\ voted.votes[p] = ballot
    BY <1>3 DEF SubmitProposal, CoreParts
  <1> HIDE DEF status
  <1>5. Full(events)
    BY <1>1, <1>2, FullEvents DEF Full
  <1>6. OnTop(k.chain, b) /\ b.proposal = p /\ b.status = status
    BY <1>2 DEF OnTop, NextBlock
  <1>8. d = FinalizeProposal(voted, p, status)
    BY <1>4 DEF status, Finalized
  <1> DEFINE t == Broadcast(voted, p, status)
  <1>7. t.block = b /\ t.events = events
    BY <1>4 DEF Broadcast
  <1> HIDE DEF voted
  <1> HIDE DEF b, events
  <1>9. /\ CoreParts \subseteq DOMAIN d /\ d.chain = Append(k.chain, b)
        /\ d.history = Append(k.history, [proposal |-> p, events |-> events])
        /\ d.score = ImportEvents(k.score, events)
        /\ d.results = [k.results EXCEPT ![p] = status]
        /\ d.votes = voted.votes /\ d.proposals = voted.proposals
    <2> DEFINE s == Settle(voted, p, status, t.events)
    <2>1. d = [s EXCEPT !.chain = Append(@, t.block)]
      BY <1>8 DEF FinalizeProposal
    <2> HIDE DEF t
    <2>2. /\ CoreParts \subseteq DOMAIN s /\ s.chain = k.chain
          /\ s.history = Append(k.history, [proposal |-> p, events |-> events])
          /\ s.score = ImportEvents(k.score, events)
          /\ s.results = [k.results EXCEPT ![p] = status]
          /\ s.votes = voted.votes /\ s.proposals = voted.proposals
      BY <1>4, <1>7 DEF Settle, CoreParts
    <2> HIDE DEF s
    <2> QED BY <1>7, <2>1, <2>2 DEF CoreParts
  <1>10. Settles(k, d, b, events)
    BY <1>3, <1>4, <1>6, <1>9 DEF Settles, Entry
  <1>11. /\ CoreOK(d) /\ Len(d.chain) = Len(k.chain) + 1 /\ Begins(k.chain, d.chain)
         /\ d.chain[Len(k.chain) + 1] = b
    <2>1. CoreOK(k) /\ OnTop(k.chain, b) /\ Full(events) /\ Settles(k, d, b, events)
      BY <1>5, <1>6, <1>10
    <2> QED BY ONLY <2>1, SettledCore
  <1> QED BY <1>2, <1>6, <1>11 DEF OneMore

LEMMA DecideNode ==
    ASSUME NEW n, NodeShape(n), CoreOK(n.core), NEW p \in Proposal, ~Holds(n.core.chain, p),
           NEW ballot \in [Agent -> Decision], NEW m, m = Decide(n, p, ballot)
    PROVE  /\ NodeShape(m) /\ CoreOK(m.core) /\ OneMore(n.core.chain, m.core.chain, p)
           /\ m.ledger = n.ledger /\ m.registry = n.registry /\ m.artifacts = n.artifacts
           /\ ballot = AllSupport =>
                 m.core.chain[Len(n.core.chain) + 1].status = "accepted"
  <1> DEFINE d == Finalized(n.core, p, ballot)
  <1>1. /\ CoreOK(d) /\ OneMore(n.core.chain, d.chain, p)
        /\ ballot = AllSupport => d.chain[Len(n.core.chain) + 1].status = "accepted"
    BY FinalizedCore
  <1>2. m = [n EXCEPT !.core = d,
                      !.audit = @ \cup ProposalAudit(p, ballot, Cardinality(n.audit))]
    BY DEF Decide, Finalized
  <1> HIDE DEF d
  <1>3. /\ NodeParts \subseteq DOMAIN m /\ m.core = d /\ m.ledger = n.ledger
        /\ m.registry = n.registry /\ m.artifacts = n.artifacts
    BY <1>2 DEF NodeShape, NodeParts
  <1> QED BY <1>1, <1>3 DEF NodeShape

\* A new block, its reward, and the calls as they are then.
LEMMA BooksLonger ==
    ASSUME NEW x, NEW L, NEW calls, BooksOK(x, L, calls), NEW y, BlocksOK(y),
           NEW p \in Proposal, OneMore(x.chain, y.chain, p),
           NEW M, NoTransfer(L, M), Paid(M, y.chain),
           NEW later, Later(calls, later), later[p[1]] # "idle",
           p[2] = "approved" => later[p[1]] \notin Early
    PROVE  BooksOK(y, M, later)
  <1>1. BlocksOK(x) /\ LedgerOK(L) /\ LedgerOK(M) /\ Carried(L, x.chain)
    BY DEF BooksOK, NoTransfer, Grows
  <1>2. Carried(M, y.chain)
    BY <1>1, CarriedStays DEF OneMore
  <1>3. Known(M, x.chain, later)
    BY <1>1, KnownStays DEF BooksOK
  <1> DEFINE n == Len(x.chain)
  <1>4. /\ n \in Nat /\ DOMAIN x.chain = 1 .. n /\ DOMAIN y.chain = 1 .. n + 1
        /\ \A j \in 1 .. n : y.chain[j] = x.chain[j]
        /\ y.chain[n + 1].proposal = p
    BY DEF OneMore, Begins
  <1> HIDE DEF n
  <1>5. \A j \in 1 .. n + 1 : j = n + 1 \/ j \in 1 .. n
    BY <1>4
  <1>6. ASSUME NEW j \in DOMAIN y.chain, NEW q, q = y.chain[j].proposal
        PROVE  /\ later[q[1]] # "idle"
               /\ q[2] = "approved" => later[q[1]] \notin Early
    <2>1. CASE j = n + 1
      BY <1>4, <1>6, <2>1
    <2>2. CASE j \in 1 .. n
      BY <1>3, <1>4, <1>6, <2>2 DEF Known
    <2> QED BY <1>4, <1>5, <2>1, <2>2
  <1>7. Known(M, y.chain, later)
    BY <1>3, <1>6 DEF Known
  <1> QED BY <1>1, <1>2, <1>7 DEF BooksOK

LEMMA RewardNode ==
    ASSUME NEW n, NodeShape(n), CoreOK(n.core), LedgerOK(n.ledger),
           NEW chain, NEW p, OneMore(chain, n.core.chain, p), Paid(n.ledger, chain),
           NEW m, m = SettleValidationReward(n)
    PROVE  /\ NodeShape(m) /\ m.core = n.core /\ m.registry = n.registry
           /\ m.artifacts = n.artifacts
           /\ NoTransfer(n.ledger, m.ledger) /\ Paid(m.ledger, n.core.chain)
  <1> DEFINE block == LastBlock(n)
             id == BlockId(block)
             top == Len(chain) + 1
             paid == WithReward(n.ledger, id, block.height)
             o == [n EXCEPT !.ledger = paid]
             mark == <<"token.reward.issued", id>>
  <1>1. m = Audited(o, mark)
    BY DEF SettleValidationReward, WithReward
  <1>2. BlocksOK(n.core) /\ Len(n.core.chain) = top /\ top \in DOMAIN n.core.chain
    BY DEF CoreOK, OneMore, Begins
  <1>3. block = n.core.chain[top] /\ block.height = top
    BY <1>2 DEF LastBlock, BlocksOK
  <1>4. Top(chain, n.core.chain, top, id)
    BY <1>3 DEF Top
  <1>6. paid = WithReward(n.ledger, id, top)
    BY <1>3
  <1>7. NoTransfer(n.ledger, paid) /\ Paid(paid, n.core.chain)
    <2> HIDE DEF id, paid, block, top
    <2>1. /\ BlocksOK(n.core) /\ Top(chain, n.core.chain, top, id)
          /\ OneMore(chain, n.core.chain, p)
          /\ LedgerOK(n.ledger) /\ Paid(n.ledger, chain)
          /\ paid = WithReward(n.ledger, id, top)
      BY <1>2, <1>4, <1>6
    <2> QED BY ONLY <2>1, PaidTop
  <1>8. m.ledger = paid /\ m.core = n.core /\ m.registry = n.registry
        /\ m.artifacts = n.artifacts
    <2> HIDE DEF paid, mark
    <2> QED BY <1>1 DEF Audited, NodeShape, NodeParts
  <1>9. NodeShape(m)
    BY RewardBooks DEF KeepsBooks
  <1> HIDE DEF paid
  <1> QED BY <1>7, <1>8, <1>9 DEF NoTransfer

\* Decided and rewarded.
LEMMA DecidedNode ==
    ASSUME NEW n, NEW calls, NodeShape(n), NodeOK(n, calls), NEW p \in Proposal,
           ~Holds(n.core.chain, p), NEW ballot \in [Agent -> Decision],
           NEW later, Later(calls, later), later[p[1]] # "idle",
           p[2] = "approved" => later[p[1]] \notin Early,
           NEW m, m = SettleValidationReward(Decide(n, p, ballot))
    PROVE  /\ NodeShape(m) /\ NodeOK(m, later) /\ NoTransfer(n.ledger, m.ledger)
           /\ OneMore(n.core.chain, m.core.chain, p)
           /\ ballot = AllSupport =>
                 m.core.chain[Len(n.core.chain) + 1].status = "accepted"
  <1> DEFINE d == Decide(n, p, ballot)
  <1>1. CoreOK(n.core) /\ BooksOK(n.core, n.ledger, calls) /\ LedgerOK(n.ledger)
        /\ Paid(n.ledger, n.core.chain) /\ n.registry \subseteq Call
        /\ n.artifacts \subseteq Call
    BY DEF NodeOK, BooksOK
  <1>2. /\ NodeShape(d) /\ CoreOK(d.core) /\ OneMore(n.core.chain, d.core.chain, p)
        /\ d.ledger = n.ledger /\ d.registry = n.registry /\ d.artifacts = n.artifacts
        /\ ballot = AllSupport => d.core.chain[Len(n.core.chain) + 1].status = "accepted"
    BY <1>1, DecideNode
  <1>3. m = SettleValidationReward(d)
    OBVIOUS
  <1> HIDE DEF d
  <1>4. LedgerOK(d.ledger) /\ Paid(d.ledger, n.core.chain)
    BY <1>1, <1>2
  <1>5. /\ NodeShape(m) /\ m.core = d.core /\ m.registry = d.registry
        /\ m.artifacts = d.artifacts
        /\ NoTransfer(d.ledger, m.ledger) /\ Paid(m.ledger, d.core.chain)
    BY <1>2, <1>3, <1>4, RewardNode
  <1>6. NoTransfer(n.ledger, m.ledger) /\ Paid(m.ledger, d.core.chain) /\ BlocksOK(d.core)
    BY <1>2, <1>5 DEF CoreOK
  <1>7. BooksOK(d.core, m.ledger, later)
    BY <1>1, <1>2, <1>6, BooksLonger
  <1> QED BY <1>1, <1>2, <1>5, <1>6, <1>7 DEF NodeOK

\* What every call that goes on past its vote finds: an accepted block of its own.
Approved(n, c) ==
    \E j \in DOMAIN n.core.chain :
        n.core.chain[j].proposal[1] = c /\ n.core.chain[j].status = "accepted"

\* Of the chain and the journal of n nothing is taken back.
GoesOn(n, m) == Begins(n.core.chain, m.core.chain) /\ Grows(n.ledger, m.ledger)

LEMMA ForcedNode ==
    ASSUME NEW n, NEW calls, NodeShape(n), NodeOK(n, calls), NEW c \in Call,
           calls[c] \in Early, NEW later, Later(calls, later),
           later[c] \notin Early, NEW m, m = ForceAccepted(n, c)
    PROVE  /\ NodeShape(m) /\ NodeOK(m, later) /\ NoTransfer(n.ledger, m.ledger)
           /\ Approved(m, c) /\ Begins(n.core.chain, m.core.chain)
  <1> DEFINE v == <<c, "vote">>
             p == <<c, "approved">>
  <1>1. /\ v \in Proposal /\ p \in Proposal /\ p[1] = c /\ p[2] = "approved" /\ v[1] = c
    BY NetworkAssumption DEF Lane
  <1> HIDE DEF v, p
  <1>2. CoreOK(n.core) /\ BooksOK(n.core, n.ledger, calls) /\ BlocksOK(n.core)
        /\ LedgerOK(n.ledger)
    BY DEF NodeOK, CoreOK, BooksOK
  <1>3. CASE n.core.results[v] = "accepted"
    <2>1. m = n
      BY <1>3 DEF ForceAccepted, v
    <2>2. PICK j \in DOMAIN n.core.chain : n.core.chain[j].proposal = v
      BY <1>1, <1>2, <1>3 DEF CoreOK, Holds
    <2>3. n.core.chain[j].status = "accepted"
      BY <1>2, <1>3, <2>2 DEF CoreOK
    <2>4. Approved(m, c)
      BY <1>1, <2>1, <2>2, <2>3 DEF Approved
    <2>5. NoTransfer(n.ledger, n.ledger)
      BY <1>2, SilentSelf, SilentAddsNone
    <2>6. NodeOK(n, later)
      BY <1>2, BooksLater DEF NodeOK
    <2>7. Begins(n.core.chain, n.core.chain)
      BY <1>2, BlockFacts DEF Begins
    <2> QED BY <2>1, <2>4, <2>5, <2>6, <2>7
  <1>4. CASE n.core.results[v] # "accepted"
    <2>1. m = SettleValidationReward(Decide(n, p, AllSupport))
      BY <1>4 DEF ForceAccepted, v, p
    <2>2. ~Holds(n.core.chain, p)
      BY <1>1, <1>2 DEF BooksOK, Known, Holds
    <2>3. AllSupport \in [Agent -> Decision]
      BY <1>2, CoreScores, SupportedByAll
    <2>4. later[p[1]] # "idle" /\ later[p[1]] \notin Early
      BY <1>1 DEF Early
    <2>5. /\ NodeShape(m) /\ NodeOK(m, later) /\ NoTransfer(n.ledger, m.ledger)
          /\ OneMore(n.core.chain, m.core.chain, p)
          /\ m.core.chain[Len(n.core.chain) + 1].status = "accepted"
      BY <1>1, <2>1, <2>2, <2>3, <2>4, DecidedNode
    <2>6. Len(n.core.chain) + 1 \in DOMAIN m.core.chain
          /\ m.core.chain[Len(n.core.chain) + 1].proposal = p
      BY <2>5 DEF OneMore, Begins
    <2>7. Approved(m, c)
      BY <1>1, <2>5, <2>6 DEF Approved
    <2> QED BY <2>5, <2>7 DEF OneMore
  <1> QED BY <1>3, <1>4

-----------------------------------------------------------------------------
(* Transfers *)

\* The arguments of a transfer, on the strength of a block.
TransferOK(t) ==
    /\ t.from \in Agent /\ t.to \in Agent /\ t.validator \in Agent
    /\ t.amount \in Nat /\ t.height \in Nat \ {0} /\ t.memoBytes = 0

LEMMA TransferBooks ==
    ASSUME NEW x, NEW L, NEW calls, BooksOK(x, L, calls), NEW t, TransferOK(t),
           Token!TransferAllowed(L, t), NEW M, M = Token!Transfer(L, t),
           NEW j \in DOMAIN x.chain, x.chain[j].status = "accepted",
           t.ref = BlockId(x.chain[j]),
           \A i \in Of(L, "transfer") : L.events[i].ref # t.ref,
           calls[x.chain[j].proposal[1]] \in Spent
    PROVE  /\ BooksOK(x, M, calls) /\ Grows(L, M)
           /\ \E i \in Of(M, "transfer") : M.events[i].ref = t.ref
  <1> DEFINE n == Len(L.events)
             e == M.events[n + 1]
  <1>1. BlocksOK(x) /\ LedgerOK(L) /\ Paid(L, x.chain) /\ Carried(L, x.chain)
        /\ Known(L, x.chain, calls)
    BY DEF BooksOK
  <1>2. /\ Grows(L, M) /\ M.nonce[t.from] = L.nonce[t.from] + 1
        /\ Len(M.events) = n + 2
        /\ e.kind = "transfer" /\ e.ref = t.ref /\ e.from = t.from
        /\ e.nonce = L.nonce[t.from]
        /\ M.events[n + 2].kind = "fee_settlement"
    BY <1>1, TransferLedger DEF TransferOK
  <1>3. /\ LedgerOK(M) /\ DOMAIN L.events = 1 .. n /\ n \in Nat
        /\ \A i \in DOMAIN L.events : M.events[i] = L.events[i]
    BY <1>1, <1>2, GrowthFacts, LedgerFacts
  <1>4. DOMAIN M.events = 1 .. n + 2
    BY <1>2, <1>3, LedgerFacts
  <1> HIDE DEF n
  <1>5. /\ \A i \in 1 .. n + 2 : i \in 1 .. n \/ i = n + 1 \/ i = n + 2
        /\ \A i \in 1 .. n : i \in 1 .. n + 2 /\ i # n + 1
        /\ n + 1 \in 1 .. n + 2
    BY <1>3
  <1>6. Of(M, "reward") = Of(L, "reward")
    BY <1>2, <1>3, <1>4, <1>5 DEF Of
  <1>7. Of(M, "transfer") = Of(L, "transfer") \cup {n + 1}
    BY <1>2, <1>3, <1>4, <1>5 DEF Of
  <1>8. \A i \in Of(L, "transfer") : i # n + 1 /\ M.events[i] = L.events[i]
    BY <1>3, <1>5 DEF Of
  <1>9. Paid(M, x.chain)
    BY <1>1, <1>2, <1>6, PaidStays
  <1>10. \A a \in Agent : L.nonce[a] \in Nat /\ M.nonce[a] \in Nat /\ M.nonce[a] >= L.nonce[a]
    BY <1>1, <1>2, <1>3, LedgerFacts, AccountFacts DEF Grows
  <1>11. \A i \in Of(L, "transfer") :
            /\ \E k \in DOMAIN x.chain : /\ L.events[i].ref = BlockId(x.chain[k])
                                         /\ x.chain[k].status = "accepted"
            /\ L.events[i].from \in Agent
            /\ L.events[i].nonce \in 0 .. L.nonce[L.events[i].from] - 1
    BY <1>1 DEF Carried
  <1>12. ASSUME NEW i \in Of(M, "transfer")
         PROVE  /\ \E k \in DOMAIN x.chain : /\ M.events[i].ref = BlockId(x.chain[k])
                                             /\ x.chain[k].status = "accepted"
                /\ M.events[i].from \in Agent
                /\ M.events[i].nonce \in 0 .. M.nonce[M.events[i].from] - 1
    <2>1. CASE i = n + 1
      <3>1. M.events[i] = e
        BY <2>1
      <3>2. e.from \in Agent /\ e.ref = BlockId(x.chain[j])
        BY <1>2 DEF TransferOK
      <3>3. e.nonce \in 0 .. M.nonce[e.from] - 1
        BY <1>2, <1>10 DEF TransferOK
      <3> HIDE DEF e
      <3> QED BY <3>1, <3>2, <3>3
    <2>2. CASE i \in Of(L, "transfer")
      <3> DEFINE f == L.events[i]
      <3>1. M.events[i] = f
        BY <1>8, <2>2
      <3>2. /\ \E k \in DOMAIN x.chain : /\ f.ref = BlockId(x.chain[k])
                                         /\ x.chain[k].status = "accepted"
            /\ f.from \in Agent /\ f.nonce \in 0 .. L.nonce[f.from] - 1
        BY <1>11, <2>2
      <3> HIDE DEF f
      <3>3. f.nonce \in 0 .. M.nonce[f.from] - 1
        BY <1>10, <3>2
      <3> QED BY <3>1, <3>2, <3>3
    <2> QED BY <1>7, <2>1, <2>2
  <1>13. ASSUME NEW i \in Of(L, "transfer")
         PROVE  /\ L.events[i].ref # e.ref
                /\ ~(L.events[i].from = e.from /\ L.events[i].nonce = e.nonce)
    BY <1>2, <1>10, <1>11
  <1>14. \A i, k \in Of(L, "transfer") :
          \/ L.events[i].ref = L.events[k].ref
          \/ L.events[i].from = L.events[k].from /\ L.events[i].nonce = L.events[k].nonce
          => i = k
    BY <1>1 DEF Carried
  <1> DEFINE Same(f, g) == f.ref = g.ref \/ (f.from = g.from /\ f.nonce = g.nonce)
  <1>15. \A i \in Of(L, "transfer") : ~Same(L.events[i], e) /\ ~Same(e, L.events[i])
    BY <1>13
  <1>16. \A i, k \in Of(L, "transfer") : Same(L.events[i], L.events[k]) => i = k
    BY <1>14
  <1> HIDE DEF Same
  <1>17. \A i, k \in Of(M, "transfer") : Same(M.events[i], M.events[k]) => i = k
    BY <1>7, <1>8, <1>15, <1>16
  <1>18. Carried(M, x.chain)
    BY <1>12, <1>17 DEF Carried, Same
  <1>19. ASSUME NEW i \in Of(M, "transfer") PROVE calls[M.events[i].ref[1][1]] \in Spent
    <2>1. CASE i = n + 1
      <3>1. M.events[i].ref[1][1] = x.chain[j].proposal[1]
        BY <1>2, <2>1 DEF BlockId
      <3> QED BY <3>1
    <2>2. CASE i \in Of(L, "transfer")
      BY <1>1, <1>8, <2>2 DEF Known
    <2> QED BY <1>7, <2>1, <2>2
  <1>20. Known(M, x.chain, calls)
    BY <1>1, <1>19 DEF Known
  <1>21. \E i \in Of(M, "transfer") : M.events[i].ref = t.ref
    BY <1>2, <1>7
  <1> QED BY <1>1, <1>2, <1>3, <1>9, <1>18, <1>20, <1>21 DEF BooksOK

\* The block a transfer refers to.
LEMMA Carrier ==
    ASSUME NEW n, CoreOK(n.core), NEW c, Approved(n, c)
    PROVE  \E j \in DOMAIN n.core.chain :
              /\ CarrierOf(n, c) = n.core.chain[j] /\ n.core.chain[j].proposal[1] = c
              /\ n.core.chain[j].status = "accepted" /\ n.core.chain[j].height \in Nat \ {0}
  <1> DEFINE B == {n.core.chain[i] : i \in DOMAIN n.core.chain}
             b == CarrierOf(n, c)
  <1>1. \E d \in B : d.proposal[1] = c /\ d.status = "accepted"
    BY DEF Approved
  <1>2. b \in B /\ b.proposal[1] = c /\ b.status = "accepted"
    BY <1>1 DEF CarrierOf
  <1>3. PICK j \in DOMAIN n.core.chain : b = n.core.chain[j]
    BY <1>2
  <1>4. n.core.chain[j].height = j /\ j \in Nat \ {0}
    <2>1. BlocksOK(n.core)
      BY DEF CoreOK
    <2>2. Len(n.core.chain) \in Nat /\ DOMAIN n.core.chain = 1 .. Len(n.core.chain)
      BY <2>1, BlockFacts
    <2>3. n.core.chain[j].height = j
      BY <2>1 DEF BlocksOK
    <2> QED BY <2>2, <2>3
  <1> QED BY <1>2, <1>3, <1>4

RequestOK(c) ==
    LET r == Request[c]
    IN  /\ r.kind \in Kind
        /\ r.kind \in {"transfer", "bridge"} => r.from \in Agent /\ r.amount \in Nat
        /\ r.kind = "transfer" => r.to \in Agent

LEMMA RequestTyped ==
    ASSUME ShapeInv, NEW c \in DOMAIN Request PROVE RequestOK(c)
  <1>1. scenario \in Scenario
    BY DEF ShapeInv
  <1>2. \A d \in DOMAIN scenario.request :
           LET r == scenario.request[d]
           IN  /\ r.kind \in Kind
               /\ r.kind \in {"transfer", "bridge"} => r.from \in Agent /\ r.amount \in Nat
               /\ r.kind = "transfer" => r.to \in Agent
    BY <1>1, NetworkAssumption
  <1> QED BY <1>2 DEF RequestOK, Request

LEMMA TransferOfTyped ==
    ASSUME ShapeInv, NEW c \in DOMAIN Request, Request[c].kind = "transfer",
           NEW n, CoreOK(n.core), Approved(n, c), NEW t, t = TransferOf(n, c)
    PROVE  /\ TransferOK(t)
           /\ \E j \in DOMAIN n.core.chain :
                 /\ t.ref = BlockId(n.core.chain[j]) /\ n.core.chain[j].proposal[1] = c
                 /\ n.core.chain[j].status = "accepted"
  <1>1. PICK j \in DOMAIN n.core.chain :
           /\ CarrierOf(n, c) = n.core.chain[j] /\ n.core.chain[j].proposal[1] = c
           /\ n.core.chain[j].status = "accepted" /\ n.core.chain[j].height \in Nat \ {0}
    BY Carrier
  <1>2. /\ t.from = Request[c].from /\ t.to = Request[c].to /\ t.amount = Request[c].amount
        /\ t.validator = Coordinator /\ t.ref = BlockId(CarrierOf(n, c))
        /\ t.height = CarrierOf(n, c).height /\ t.memoBytes = 0
    BY DEF TransferOf
  <1>3. Request[c].from \in Agent /\ Request[c].to \in Agent /\ Request[c].amount \in Nat
    BY RequestTyped DEF RequestOK
  <1> QED BY <1>1, <1>2, <1>3, AccountFacts DEF TransferOK

-----------------------------------------------------------------------------
(* Calls *)

LEMMA SnapLater ==
    ASSUME NEW s, NEW calls, SnapOK(s, calls), NEW later, Later(calls, later)
    PROVE  SnapOK(s, later)
  <1>1. s # None => BooksOK(s, s.ledger, later)
    BY BooksLater DEF SnapOK
  <1> QED BY <1>1 DEF SnapOK

\* What names the same parts says the same of the blocks.
LEMMA SameBlocks ==
    ASSUME NEW x, BlocksOK(x), NEW y, y.proposals \subseteq Proposal, y.chain = x.chain,
           y.history = x.history, y.score = x.score
    PROVE  BlocksOK(y)
  BY DEF BlocksOK

LEMMA SnapshotOK ==
    ASSUME NEW n, NEW calls, NodeOK(n, calls), Started(n.ledger)
    PROVE  SnapOK(Snapshot(n), calls)
  <1> DEFINE s == Snapshot(n)
  <1>1. /\ {"proposals", "chain", "history", "score", "ledger", "runs"} \subseteq DOMAIN s
        /\ s.proposals = n.core.proposals /\ s.chain = n.core.chain
        /\ s.history = n.core.history /\ s.score = n.core.score /\ s.ledger = n.ledger
        /\ s.runs \in {n.artifacts, n.registry}
    BY DEF Snapshot
  <1> HIDE DEF s
  <1>2. BlocksOK(n.core) /\ BooksOK(n.core, n.ledger, calls)
        /\ n.registry \subseteq Call /\ n.artifacts \subseteq Call
    BY DEF NodeOK, CoreOK
  <1>3. BlocksOK(s)
    <2>1. s.proposals \subseteq Proposal
      BY <1>1, <1>2 DEF BlocksOK
    <2> QED BY <1>1, <1>2, <2>1, SameBlocks
  <1>4. BooksOK(s, s.ledger, calls)
    BY <1>1, <1>2, <1>3 DEF BooksOK
  <1> QED BY <1>1, <1>2, <1>4 DEF SnapOK, s

\* A call only moves on.
MovesOn(from, to) ==
    /\ to \in CallState \ {"idle"}
    /\ from \notin Early => to \notin Early
    /\ from \in Spent => to \in Spent

LEMMA AdvanceLater ==
    ASSUME ShapeInv, CoreInv, NEW c \in DOMAIN Request, Advances(c),
           MovesOn(call[c], call'[c])
    PROVE  Later(call, call') /\ call' \in [Call -> CallState]
  <1>1. c \in Call /\ call \in [Call -> CallState]
    BY CallIsSaver DEF CoreInv
  <1>2. call' = [call EXCEPT ![c] = call'[c]] /\ call'[c] \in CallState
    BY DEF Advances, MovesOn
  <1>3. call' \in [Call -> CallState]
    BY <1>1, <1>2
  <1>4. \A d \in Call \ {c} : call'[d] = call[d]
    BY <1>1, <1>2
  <1> QED BY <1>3, <1>4 DEF Later, MovesOn

\* The form the steps of calls have.
LEMMA CallCore ==
    ASSUME ShapeInv, CoreInv, NEW c \in DOMAIN Request, Advances(c),
           MovesOn(call[c], call'[c]),
           NodeOK(net', call'), GoesOn(net, net'),
           pending'[c] = None \/ pending'[c] = Snapshot(net'),
           LedgerOK(replica'), \A fee \in gossip' \ gossip : FeeOK(fee),
           call'[c] = "executing" => Request[c].kind = "bridge"
    PROVE  CoreInv' /\ GoesOn(net, net')
  <1>1. c \in Call /\ c \in Saver
    BY CallIsSaver
  <1>2. Later(call, call') /\ call' \in [Call -> CallState]
    BY AdvanceLater
  <1>3. phase = "up" /\ UNCHANGED <<phase, db, mirror, scenario>>
    BY DEF Advances, store, control
  <1>4. Started(net'.ledger)
    BY <1>3 DEF CoreInv, GoesOn, Grows
  <1>5. SnapOK(db', call') /\ SnapOK(mirror', call')
    BY <1>2, <1>3, SnapLater DEF CoreInv
  <1>6. ASSUME NEW s \in Saver PROVE SnapOK(pending'[s], call')
    <2>1. CASE s = c
      <3>1. SnapOK(None, call')
        BY DEF SnapOK
      <3> QED BY <1>4, <2>1, <3>1, SnapshotOK
    <2>2. CASE s # c
      <3>1. pending'[s] = pending[s]
        BY <1>1, <2>2 DEF ShapeInv, Advances
      <3> QED BY <1>2, <3>1, SnapLater DEF CoreInv
    <2> QED BY <2>1, <2>2
  <1>7. \A fee \in gossip' : FeeOK(fee)
    BY DEF CoreInv
  <1>8. Bridging'
    <2>1. \A d \in Call \ {c} : call'[d] = call[d]
      BY <1>1 DEF Advances, ShapeInv
    <2>2. DOMAIN Request \subseteq Call
      BY NetworkAssumption DEF ShapeInv, Request
    <2>3. Request' = Request
      BY <1>3 DEF Request
    <2> QED BY <2>1, <2>2, <2>3 DEF CoreInv, Bridging
  <1>9. /\ NodeOK(net, call)'
        /\ SnapOK(db, call)' /\ SnapOK(mirror, call)'
        /\ \A s \in Saver : SnapOK(pending[s], call)'
    BY <1>5, <1>6
  <1>10. Started(net.ledger)' /\ LedgerOK(replica)'
    BY <1>4
  <1> QED BY ONLY <1>2, <1>7, <1>8, <1>9, <1>10, GoesOn(net, net') DEF CoreInv

\* Nodes that differ from an earlier one in a ledger and in their reports.
LEMMA NodeStays ==
    ASSUME NEW n, NEW calls, NodeOK(n, calls), NEW later, Later(calls, later), NEW m,
           m.core = n.core, Silent(n.ledger, m.ledger),
           m.registry \subseteq Call, m.artifacts \subseteq Call
    PROVE  NodeOK(m, later) /\ Grows(n.ledger, m.ledger)
  <1>1. BooksOK(n.core, n.ledger, calls) /\ CoreOK(n.core)
    BY DEF NodeOK
  <1>2. BooksOK(n.core, m.ledger, later)
    BY <1>1, BooksStay
  <1> QED BY <1>1, <1>2 DEF NodeOK, Silent

LEMMA GrowsTransitive ==
    ASSUME NEW L, LedgerOK(L), NEW M, NEW N, Grows(L, M), Grows(M, N)
    PROVE  Grows(L, N)
  <1>1. LedgerOK(M) /\ LedgerOK(N) /\ Begins(L.events, M.events) /\ Begins(M.events, N.events)
    BY DEF Grows
  <1>2. Begins(L.events, N.events)
    BY <1>1 DEF Begins
  <1>3. ASSUME NEW a \in Token!Account PROVE N.nonce[a] >= L.nonce[a]
    <2>1. L.nonce[a] \in Nat /\ M.nonce[a] \in Nat /\ N.nonce[a] \in Nat
      BY <1>1, LedgerFacts
    <2>2. M.nonce[a] >= L.nonce[a] /\ N.nonce[a] >= M.nonce[a]
      BY DEF Grows
    <2> QED BY <2>1, <2>2
  <1>4. N.minted >= L.minted
    <2>1. L.minted \in Nat /\ M.minted \in Nat /\ N.minted \in Nat
      BY <1>1, LedgerFacts
    <2>2. M.minted >= L.minted /\ N.minted >= M.minted
      BY DEF Grows
    <2> QED BY <2>1, <2>2
  <1> QED BY <1>1, <1>2, <1>3, <1>4 DEF Grows

LEMMA AuditedNode ==
    ASSUME NEW n, NodeShape(n), NEW L, NEW id, NEW m, m = Audited([n EXCEPT !.ledger = L], id)
    PROVE  /\ m.core = n.core /\ m.ledger = L /\ m.registry = n.registry
           /\ m.artifacts = n.artifacts
  BY DEF Audited, NodeShape, NodeParts

LEMMA SubmitCore ==
    ASSUME ShapeInv, FollowInv, CoreInv, NEW c \in DOMAIN Request, SubmitCall(c)
    PROVE  CoreInv' /\ GoesOn(net, net') /\ Holds(net'.core.chain, <<c, "vote">>)
  <1>1. c \in Call /\ c \in Saver /\ Advances(c)
    BY CallIsSaver, CallAdvances
  <1>2. call[c] = "idle" /\ call'[c] = "deciding"
    BY <1>1 DEF SubmitCall, Step, CoreInv
  <1>3. MovesOn(call[c], call'[c])
    BY <1>2 DEF MovesOn, CallState, Early, Spent
  <1>4. Later(call, call')
    BY <1>1, <1>3, AdvanceLater
  <1>5. PICK ballot \in Ballots :
           net' = SettleValidationReward(Decide(net, <<c, "vote">>, ballot))
    BY DEF SubmitCall
  <1> DEFINE p == <<c, "vote">>
  <1>6. p \in Proposal /\ p[1] = c /\ p[2] = "vote" /\ ballot \in [Agent -> Decision]
    BY <1>1, NetworkAssumption DEF Lane
  <1>7. net' = SettleValidationReward(Decide(net, p, ballot))
    BY <1>5
  <1> HIDE DEF p
  <1>8. NodeShape(net) /\ NodeOK(net, call) /\ LedgerOK(net.ledger)
    BY DEF FollowInv, CoreInv, NodeOK, BooksOK
  <1>9. ~Holds(net.core.chain, p)
    BY <1>2, <1>6, <1>8 DEF NodeOK, BooksOK, Known, Holds
  <1>10. call'[p[1]] # "idle" /\ (p[2] = "approved" => call'[p[1]] \notin Early)
    BY <1>2, <1>6
  <1>11. /\ NodeOK(net', call') /\ NoTransfer(net.ledger, net'.ledger)
         /\ OneMore(net.core.chain, net'.core.chain, p)
    BY <1>4, <1>6, <1>7, <1>8, <1>9, <1>10, DecidedNode
  <1>12. GoesOn(net, net') /\ LedgerOK(net'.ledger)
    BY <1>11 DEF NoTransfer, Grows, GoesOn, OneMore
  <1>13. replica' = net'.ledger /\ gossip' = gossip /\ StartSave(c, net')
    BY DEF SubmitCall
  <1>14. pending'[c] = Snapshot(net')
    BY <1>1, <1>13 DEF StartSave, ShapeInv
  <1>15. Holds(net'.core.chain, p)
    BY <1>11 DEF OneMore, Begins, Holds
  <1>16. CoreInv'
    BY <1>1, <1>2, <1>3, <1>11, <1>12, <1>13, <1>14, CallCore
  <1> QED BY <1>12, <1>15, <1>16 DEF p

\* The transfer of a call is in the journal.
Moved(L, c) ==
    \E i \in DOMAIN L.events :
        L.events[i].kind = "transfer" /\ L.events[i].ref[1][1] = c

LEMMA SettleCore ==
    ASSUME ShapeInv, FollowInv, CoreInv, NEW c \in DOMAIN Request, SettleTransfer(c)
    PROVE  CoreInv' /\ GoesOn(net, net') /\ Moved(net'.ledger, c)
  <1> DEFINE n == ForceAccepted(net, c)
             t == TransferOf(n, c)
             M == Token!Transfer(n.ledger, t)
             id == <<"token.transfer.settled", t.ref>>
  <1>1. c \in Call /\ c \in Saver /\ Advances(c)
    BY CallIsSaver, CallAdvances
  <1>2. call[c] = "decided" /\ call'[c] = "settling"
    BY <1>1 DEF SettleTransfer, Step, CoreInv
  <1>3. MovesOn(call[c], call'[c]) /\ call[c] \in Early /\ call[c] \notin Spent
        /\ call'[c] \notin Early /\ call'[c] \in Spent
    BY <1>2 DEF MovesOn, CallState, Early, Spent
  <1>4. Later(call, call')
    BY <1>1, <1>3, AdvanceLater
  <1>5. NodeShape(net) /\ NodeOK(net, call) /\ LedgerOK(net.ledger)
        /\ BlocksOK(net.core) /\ Carried(net.ledger, net.core.chain)
        /\ Known(net.ledger, net.core.chain, call)
    BY DEF FollowInv, CoreInv, NodeOK, BooksOK
  <1>6. /\ Request[c].kind = "transfer" /\ Token!TransferAllowed(n.ledger, t)
        /\ net' = Audited([n EXCEPT !.ledger = M], id) /\ replica' = net'.ledger
        /\ StartSave(c, net') /\ gossip' = gossip
    BY DEF SettleTransfer
  <1> HIDE DEF id
  <1>7. t = TransferOf(n, c) /\ M = Token!Transfer(n.ledger, t)
    OBVIOUS
  <1> HIDE DEF M, t
  <1>8. /\ NodeShape(n) /\ NodeOK(n, call') /\ NoTransfer(net.ledger, n.ledger)
        /\ Approved(n, c) /\ Begins(net.core.chain, n.core.chain)
    BY <1>1, <1>3, <1>4, <1>5, ForcedNode
  <1> HIDE DEF n
  <1>9. /\ CoreOK(n.core) /\ BooksOK(n.core, n.ledger, call') /\ n.registry \subseteq Call
        /\ n.artifacts \subseteq Call
    BY <1>8 DEF NodeOK
  <1>10. TransferOK(t)
    BY <1>6, <1>7, <1>8, <1>9, TransferOfTyped
  <1>11. PICK j \in DOMAIN n.core.chain :
            /\ t.ref = BlockId(n.core.chain[j]) /\ n.core.chain[j].proposal[1] = c
            /\ n.core.chain[j].status = "accepted"
    BY <1>6, <1>7, <1>8, <1>9, TransferOfTyped
  <1>12. \A i \in Of(n.ledger, "transfer") : n.ledger.events[i].ref # t.ref
    <2>1. t.ref[1][1] = c
      BY <1>11 DEF BlockId
    <2>2. \A i \in Of(n.ledger, "transfer") :
             i \in Of(net.ledger, "transfer") /\ n.ledger.events[i] = net.ledger.events[i]
      BY <1>5, <1>8, SameTransfers
    <2>3. \A i \in Of(net.ledger, "transfer") : call[net.ledger.events[i].ref[1][1]] \in Spent
      BY <1>5 DEF Known
    <2> QED BY <1>3, <2>1, <2>2, <2>3
  <1>13. /\ BooksOK(n.core, M, call') /\ Grows(n.ledger, M)
         /\ \E i \in Of(M, "transfer") : M.events[i].ref = t.ref
    BY <1>3, <1>6, <1>7, <1>9, <1>10, <1>11, <1>12, TransferBooks
  <1>14. /\ net'.core = n.core /\ net'.ledger = M /\ net'.registry = n.registry
         /\ net'.artifacts = n.artifacts
    BY <1>6, <1>8, AuditedNode
  <1>15. NodeOK(net', call')
    BY <1>9, <1>13, <1>14 DEF NodeOK
  <1>16. Grows(net.ledger, net'.ledger) /\ GoesOn(net, net')
    <2>1. Grows(net.ledger, net'.ledger)
      BY <1>5, <1>8, <1>13, <1>14, GrowsTransitive DEF NoTransfer
    <2> QED BY <1>8, <1>14, <2>1 DEF GoesOn
  <1>17. pending'[c] = Snapshot(net')
    BY <1>1, <1>6 DEF StartSave, ShapeInv
  <1>18. LedgerOK(replica') /\ \A fee \in gossip' \ gossip : FeeOK(fee)
    BY <1>6, <1>16 DEF Grows
  <1>19. Moved(net'.ledger, c)
    BY <1>11, <1>13, <1>14 DEF Moved, Of, BlockId
  <1>20. CoreInv'
    BY <1>1, <1>2, <1>3, <1>15, <1>16, <1>17, <1>18, CallCore
  <1> QED BY <1>16, <1>19, <1>20

LEMMA RefuseTransferCore ==
    ASSUME ShapeInv, FollowInv, CoreInv, NEW c \in DOMAIN Request, RefuseTransfer(c)
    PROVE  CoreInv' /\ GoesOn(net, net')
  <1> DEFINE n == ForceAccepted(net, c)
             owners == Token!TransferOwners(TransferOf(n, c))
             L == Token!Ensure(n.ledger, owners)
  <1>1. c \in Call /\ Advances(c)
    BY CallIsSaver, CallAdvances
  <1>2. call[c] = "decided" /\ call'[c] = "failed"
    BY <1>1 DEF RefuseTransfer, Step, CoreInv
  <1>3. MovesOn(call[c], call'[c]) /\ call[c] \in Early /\ call'[c] \notin Early
    BY <1>2 DEF MovesOn, CallState, Early, Spent
  <1>4. Later(call, call')
    BY <1>1, <1>3, AdvanceLater
  <1>5. NodeShape(net) /\ NodeOK(net, call) /\ LedgerOK(net.ledger) /\ LedgerOK(replica)
    BY DEF FollowInv, CoreInv, NodeOK, BooksOK
  <1>6. /\ net' = [n EXCEPT !.ledger = L]
        /\ replica' \in {replica, n.ledger} /\ gossip' = gossip /\ pending' = pending
    BY DEF RefuseTransfer
  <1> HIDE DEF owners
  <1>7. L = Token!Ensure(n.ledger, owners)
    OBVIOUS
  <1> HIDE DEF L
  <1>8. /\ NodeShape(n) /\ NodeOK(n, call') /\ NoTransfer(net.ledger, n.ledger)
        /\ Begins(net.core.chain, n.core.chain)
    BY <1>1, <1>3, <1>4, <1>5, ForcedNode
  <1> HIDE DEF n
  <1>9. LedgerOK(n.ledger) /\ Grows(net.ledger, n.ledger)
    BY <1>8 DEF NoTransfer, Grows
  <1>10. Silent(n.ledger, L)
    BY <1>7, <1>9, EnsureLedger
  <1>11. /\ net'.core = n.core /\ net'.ledger = L /\ net'.registry = n.registry
         /\ net'.artifacts = n.artifacts
    BY <1>6, <1>8 DEF NodeShape, NodeParts
  <1>12. Later(call', call')
    BY LaterSelf
  <1>13. NodeOK(net', call') /\ Grows(n.ledger, net'.ledger)
    <2>1. net'.registry \subseteq Call /\ net'.artifacts \subseteq Call
      BY <1>8, <1>11 DEF NodeOK
    <2> QED BY <1>8, <1>10, <1>11, <1>12, <2>1, NodeStays
  <1>14. GoesOn(net, net')
    <2>1. Grows(net.ledger, net'.ledger)
      BY <1>5, <1>9, <1>13, GrowsTransitive
    <2> QED BY <1>8, <1>11, <2>1 DEF GoesOn
  <1>15. LedgerOK(replica') /\ \A fee \in gossip' \ gossip : FeeOK(fee)
    BY <1>5, <1>6, <1>9
  <1>16. pending'[c] = None
    BY <1>1, <1>6 DEF Advances
  <1> QED BY <1>1, <1>2, <1>3, <1>13, <1>14, <1>15, <1>16, CallCore

LEMMA ApproveCore ==
    ASSUME ShapeInv, FollowInv, CoreInv, NEW c \in DOMAIN Request, ApproveBridge(c)
    PROVE  CoreInv' /\ GoesOn(net, net')
  <1>1. c \in Call /\ Advances(c)
    BY CallIsSaver, CallAdvances
  <1>2. call[c] = "decided" /\ call'[c] = "executing" /\ Request[c].kind = "bridge"
    BY <1>1 DEF ApproveBridge, Step, CoreInv
  <1>3. MovesOn(call[c], call'[c]) /\ call[c] \in Early /\ call'[c] \notin Early
    BY <1>2 DEF MovesOn, CallState, Early, Spent
  <1>4. Later(call, call')
    BY <1>1, <1>3, AdvanceLater
  <1>5. NodeShape(net) /\ NodeOK(net, call) /\ LedgerOK(net.ledger) /\ LedgerOK(replica)
    BY DEF FollowInv, CoreInv, NodeOK, BooksOK
  <1>6. /\ net' = ForceAccepted(net, c) /\ replica' \in {replica, net'.ledger}
        /\ gossip' = gossip /\ pending' = pending
    BY DEF ApproveBridge
  <1>7. /\ NodeOK(net', call') /\ NoTransfer(net.ledger, net'.ledger)
        /\ Begins(net.core.chain, net'.core.chain)
    BY <1>1, <1>3, <1>4, <1>5, <1>6, ForcedNode
  <1>8. LedgerOK(net'.ledger) /\ GoesOn(net, net')
    BY <1>7 DEF NoTransfer, Grows, GoesOn
  <1>9. pending'[c] = None
    BY <1>1, <1>6 DEF Advances
  <1> QED BY <1>1, <1>2, <1>3, <1>5, <1>6, <1>7, <1>8, <1>9, CallCore

\* A call that changes nothing but a ledger and the reports.
LEMMA QuietCallCore ==
    ASSUME ShapeInv, CoreInv, NEW c \in DOMAIN Request, Advances(c),
           MovesOn(call[c], call'[c]), call'[c] # "executing",
           net'.core = net.core, Silent(net.ledger, net'.ledger),
           net'.registry \subseteq Call, net'.artifacts \subseteq Call,
           pending'[c] = None \/ pending'[c] = Snapshot(net'),
           LedgerOK(replica'), \A fee \in gossip' \ gossip : FeeOK(fee)
    PROVE  CoreInv' /\ GoesOn(net, net')
  <1>1. Later(call, call')
    BY AdvanceLater
  <1>2. NodeOK(net, call)
    BY DEF CoreInv
  <1>3. NodeOK(net', call') /\ Grows(net.ledger, net'.ledger)
    BY <1>1, <1>2, NodeStays
  <1>4. BlocksOK(net.core)
    BY <1>2 DEF NodeOK, CoreOK
  <1>5. Begins(net.core.chain, net.core.chain)
    BY <1>4, BlockFacts DEF Begins
  <1>6. GoesOn(net, net')
    BY <1>3, <1>5 DEF GoesOn
  <1> QED BY <1>3, <1>6, CallCore

LEMMA BridgeCore ==
    ASSUME ShapeInv, FollowInv, CoreInv, NEW c \in DOMAIN Request,
           UnknownAdapter(c) \/ ChargeBridge(c) \/ RefuseBridge(c) \/ FinishBridge(c)
    PROVE  CoreInv' /\ GoesOn(net, net')
  <1>1. c \in Call /\ c \in Saver /\ Advances(c)
    BY CallIsSaver, CallAdvances
  <1>2. /\ NodeShape(net) /\ NodeOK(net, call) /\ LedgerOK(net.ledger) /\ LedgerOK(replica)
        /\ net.registry \subseteq Call /\ net.artifacts \subseteq Call
    BY DEF FollowInv, CoreInv, NodeOK, BooksOK
  <1>3. ASSUME NEW from, NEW to, Step(c, from, to) PROVE call[c] = from /\ call'[c] = to
    <2>1. call[c] = from /\ call' = [call EXCEPT ![c] = to]
      BY <1>3 DEF Step
    <2>2. call \in [Call -> CallState]
      BY DEF CoreInv
    <2> QED BY <1>1, <2>1, <2>2
  <1>4. Silent(net.ledger, net.ledger)
    BY <1>2, SilentSelf
  <1>5. MovesOn("executing", "failed") /\ MovesOn("executing", "publishing")
        /\ MovesOn("publishing", "settling")
    BY DEF MovesOn, CallState, Early, Spent
  <1>6. pending' = pending => pending'[c] = None
    BY <1>1 DEF Advances
  <1>7. call[c] = "executing" => Request[c].from \in Agent /\ Request[c].amount \in Nat
    BY RequestTyped DEF CoreInv, Bridging, RequestOK
  <1> DEFINE payer == Request[c].from
             payee == BridgePayee(c)
             amount == Request[c].amount
  <1>8. call[c] = "executing" => payer \in Token!Account /\ payee \in Token!Account
    BY <1>7, AccountFacts DEF BridgePayee, Token!FeeCollector
  <1>9. /\ NodeParts \subseteq DOMAIN Reported(net, c)
        /\ Reported(net, c).core = net.core /\ Reported(net, c).ledger = net.ledger
        /\ Reported(net, c).registry = net.registry \cup {c}
        /\ Reported(net, c).artifacts = net.artifacts
    BY <1>2 DEF Reported, NodeShape, NodeParts
  <1> DEFINE m == Reported(net, c)
  <1> HIDE DEF m
  <1>10. /\ NodeParts \subseteq DOMAIN m /\ m.core = net.core /\ m.ledger = net.ledger
         /\ m.registry = net.registry \cup {c} /\ m.artifacts = net.artifacts
    BY <1>9 DEF m
  <1>11. CASE UnknownAdapter(c)
    <2>1. Step(c, "executing", "failed") /\ UNCHANGED <<net, replica, gossip, pending>>
      BY <1>11 DEF UnknownAdapter
    <2>2. call[c] = "executing" /\ call'[c] = "failed"
      BY <1>3, <2>1
    <2> QED BY <1>1, <1>2, <1>4, <1>5, <1>6, <2>1, <2>2, QuietCallCore
  <1>12. CASE ChargeBridge(c)
    <2> DEFINE fee == Token!FeeEvent(c, "bridge", payer, payee, amount)
               L == Token!PayFee(net.ledger, c, "bridge", payer, payee, amount)
    <2>1. fee.payer = payer /\ fee.payee = payee /\ fee.amount = amount
      BY DEF Token!FeeEvent
    <2>2. /\ Step(c, "executing", "publishing")
          /\ Token!FeeAllowed(net.ledger, fee.payer, fee.amount)
          /\ net' = [m EXCEPT !.artifacts = @ \cup {c},
                              !.ledger = Token!PayFee(@, c, "bridge", fee.payer, fee.payee,
                                                      fee.amount)]
          /\ gossip' = gossip \cup {fee} /\ UNCHANGED <<replica, pending>>
      BY <1>12 DEF ChargeBridge, m
    <2>3. call[c] = "executing" /\ call'[c] = "publishing"
      BY <1>3, <2>2
    <2>4. net' = [m EXCEPT !.artifacts = @ \cup {c}, !.ledger = L]
      BY <1>10, <2>1, <2>2
    <2>5. FeeOK(fee)
      BY <1>7, <1>8, <2>1, <2>3 DEF FeeOK
    <2>6. Token!FeeAllowed(net.ledger, payer, amount)
      BY <2>1, <2>2
    <2> HIDE DEF fee
    <2>7. L = Token!PayFee(net.ledger, c, "bridge", payer, payee, amount)
      OBVIOUS
    <2> HIDE DEF L
    <2>8. /\ payer \in Token!Account /\ payee \in Token!Account /\ amount \in Nat
      BY <1>7, <1>8, <2>3
    <2> HIDE DEF payer, payee, amount
    <2>9. Silent(net.ledger, L)
      BY <1>2, <2>6, <2>7, <2>8, PayFeeLedger
    <2>10. /\ net'.core = net.core /\ net'.ledger = L /\ net'.registry = net.registry \cup {c}
           /\ net'.artifacts = net.artifacts \cup {c}
      BY <1>10, <2>4 DEF NodeParts
    <2>11. net'.registry \subseteq Call /\ net'.artifacts \subseteq Call
      BY <1>1, <1>2, <2>10
    <2> QED BY <1>1, <1>2, <1>5, <1>6, <2>2, <2>3, <2>5, <2>9, <2>10, <2>11, QuietCallCore
  <1>13. CASE RefuseBridge(c)
    <2> DEFINE L == Token!Ensure(net.ledger, {payer, payee})
    <2>1. /\ Step(c, "executing", "failed")
          /\ net' = [m EXCEPT !.ledger = Token!Ensure(@, {payer, payee})]
          /\ UNCHANGED <<replica, gossip, pending>>
      BY <1>13 DEF RefuseBridge, m
    <2>2. call[c] = "executing" /\ call'[c] = "failed"
      BY <1>3, <2>1
    <2>3. net' = [m EXCEPT !.ledger = L]
      BY <1>10, <2>1
    <2>4. L = Token!Ensure(net.ledger, {payer, payee})
      OBVIOUS
    <2> HIDE DEF L, payer, payee
    <2>5. Silent(net.ledger, L)
      BY <1>2, <2>4, EnsureLedger
    <2>6. /\ net'.core = net.core /\ net'.ledger = L /\ net'.registry = net.registry \cup {c}
          /\ net'.artifacts = net.artifacts
      BY <1>10, <2>3 DEF NodeParts
    <2>7. net'.registry \subseteq Call /\ net'.artifacts \subseteq Call
      BY <1>1, <1>2, <2>6
    <2> QED BY <1>1, <1>2, <1>5, <1>6, <2>1, <2>2, <2>5, <2>6, <2>7, QuietCallCore
  <1>14. CASE FinishBridge(c)
    <2> DEFINE id == <<"token.fee.bridge", c>>
    <2>1. /\ Step(c, "publishing", "settling") /\ net' = Audited(net, id)
          /\ replica' = net.ledger /\ StartSave(c, net') /\ gossip' = gossip
      BY <1>14 DEF FinishBridge
    <2>2. call[c] = "publishing" /\ call'[c] = "settling"
      BY <1>3, <2>1
    <2> HIDE DEF id
    <2>3. /\ net'.core = net.core /\ net'.ledger = net.ledger
          /\ net'.registry = net.registry /\ net'.artifacts = net.artifacts
      BY <1>2, <2>1 DEF Audited, NodeShape, NodeParts
    <2>4. pending'[c] = Snapshot(net')
      BY <1>1, <2>1 DEF StartSave, ShapeInv
    <2> QED BY <1>1, <1>2, <1>4, <1>5, <2>1, <2>2, <2>3, <2>4, QuietCallCore
  <1> QED BY <1>11, <1>12, <1>13, <1>14

-----------------------------------------------------------------------------
(* The process, the saves and gossip *)

LEMMA EmptyLedgerOK == LedgerOK(Token!EmptyLedger)
  <1>1. IsSequence(<<>>)
    BY DEF IsSequence
  <1> QED BY <1>1, TokenPolicy DEF LedgerOK, LedgerParts, Token!EmptyLedger

LEMMA InitCoreOK == CoreOK(InitCore) /\ InitCore.chain = <<>>
  <1>1. IsSequence(<<>>) /\ Len(<<>>) = 0 /\ DOMAIN <<>> = {}
    BY DEF IsSequence
  <1>2. /\ InitCore.chain = <<>> /\ InitCore.history = <<>> /\ InitCore.proposals = {}
        /\ InitCore.score = [a \in Agent |-> InitialReputation]
        /\ InitCore.results = [p \in Proposal |-> "none"]
        /\ DOMAIN InitCore.votes = Proposal /\ CoreParts \subseteq DOMAIN InitCore
    BY DEF InitCore, CoreParts
  <1>3. BlocksOK(InitCore)
    BY <1>1, <1>2 DEF BlocksOK
  <1> QED BY <1>1, <1>2, <1>3 DEF CoreOK

\* A node that has just been made.
LEMMA FreshOK ==
    ASSUME NEW keys, NEW calls PROVE NodeOK(Fresh(keys), calls)
  <1> DEFINE n == Fresh(keys)
  <1>1. /\ n.core = InitCore /\ n.ledger = Token!EmptyLedger /\ n.registry = {}
        /\ n.artifacts = {}
    BY DEF Fresh
  <1>2. CoreOK(InitCore) /\ DOMAIN InitCore.chain = {}
    BY InitCoreOK
  <1>3. LedgerOK(Token!EmptyLedger) /\ \A kind : Of(Token!EmptyLedger, kind) = {}
    BY EmptyLedgerOK DEF Of, Token!EmptyLedger
  <1>4. BooksOK(InitCore, Token!EmptyLedger, calls)
    BY <1>2, <1>3 DEF BooksOK, CoreOK, Paid, Carried, Known
  <1> HIDE DEF n
  <1>5. NodeOK(n, calls)
    BY <1>1, <1>2, <1>4 DEF NodeOK
  <1> QED BY <1>5 DEF n

LEMMA InitCoreInv == Init => CoreInv
  <1> SUFFICES ASSUME Init PROVE CoreInv
    OBVIOUS
  <1>1. /\ net = Fresh(NoKeys) /\ replica = Token!EmptyLedger /\ gossip = {}
        /\ phase = "down" /\ call = [c \in Call |-> "idle"]
        /\ db = None /\ mirror = None /\ \A s \in Saver : pending[s] = None
    BY DEF Init, Unused
  <1>2. NodeOK(net, call)
    BY <1>1, FreshOK
  <1>3. call \in [Call -> CallState]
    BY <1>1 DEF CallState
  <1>4. Bridging
    BY <1>1, NetworkAssumption DEF Bridging, Init, Request
  <1> QED BY <1>1, <1>2, <1>3, <1>4, EmptyLedgerOK DEF CoreInv, SnapOK

-----------------------------------------------------------------------------
(* Restoring *)

\* What holds at 0 and at the successor of each, holds at N.
LEMMA UpTo ==
    ASSUME NEW N \in Nat, NEW G, G \subseteq 0 .. N, 0 \in G,
           \A m \in G : m < N => m + 1 \in G
    PROVE  N \in G
  <1> DEFINE S == 0 .. N
  <1>1. IsFiniteSet(S) /\ G \subseteq S /\ S \subseteq Nat
    BY FS_Interval
  <1> HIDE DEF S
  <1>2. IsFiniteSet(G) /\ G \subseteq Nat
    BY <1>1, FS_Subset
  <1>3. HasLargest(G)
    BY <1>2, LargestExists
  <1>4. PICK m \in G : \A n \in G : n <= m
    BY <1>3 DEF HasLargest
  <1>5. m \in 0 .. N /\ ~(m < N)
    <2>1. m \in Nat
      BY <1>2
    <2>2. m < N => m + 1 <= m
      BY <1>4
    <2> QED BY <2>1, <2>2
  <1> QED BY <1>5

\* restoreNode before the first block, and one block on.
Before(s) == [InitCore EXCEPT !.proposals = s.proposals]

Replayed(s, k, i) ==
    ApplyFinalizationBroadcast(k,
        [ block |-> s.chain[i], events |-> EventsOf(s.history, s.chain[i].proposal) ])

Replays(s, f, m) ==
    f = [i \in 0 .. m |-> IF i = 0 THEN Before(s) ELSE Replayed(s, f[i - 1], i)]

LEMMA ReplayExists ==
    ASSUME NEW s, NEW N \in Nat PROVE \E f : Replays(s, f, N)
  <1> DEFINE G == {m \in 0 .. N : \E f : Replays(s, f, m)}
  <1>1. 0 \in G
    <2> DEFINE f == [i \in 0 .. 0 |-> Before(s)]
    <2>1. f = [i \in 0 .. 0 |-> IF i = 0 THEN Before(s) ELSE Replayed(s, f[i - 1], i)]
      OBVIOUS
    <2>2. Replays(s, f, 0)
      BY <2>1 DEF Replays
    <2> HIDE DEF f
    <2> QED BY <2>2
  <1>2. ASSUME NEW m \in G, m < N PROVE m + 1 \in G
    <2>1. PICK f : Replays(s, f, m)
      OBVIOUS
    <2>2. m \in Nat /\ m + 1 \in 0 .. N
      BY <1>2
    <2>3. DOMAIN f = 0 .. m
          /\ \A i \in 0 .. m : f[i] = IF i = 0 THEN Before(s) ELSE Replayed(s, f[i - 1], i)
      BY <2>1 DEF Replays
    <2> DEFINE g == [i \in 0 .. m + 1 |-> IF i = m + 1 THEN Replayed(s, f[m], m + 1) ELSE f[i]]
    <2>4. /\ \A i \in 0 .. m : g[i] = f[i] /\ i # m + 1 /\ i \in 0 .. m + 1
          /\ g[m + 1] = Replayed(s, f[m], m + 1)
          /\ \A i \in 0 .. m + 1 : i = m + 1 \/ i \in 0 .. m
          /\ \A i \in 0 .. m : i # 0 => i - 1 \in 0 .. m
          /\ m \in 0 .. m /\ m + 1 # 0 /\ m + 1 - 1 = m
      BY <2>2
    <2>5. g = [i \in 0 .. m + 1 |-> g[i]]
      OBVIOUS
    <2> HIDE DEF g
    <2>6. ASSUME NEW i \in 0 .. m + 1
          PROVE  g[i] = IF i = 0 THEN Before(s) ELSE Replayed(s, g[i - 1], i)
      <3>1. CASE i = m + 1
        BY <2>4, <3>1
      <3>2. CASE i \in 0 .. m
        BY <2>3, <2>4, <3>2
      <3> QED BY <2>4, <3>1, <3>2
    <2>7. Replays(s, g, m + 1)
      BY <2>5, <2>6 DEF Replays
    <2> QED BY <2>2, <2>7
  <1> HIDE DEF G
  <1>3. G \subseteq 0 .. N
    BY DEF G
  <1>4. N \in G
    BY <1>1, <1>2, <1>3, UpTo
  <1> QED BY <1>4 DEF G

LEMMA RestoreReplays ==
    ASSUME NEW s, Len(s.chain) \in Nat
    PROVE  \E f : Replays(s, f, Len(s.chain)) /\ RestoreCore(s) = f[Len(s.chain)]
  <1> DEFINE R == CHOOSE f : Replays(s, f, Len(s.chain))
  <1>1. \E f : Replays(s, f, Len(s.chain))
    BY ReplayExists
  <1>2. Replays(s, R, Len(s.chain))
    BY <1>1
  <1>3. RestoreCore(s) = R[Len(s.chain)]
    BY DEF RestoreCore, Replays, Replayed, Before
  <1> QED BY <1>2, <1>3

\* The events of a block are found by its proposal.
LEMMA EventsFound ==
    ASSUME NEW s, BlocksOK(s), NEW i \in DOMAIN s.chain
    PROVE  EventsOf(s.history, s.chain[i].proposal) = s.history[i].events
  <1> DEFINE p == s.chain[i].proposal
             j == CHOOSE j \in DOMAIN s.history : s.history[j].proposal = p
  <1>1. DOMAIN s.history = DOMAIN s.chain
    BY BlockFacts
  <1>2. s.history[i].proposal = p
    BY DEF BlocksOK
  <1>3. j \in DOMAIN s.chain /\ s.history[j].proposal = p
    BY <1>1, <1>2
  <1>4. s.chain[j].proposal = p
    BY <1>3 DEF BlocksOK
  <1>5. i = j
    BY <1>3, <1>4 DEF BlocksOK
  <1>6. EventsOf(s.history, p) = s.history[j].events
    BY DEF EventsOf
  <1> HIDE DEF j
  <1> QED BY <1>5, <1>6

\* k holds the first i blocks of s, with their outcomes.
Rebuilt(s, k, i) ==
    /\ CoreOK(k) /\ Len(k.chain) = i
    /\ \A j \in 1 .. i : k.chain[j] = s.chain[j] /\ k.history[j].events = s.history[j].events

LEMMA BeforeRebuilt ==
    ASSUME NEW s, BlocksOK(s) PROVE Rebuilt(s, Before(s), 0)
  <1> DEFINE k == Before(s)
  <1>1. CoreOK(InitCore) /\ Len(InitCore.chain) = 0
    BY InitCoreOK
  <1>2. /\ CoreParts \subseteq DOMAIN k /\ k.proposals = s.proposals
        /\ k.chain = InitCore.chain /\ k.history = InitCore.history
        /\ k.score = InitCore.score /\ k.results = InitCore.results
        /\ k.votes = InitCore.votes
    BY DEF Before, InitCore, CoreParts
  <1> HIDE DEF k
  <1>3. BlocksOK(k)
    <2>1. BlocksOK(InitCore)
      BY <1>1 DEF CoreOK
    <2>2. s.proposals \subseteq Proposal
      BY DEF BlocksOK
    <2>3. k.proposals \subseteq Proposal /\ k.chain = InitCore.chain
          /\ k.history = InitCore.history /\ k.score = InitCore.score
      BY <1>2, <2>2
    <2> QED BY <2>1, <2>3, SameBlocks
  <1>4. CoreOK(k)
    BY <1>1, <1>2, <1>3 DEF CoreOK
  <1> QED BY <1>1, <1>2, <1>4 DEF Rebuilt, k

LEMMA NextRebuilt ==
    ASSUME NEW s, BlocksOK(s), NEW i \in DOMAIN s.chain, NEW k, Rebuilt(s, k, i - 1),
           NEW d, d = Replayed(s, k, i)
    PROVE  Rebuilt(s, d, i)
  <1> DEFINE b == s.chain[i]
             p == b.proposal
             events == EventsOf(s.history, p)
             x == [block |-> b, events |-> events]
  <1>1. /\ CoreOK(k) /\ Len(k.chain) = i - 1 /\ BlocksOK(k)
        /\ \A j \in 1 .. i - 1 : /\ k.chain[j] = s.chain[j]
                                 /\ k.history[j].events = s.history[j].events
    BY DEF Rebuilt, CoreOK
  <1>2. /\ i \in Nat \ {0} /\ DOMAIN k.chain = 1 .. i - 1
        /\ \A j \in 1 .. i - 1 : j \in DOMAIN s.chain /\ j # i
        /\ HeadHash(k.chain) = IF i = 1 THEN Genesis ELSE BlockHash(k.chain[i - 1])
    <2>1. Len(s.chain) \in Nat /\ DOMAIN s.chain = 1 .. Len(s.chain)
      BY BlockFacts
    <2>2. /\ DOMAIN k.chain = 1 .. i - 1
          /\ HeadHash(k.chain) = IF i - 1 = 0 THEN Genesis ELSE BlockHash(k.chain[i - 1])
      BY <1>1, BlockFacts
    <2> QED BY <2>1, <2>2
  <1>3. /\ b.height = i /\ p \in Proposal /\ b.status \in {"accepted", "rejected"}
        /\ b.previousHash = IF i = 1 THEN Genesis ELSE BlockHash(s.chain[i - 1])
        /\ DOMAIN s.history[i].events = Agent
        /\ \A a \in Agent : s.history[i].events[a].after \in Score
        /\ \A j \in DOMAIN s.chain : s.chain[j].proposal = p => j = i
    BY DEF BlocksOK
  <1>4. events = s.history[i].events
    BY EventsFound
  <1>5. ~Holds(k.chain, p)
    BY <1>1, <1>2, <1>3 DEF Holds
  <1>6. k.results[p] = "none"
    BY <1>1, <1>3, <1>5 DEF CoreOK
  <1>7. b.previousHash = HeadHash(k.chain)
    <2>1. CASE i = 1
      BY <1>2, <1>3, <2>1
    <2>2. CASE i # 1
      <3>1. i - 1 \in 1 .. i - 1
        BY <1>2, <2>2
      <3> QED BY <1>1, <1>2, <1>3, <2>2, <3>1
    <2> QED BY <2>1, <2>2
  <1>8. OnTop(k.chain, b)
    BY <1>1, <1>2, <1>3, <1>5, <1>7 DEF OnTop
  <1>9. Full(events)
    BY <1>3, <1>4 DEF Full
  <1> HIDE DEF b, events
  <1>10. x.block = b /\ x.events = events
    OBVIOUS
  <1>11. d = ApplyFinalizationBroadcast(k, x)
    BY DEF Replayed, b, events
  <1> HIDE DEF x
  <1> DEFINE u == [k EXCEPT !.proposals = @ \cup {p}, !.votes[p] = b.votes]
             w == Settle(u, p, b.status, events)
  <1>12. d = [w EXCEPT !.chain = Append(@, b)]
    <2>1. ~IsFinalized(k, p)
      BY <1>6 DEF IsFinalized
    <2>2. ~ImportFails(k, x)
      BY <1>7, <1>10 DEF ImportFails, Links
    <2> QED BY <1>10, <1>11, <2>1, <2>2 DEF ApplyFinalizationBroadcast
  <1>13. /\ CoreParts \subseteq DOMAIN u /\ u.chain = k.chain /\ u.history = k.history
         /\ u.score = k.score /\ u.results = k.results
         /\ u.proposals = k.proposals \cup {p} /\ DOMAIN u.votes = Proposal
    BY <1>1 DEF CoreOK, CoreParts
  <1> HIDE DEF u
  <1>14. /\ CoreParts \subseteq DOMAIN w /\ w.chain = k.chain
         /\ w.history = Append(k.history, Entry(p, events))
         /\ w.score = ImportEvents(k.score, events)
         /\ w.results = [k.results EXCEPT ![p] = b.status]
         /\ w.proposals = u.proposals /\ w.votes = u.votes
    BY <1>13 DEF Settle, CoreParts, Entry
  <1> HIDE DEF w
  <1>15. /\ CoreParts \subseteq DOMAIN d /\ d.chain = Append(k.chain, b)
         /\ d.history = w.history /\ d.score = w.score /\ d.results = w.results
         /\ d.proposals = w.proposals /\ d.votes = w.votes
    BY <1>12, <1>14 DEF CoreParts
  <1>16. k.proposals \subseteq Proposal
    BY <1>1 DEF BlocksOK
  <1>17. Settles(k, d, b, events)
    BY <1>3, <1>13, <1>14, <1>15, <1>16 DEF Settles
  <1>18. /\ CoreOK(d) /\ Len(d.chain) = Len(k.chain) + 1
         /\ Begins(k.chain, d.chain) /\ Begins(k.history, d.history)
         /\ d.chain[Len(k.chain) + 1] = b /\ d.history[Len(k.chain) + 1].events = events
    <2>1. CoreOK(k) /\ OnTop(k.chain, b) /\ Full(events) /\ Settles(k, d, b, events)
      BY <1>1, <1>8, <1>9, <1>17
    <2> QED BY ONLY <2>1, SettledCore
  <1>19. Len(k.chain) + 1 = i /\ Len(k.history) = Len(k.chain)
    BY <1>1, <1>2, BlockFacts
  <1>20. ASSUME NEW j \in 1 .. i
         PROVE  d.chain[j] = s.chain[j] /\ d.history[j].events = s.history[j].events
    <2>1. CASE j = i
      BY <1>4, <1>18, <1>19, <2>1 DEF b
    <2>2. CASE j # i
      <3>1. j \in 1 .. i - 1
        BY <1>2, <2>2
      <3>2. d.chain[j] = k.chain[j] /\ d.history[j] = k.history[j]
        BY <1>1, <1>18, <1>19, <3>1 DEF Begins
      <3> QED BY <1>1, <3>1, <3>2
    <2> QED BY <2>1, <2>2
  <1> QED BY <1>18, <1>19, <1>20 DEF Rebuilt

LEMMA SameSequences ==
    ASSUME NEW u, IsSequence(u), NEW v, IsSequence(v), Len(u) = Len(v),
           \A i \in 1 .. Len(u) : u[i] = v[i]
    PROVE  u = v
  <1>1. u = [i \in 1 .. Len(u) |-> u[i]] /\ v = [i \in 1 .. Len(v) |-> v[i]]
    BY DEF IsSequence
  <1> QED BY <1>1

\* The replay of a snapshot brings its chain, its outcomes and its scores back.
LEMMA RestoredCore ==
    ASSUME NEW s, BlocksOK(s), NEW k, k = RestoreCore(s)
    PROVE  CoreOK(k) /\ k.chain = s.chain /\ k.score = s.score
  <1> DEFINE N == Len(s.chain)
  <1>1. N \in Nat /\ DOMAIN s.chain = 1 .. N /\ IsSequence(s.chain)
    BY BlockFacts DEF BlocksOK
  <1>2. PICK f : Replays(s, f, N) /\ k = f[N]
    BY <1>1, RestoreReplays
  <1> HIDE DEF N
  <1>3. \A i \in 0 .. N : f[i] = IF i = 0 THEN Before(s) ELSE Replayed(s, f[i - 1], i)
    BY <1>2 DEF Replays
  <1> DEFINE G == {i \in 0 .. N : Rebuilt(s, f[i], i)}
  <1>4. 0 \in G
    <2>1. 0 \in 0 .. N /\ f[0] = Before(s)
      BY <1>1, <1>3
    <2> QED BY <2>1, BeforeRebuilt
  <1>5. ASSUME NEW m \in G, m < N PROVE m + 1 \in G
    <2>1. /\ m \in Nat /\ m + 1 \in 0 .. N /\ m + 1 \in DOMAIN s.chain /\ m + 1 # 0
          /\ m + 1 - 1 = m /\ Rebuilt(s, f[m], m)
      BY <1>1, <1>5
    <2> DEFINE n == m + 1
    <2>2. n \in 0 .. N /\ n \in DOMAIN s.chain /\ n # 0 /\ Rebuilt(s, f[m], n - 1)
          /\ n - 1 = m
      BY <2>1
    <2> HIDE DEF n
    <2>3. f[n] = Replayed(s, f[m], n)
      BY <1>3, <2>2
    <2>4. Rebuilt(s, f[n], n)
      BY <2>2, <2>3, NextRebuilt
    <2> QED BY <2>2, <2>4 DEF n
  <1> HIDE DEF G
  <1>6. G \subseteq 0 .. N
    BY DEF G
  <1>7. N \in G
    BY <1>1, <1>4, <1>5, <1>6, UpTo
  <1>8. Rebuilt(s, k, N)
    BY <1>2, <1>7 DEF G
  <1>9. CoreOK(k) /\ BlocksOK(k) /\ Len(k.chain) = N /\ Len(s.chain) = N
    BY <1>8 DEF Rebuilt, CoreOK, N
  <1>10. k.chain = s.chain
    <2>1. IsSequence(k.chain) /\ \A i \in 1 .. N : k.chain[i] = s.chain[i]
      BY <1>8, <1>9 DEF Rebuilt, BlocksOK
    <2> QED BY <1>1, <1>9, <2>1, SameSequences
  <1>11. k.score = s.score
    <2>1. N # 0 => N \in 1 .. N
      BY <1>1
    <2>2. N # 0 => k.history[N].events = s.history[N].events
      BY <1>8, <2>1 DEF Rebuilt
    <2>3. /\ k.score = [a \in Agent |-> IF N = 0 THEN InitialReputation
                                        ELSE k.history[N].events[a].after]
          /\ s.score = [a \in Agent |-> IF N = 0 THEN InitialReputation
                                        ELSE s.history[N].events[a].after]
      BY <1>9 DEF BlocksOK
    <2> QED BY <2>2, <2>3
  <1> QED BY <1>9, <1>10, <1>11

\* What a start does to the ledger that it finds.
SameAccounts(L, M) ==
    /\ M.accounts = L.accounts /\ M.balance = L.balance /\ M.nonce = L.nonce
    /\ M.minted = L.minted /\ M.events = L.events /\ M.fees = L.fees

\* ensureGenesisTokenState does its work once: another start leaves it alone.
LEMMA GenesisNode ==
    ASSUME NEW n, NEW calls, NodeShape(n), NodeOK(n, calls), NEW m, m = EnsureGenesis(n)
    PROVE  /\ NodeOK(m, calls) /\ Started(m.ledger) /\ m.core = n.core
           /\ Started(n.ledger) => SameAccounts(n.ledger, m.ledger)
  <1>1. LedgerOK(n.ledger) /\ n.registry \subseteq Call /\ n.artifacts \subseteq Call
    BY DEF NodeOK, BooksOK
  <1>2. CASE Token!Seeded(n.ledger)
    <2>1. m = n
      BY <1>2 DEF EnsureGenesis
    <2> QED BY <1>2, <2>1 DEF Started, SameAccounts
  <1>3. CASE ~Token!Seeded(n.ledger)
    <2> DEFINE L == n.ledger
               M == Token!SeedGenesis(L, AgentOrder)
               id == <<"token.genesis.seeded">>
    <2>1. m = Audited([n EXCEPT !.ledger = M], id)
      BY <1>3 DEF EnsureGenesis
    <2>2. Started(L) => SameAccounts(L, M)
      <3>1. L.events = <<>> /\ L.minted = 0 /\ Token!Remaining(L) = MaxSupply
        BY <1>1, <1>3, TokenPolicy DEF LedgerOK, Token!Seeded, Token!Remaining
      <3>2. CASE Started(L)
        <4>1. GenesisTreasury > MaxSupply /\ Treasury \in L.accounts
          BY <1>3, <3>2 DEF Started
        <4>2. M = Token!Ensure(L, {Treasury})
          BY <3>1, <4>1 DEF Token!SeedGenesis
        <4>3. LedgerParts \subseteq DOMAIN L /\ L.accounts \cup {Treasury} = L.accounts
          BY <1>1, <4>1 DEF LedgerOK
        <4> QED BY <4>2, <4>3 DEF SameAccounts, Token!Ensure, LedgerParts
      <3> QED BY <3>2
    <2> HIDE DEF id
    <2>3. Silent(L, M) /\ Started(M)
      BY <1>1, <1>3, SeedLedger
    <2> HIDE DEF M
    <2>4. /\ m.core = n.core /\ m.ledger = M /\ m.registry = n.registry
          /\ m.artifacts = n.artifacts
      BY <2>1, AuditedNode
    <2>5. Later(calls, calls)
      BY LaterSelf
    <2>6. NodeOK(m, calls)
      BY <1>1, <2>3, <2>4, <2>5, NodeStays
    <2> QED BY <2>2, <2>3, <2>4, <2>6
  <1> QED BY <1>2, <1>3

\* restoreNode: the node is as good as the snapshot.
LEMMA RestoredNode ==
    ASSUME NEW n, NEW calls, NodeShape(n), NodeOK(n, calls), NEW s, s # None,
           SnapOK(s, calls), LedgerShape(s.ledger), NEW m, m = Restore(n, s)
    PROVE  /\ NodeShape(m) /\ NodeOK(m, calls) /\ CoreOK(m.core)
           /\ m.core.chain = s.chain /\ m.core.score = s.score
           /\ m.ledger = s.ledger /\ Started(m.ledger)
  <1> DEFINE k == RestoreCore(s)
             log == RestoreAudit(s)
  <1>1. /\ BooksOK(s, s.ledger, calls) /\ BlocksOK(s) /\ Started(s.ledger)
        /\ s.runs \subseteq Call /\ n.artifacts \subseteq Call
    BY DEF SnapOK, NodeOK, BooksOK
  <1>2. m = [n EXCEPT !.core = k, !.audit = log, !.ledger = s.ledger, !.registry = s.runs]
    BY DEF Restore
  <1>3. CoreOK(k) /\ k.chain = s.chain /\ k.score = s.score
    BY <1>1, RestoredCore
  <1> HIDE DEF k, log
  <1>4. /\ NodeParts \subseteq DOMAIN m /\ m.core = k /\ m.ledger = s.ledger
        /\ m.registry = s.runs /\ m.artifacts = n.artifacts
    BY <1>2 DEF NodeShape, NodeParts
  <1>5. BooksOK(k, s.ledger, calls)
    BY <1>1, <1>3 DEF BooksOK, CoreOK
  <1>6. NodeOK(m, calls)
    BY <1>1, <1>3, <1>4, <1>5 DEF NodeOK
  <1> QED BY <1>1, <1>3, <1>4, <1>6 DEF NodeShape

\* The nodes that start() makes out of what it finds.
LEMMA StartedNode ==
    ASSUME FollowInv, CoreInv, RestoreRuntime
    PROVE  /\ NodeOK(net', call) /\ Started(net'.ledger)
           /\ Source # None =>
                 /\ CoreOK(net'.core) /\ BlocksOK(Source)
                 /\ net'.core.chain = Source.chain /\ net'.core.score = Source.score
                 /\ SameAccounts(Source.ledger, net'.ledger)
  <1> DEFINE s == Source
             m == IF s = None THEN net ELSE Restore(net, s)
  <1>1. net' = EnsureGenesis(m)
    BY DEF RestoreRuntime
  <1>2. SnapOK(s, call) /\ (s # None => LedgerShape(s.ledger))
    BY DEF CoreInv, FollowInv, Booked, Source
  <1> HIDE DEF s
  <1>3. NodeShape(net) /\ NodeOK(net, call)
    BY DEF FollowInv, CoreInv
  <1>4. CASE s = None
    <2>1. m = net
      BY <1>4
    <2> HIDE DEF m
    <2>2. NodeOK(net', call) /\ Started(net'.ledger)
      BY <1>1, <1>3, <2>1, GenesisNode
    <2> QED BY <1>4, <2>2 DEF s
  <1>5. CASE s # None
    <2>1. m = Restore(net, s)
      BY <1>5
    <2> HIDE DEF m
    <2>2. /\ NodeShape(m) /\ NodeOK(m, call) /\ CoreOK(m.core)
          /\ m.core.chain = s.chain /\ m.core.score = s.score
          /\ m.ledger = s.ledger /\ Started(m.ledger)
      BY <1>2, <1>3, <1>5, <2>1, RestoredNode
    <2>3. /\ NodeOK(net', call) /\ Started(net'.ledger) /\ net'.core = m.core
          /\ SameAccounts(m.ledger, net'.ledger)
      BY <1>1, <2>2, GenesisNode
    <2>4. BlocksOK(s)
      BY <1>2, <1>5 DEF SnapOK, BooksOK
    <2> QED BY <2>2, <2>3, <2>4 DEF s
  <1> QED BY <1>4, <1>5

LEMMA RestoreRuntimeCore ==
    ASSUME ShapeInv, FollowInv, CoreInv, RestoreRuntime PROVE CoreInv'
  <1>1. /\ call' = call /\ scenario' = scenario /\ gossip' = gossip /\ db' = db
        /\ replica' = net'.ledger /\ StartSave(Boot, net')
    BY DEF RestoreRuntime, control
  <1>2. NodeOK(net', call') /\ Started(net'.ledger)
    BY <1>1, StartedNode
  <1>3. LedgerOK(replica')
    BY <1>1, <1>2 DEF NodeOK, BooksOK
  <1>4. mirror' \in {mirror, db}
    BY DEF RestoreRuntime, Cached
  <1>5. SnapOK(db', call') /\ SnapOK(mirror', call')
    BY <1>1, <1>4 DEF CoreInv
  <1>6. ASSUME NEW s \in Saver PROVE SnapOK(pending'[s], call')
    <2>1. CASE s = Boot
      <3>1. pending'[s] = Snapshot(net')
        BY <1>1, <2>1 DEF StartSave, ShapeInv
      <3> QED BY <1>2, <3>1, SnapshotOK
    <2>2. CASE s # Boot
      <3>1. pending'[s] = pending[s]
        BY <1>1, <2>2 DEF StartSave, ShapeInv
      <3> QED BY <1>1, <3>1 DEF CoreInv
    <2> QED BY <2>1, <2>2
  <1>7. Bridging'
    BY <1>1 DEF CoreInv, Bridging, Request
  <1> QED BY <1>1, <1>2, <1>3, <1>5, <1>6, <1>7 DEF CoreInv

\* A fee that arrives is known, is paid or is refused.
LEMMA ImportLedger ==
    ASSUME NEW L, LedgerOK(L), NEW fee, FeeOK(fee), NEW M, M = Token!ImportFee(L, fee)
    PROVE  LedgerOK(M)
  <1> DEFINE ref == fee.id[1]
             kind == fee.id[2]
             payer == fee.payer
             payee == fee.payee
             amount == fee.amount
  <1>1. payer \in Token!Account /\ payee \in Token!Account /\ amount \in Nat
    BY DEF FeeOK
  <1>2. \/ M = L
        \/ Token!FeeAllowed(L, payer, amount)
           /\ M = Token!PayFee(L, ref, kind, payer, payee, amount)
        \/ M = Token!Ensure(L, {payer, payee})
    BY DEF Token!ImportFee
  <1> HIDE DEF ref, kind, payer, payee, amount
  <1>3. CASE M = L
    BY <1>3
  <1>4. CASE Token!FeeAllowed(L, payer, amount)
             /\ M = Token!PayFee(L, ref, kind, payer, payee, amount)
    <2>1. Silent(L, M)
      BY <1>1, <1>4, PayFeeLedger
    <2> QED BY <2>1 DEF Silent, Grows
  <1>5. CASE M = Token!Ensure(L, {payer, payee})
    <2>1. Silent(L, M)
      BY <1>5, EnsureLedger
    <2> QED BY <2>1 DEF Silent, Grows
  <1> QED BY <1>2, <1>3, <1>4, <1>5

\* The nodes are gone; some calls have ended with them, and some saves.
CutOff ==
    /\ UNCHANGED <<db, mirror, scenario>>
    /\ \A s \in Saver : pending'[s] \in {pending[s], None}
    /\ call' \in [Call -> CallState]
    /\ \A c \in Call :
          call'[c] # call[c] => call[c] # "idle" /\ call'[c] \in {"lost", "failed"}

LEMMA VanishCore ==
    ASSUME ShapeInv, CoreInv, Vanish, CutOff
    PROVE  CoreInv'
  <1>0. /\ UNCHANGED <<db, mirror, scenario>>
        /\ \A s \in Saver : pending'[s] \in {pending[s], None}
        /\ call' \in [Call -> CallState]
        /\ \A c \in Call :
              call'[c] # call[c] => call[c] # "idle" /\ call'[c] \in {"lost", "failed"}
    BY DEF CutOff
  <1>1. /\ net' = Fresh(NoKeys) /\ replica' = Token!EmptyLedger /\ gossip' = {}
        /\ phase' = "down"
    BY DEF Vanish, Unused
  <1>2. NodeOK(net', call')
    BY <1>1, FreshOK
  <1>3. LedgerOK(replica')
    BY <1>1, EmptyLedgerOK
  <1>4. Later(call, call')
    BY <1>0 DEF Later, Early, Spent
  <1>5. SnapOK(db', call') /\ SnapOK(mirror', call')
    BY <1>0, <1>4, SnapLater DEF CoreInv
  <1>6. ASSUME NEW s \in Saver PROVE SnapOK(pending'[s], call')
    <2>1. SnapOK(pending[s], call') /\ SnapOK(None, call')
      BY <1>4, SnapLater DEF CoreInv, SnapOK
    <2> QED BY <1>0, <2>1
  <1>7. Bridging'
    <2>1. DOMAIN Request \subseteq Call /\ Request' = Request
      BY <1>0, NetworkAssumption DEF ShapeInv, Request
    <2> QED BY <1>0, <2>1 DEF CoreInv, Bridging
  <1> QED BY <1>0, <1>1, <1>2, <1>3, <1>5, <1>6, <1>7 DEF CoreInv

\* A save of a call ends, well or not.
LEMMA SavedCore ==
    ASSUME ShapeInv, CoreInv, NEW c \in DOMAIN Request, MirrorSave(c) \/ FailSave(c)
    PROVE  CoreInv'
  <1>1. c \in Call /\ c \in Saver
    BY CallIsSaver
  <1>2. pending[c] # None /\ EndSave(c)
        /\ UNCHANGED <<phase, net, replica, gossip, db, scenario>>
        /\ mirror' \in {pending[c], mirror}
    BY DEF MirrorSave, FailSave, memory, store, control, Cached, ShapeInv
  <1>3. call[c] \in {"deciding", "settling"}
    BY <1>1, <1>2 DEF ShapeInv, Saves
  <1>4. RequestOK(c)
    BY RequestTyped
  <1>5. AfterSave(c) \in {"ok", "decided", "failed"}
        /\ (call[c] = "settling" => AfterSave(c) = "ok")
    BY <1>3 DEF AfterSave
  <1>6. /\ call \in [Call -> CallState] /\ call' = [call EXCEPT ![c] = call'[c]]
        /\ call'[c] \in {"ok", "decided", "failed"}
        /\ (call[c] = "settling" => call'[c] \in {"ok", "failed"})
    BY <1>1, <1>5 DEF CoreInv, MirrorSave, FailSave
  <1>7. call' \in [Call -> CallState] /\ \A d \in Call \ {c} : call'[d] = call[d]
    BY <1>1, <1>6 DEF CallState
  <1>8. Later(call, call')
    BY <1>3, <1>6, <1>7 DEF Later, Early, Spent
  <1>9. NodeOK(net', call')
    <2>1. NodeOK(net, call) /\ LedgerOK(net.ledger)
      BY DEF CoreInv, NodeOK, BooksOK
    <2>2. Silent(net.ledger, net.ledger)
      BY <2>1, SilentSelf
    <2>3. net.registry \subseteq Call /\ net.artifacts \subseteq Call
      BY <2>1 DEF NodeOK
    <2>4. NodeOK(net, call')
      BY <1>8, <2>1, <2>2, <2>3, NodeStays
    <2> QED BY <1>2, <2>4
  <1>10. SnapOK(db', call') /\ SnapOK(mirror', call')
    BY <1>1, <1>2, <1>8, SnapLater DEF CoreInv
  <1>11. ASSUME NEW s \in Saver PROVE SnapOK(pending'[s], call')
    <2>1. pending'[s] = pending[s] \/ pending'[s] = None
      BY <1>1, <1>2, EndSaveShape
    <2>2. SnapOK(pending[s], call') /\ SnapOK(None, call')
      BY <1>8, SnapLater DEF CoreInv, SnapOK
    <2> QED BY <2>1, <2>2
  <1>12. Bridging'
    <2>1. DOMAIN Request \subseteq Call /\ Request' = Request
      BY <1>2, NetworkAssumption DEF ShapeInv, Request
    <2> QED BY <1>6, <1>7, <2>1 DEF CoreInv, Bridging
  <1> QED BY <1>2, <1>7, <1>9, <1>10, <1>11, <1>12 DEF CoreInv

LEMMA StepCore == ShapeInv /\ FollowInv /\ CoreInv /\ [Next]_vars => CoreInv'
  <1> SUFFICES ASSUME ShapeInv, FollowInv, CoreInv, [Next]_vars PROVE CoreInv'
    OBVIOUS
  <1>1. CASE LoadIdentities
    <2>1. PICK keys : net' = Fresh(keys)
      BY <1>1 DEF LoadIdentities
    <2>2. /\ phase' = "identifying"
          /\ UNCHANGED <<replica, gossip, call, pending, db, mirror, scenario>>
      BY <1>1 DEF LoadIdentities, saving, store, control
    <2>3. NodeOK(net', call')
      BY <2>1, FreshOK
    <2> QED BY <2>2, <2>3 DEF CoreInv, Bridging, Request
  <1>2. CASE SaveIdentity
    BY <1>2 DEF SaveIdentity, CoreInv, Bridging, Request, memory, saving, control
  <1>3. CASE RestoreRuntime
    BY <1>3, RestoreRuntimeCore
  <1>4. CASE FinishStart \/ FailStart
    <2>1. /\ EndSave(Boot) /\ mirror' \in {pending[Boot], mirror}
          /\ pending[Boot] # None
          /\ phase' = "up" /\ UNCHANGED <<net, replica, gossip, call, db, scenario>>
          /\ Boot \in Saver
      BY <1>4 DEF FinishStart, FailStart, Cached, Saver, store, ShapeInv
    <2>2. \A s \in Saver : pending'[s] = None \/ pending'[s] = pending[s]
      BY <2>1, EndSaveShape
    <2>3. Started(net'.ledger)
      BY <2>1 DEF ShapeInv, CoreInv
    <2> QED BY <2>1, <2>2, <2>3 DEF CoreInv, Bridging, Request, SnapOK
  <1>5. CASE End
    <2>1. /\ Vanish /\ UNCHANGED <<db, mirror, scenario>>
          /\ \A s \in Saver : pending'[s] = None
          /\ call' = [c \in Call |-> IF c \in Active THEN "lost" ELSE call[c]]
      BY <1>5 DEF End, store
    <2>2. call' \in [Call -> CallState]
      BY <2>1 DEF CoreInv, CallState
    <2>3. \A c \in Call :
             call'[c] # call[c] => call[c] # "idle" /\ call'[c] \in {"lost", "failed"}
      BY <2>1 DEF Active
    <2>4. CutOff
      BY <2>1, <2>2, <2>3 DEF CutOff
    <2> QED BY <2>1, <2>4, VanishCore
  <1>6. CASE Reset \/ ClearDatabase \/ ClearMirror \/ FailReset
    <2>1. /\ UNCHANGED <<phase, net, replica, gossip, call, pending, scenario>>
          /\ db' \in {db, None} /\ mirror' \in {mirror, None}
      BY <1>6 DEF Reset, ClearDatabase, ClearMirror, FailReset, memory, saving, store
    <2> QED BY <2>1 DEF CoreInv, Bridging, Request, SnapOK
  <1>7. CASE Stop
    <2>1. /\ Vanish /\ UNCHANGED <<db, mirror, scenario, pending>>
          /\ call' = [c \in Call |-> IF c \in Active /\ pending[c] = None
                                     THEN "failed" ELSE call[c]]
      BY <1>7 DEF Stop, store, saving
    <2>2. call' \in [Call -> CallState]
      BY <2>1 DEF CoreInv, CallState
    <2>3. \A c \in Call :
             call'[c] # call[c] => call[c] # "idle" /\ call'[c] \in {"lost", "failed"}
      BY <2>1 DEF Active
    <2>4. CutOff
      BY <2>1, <2>2, <2>3 DEF CutOff
    <2> QED BY <2>1, <2>4, VanishCore
  <1>8. ASSUME NEW s \in Saver, CommitSave(s) PROVE CoreInv'
    <2>1. /\ UNCHANGED <<phase, net, replica, gossip, call, pending, mirror, scenario>>
          /\ db' = pending[s]
      BY <1>8 DEF CommitSave, memory, control
    <2> QED BY <2>1 DEF CoreInv, Bridging, Request
  <1>9. ASSUME NEW c \in DOMAIN Request, CallStep(c) PROVE CoreInv'
    BY <1>9, SubmitCore, SavedCore, SettleCore, RefuseTransferCore, ApproveCore, BridgeCore
       DEF CallStep
  <1>10. ASSUME NEW fee \in gossip, DeliverFee(fee) PROVE CoreInv'
    <2>1. /\ gossip' \subseteq gossip /\ replica' = Token!ImportFee(replica, fee)
          /\ UNCHANGED <<phase, net, call, pending, db, mirror, scenario>>
      BY <1>10 DEF DeliverFee, saving, store, control
    <2>2. LedgerOK(replica')
      BY <2>1, ImportLedger DEF CoreInv
    <2> QED BY <2>1, <2>2 DEF CoreInv, Bridging, Request
  <1>11. CASE UNCHANGED vars
    BY <1>11 DEF CoreInv, Bridging, Request, vars, memory, saving, store, control
  <1> QED BY <1>1, <1>2, <1>3, <1>4, <1>5, <1>6, <1>7, <1>8, <1>9, <1>10, <1>11 DEF Next

LEMMA Core == Spec => []CoreInv
  BY Shape, Follow, InitCoreInv, StepCore, PTL DEF Spec

\* However calls interleave, fail, are cut off or restored from a snapshot of any age,
\* the coordinator holds one reward for every block that the schedule pays, and none
\* besides; only when the supply is used up are there blocks without one
\* (settleValidationReward, recordValidationReward).
THEOREM EveryBlockIsRewarded == Spec => []RewardPerBlock
  <1>1. CoreInv => RewardPerBlock
    <2> SUFFICES ASSUME CoreInv PROVE RewardPerBlock
      OBVIOUS
    <2> DEFINE L == net.ledger
               chain == net.core.chain
               owed == {BlockId(b) : b \in {d \in Blocks(chain) :
                                              Token!RewardForBlock(d.height) > 0}}
               paid == {L.events[i].ref : i \in Events("reward")}
    <2>1. Paid(L, chain) /\ Events("reward") = Of(L, "reward")
          /\ \A j \in DOMAIN chain : chain[j].height = j
      BY DEF CoreInv, NodeOK, CoreOK, BooksOK, BlocksOK, Events, Of
    <2>2. paid \subseteq owed
      <3>1. ASSUME NEW i \in Events("reward") PROVE L.events[i].ref \in owed
        <4>1. PICK j \in DOMAIN chain : /\ L.events[i].ref = BlockId(chain[j])
                                        /\ Token!RewardForBlock(j) > 0
          BY <2>1 DEF Paid
        <4>2. chain[j] \in Blocks(chain) /\ Token!RewardForBlock(chain[j].height) > 0
          BY <2>1, <4>1 DEF Blocks
        <4> QED BY <4>1, <4>2
      <3> QED BY <3>1
    <2>3. ASSUME L.minted < MaxSupply PROVE owed \subseteq paid
      <3>1. ASSUME NEW j \in DOMAIN chain, Token!RewardForBlock(j) > 0
            PROVE  BlockId(chain[j]) \in paid
        <4>1. Token!Rewarded(L, BlockId(chain[j]))
          BY <2>1, <2>3, <3>1 DEF Paid
        <4> QED BY <4>1 DEF Token!Rewarded, Events
      <3>2. ASSUME NEW b \in Blocks(chain), Token!RewardForBlock(b.height) > 0
            PROVE  BlockId(b) \in paid
        <4>1. PICK j \in DOMAIN chain : b = chain[j]
          BY <3>2 DEF Blocks
        <4>2. Token!RewardForBlock(j) > 0
          BY <2>1, <3>2, <4>1
        <4> QED BY <3>1, <4>1, <4>2
      <3> QED BY <3>2
    <2>4. \A i, j \in Events("reward") : L.events[i].ref = L.events[j].ref => i = j
      BY <2>1 DEF Paid
    <2> QED BY <2>2, <2>3, <2>4 DEF RewardPerBlock
  <1> QED BY <1>1, Core, PTL

\* Whatever becomes of the calls, $FURGE was only ever transferred on the strength of an
\* accepted block, once for each, and a nonce was used once: a request that is
\* repeated after a restart settles nothing more (transferTokens, recordTransfer).
THEOREM TransfersHaveBlocks == Spec => []TransfersAreCarried
  <1>1. CoreInv => TransfersAreCarried
    <2> SUFFICES ASSUME CoreInv PROVE TransfersAreCarried
      OBVIOUS
    <2> DEFINE L == net.ledger
               chain == net.core.chain
    <2>1. Carried(L, chain) /\ Events("transfer") = Of(L, "transfer")
      BY DEF CoreInv, NodeOK, BooksOK, Events, Of
    <2>2. ASSUME NEW i \in Events("transfer")
          PROVE  \E b \in Blocks(chain) : b.status = "accepted" /\ BlockId(b) = L.events[i].ref
      <3>1. PICK j \in DOMAIN chain : /\ L.events[i].ref = BlockId(chain[j])
                                      /\ chain[j].status = "accepted"
        BY <2>1 DEF Carried
      <3> QED BY <3>1 DEF Blocks
    <2>3. ASSUME NEW i \in Events("transfer"), NEW j \in Events("transfer"),
                 \/ L.events[i].ref = L.events[j].ref
                 \/ <<L.events[i].from, L.events[i].nonce>>
                       = <<L.events[j].from, L.events[j].nonce>>
          PROVE  i = j
      BY <2>1, <2>3 DEF Carried
    <2> QED BY <2>2, <2>3 DEF TransfersAreCarried
  <1> QED BY <1>1, Core, PTL

\* A chain whose blocks name the ones before them verifies.
LEMMA LinkedVerifies ==
    ASSUME NEW x, BlocksOK(x) PROVE VerifyChain(x.chain)
  <1>1. ASSUME NEW i \in DOMAIN x.chain
        PROVE  x.chain[i].previousHash = HeadHash(SubSeq(x.chain, 1, i - 1))
    <2> DEFINE begun == SubSeq(x.chain, 1, i - 1)
    <2>1. /\ Len(x.chain) \in Nat /\ i \in 1 .. Len(x.chain)
          /\ x.chain \in Seq({x.chain[j] : j \in DOMAIN x.chain})
      BY <1>1, BlockFacts DEF BlocksOK, IsSequence
    <2>2. /\ Len(begun) = i - 1
          /\ \A j \in 1 .. i - 1 : begun[j] = x.chain[j]
      BY <2>1
    <2>3. x.chain[i].previousHash = IF i = 1 THEN Genesis ELSE BlockHash(x.chain[i - 1])
      BY <1>1 DEF BlocksOK
    <2> HIDE DEF begun
    <2>4. CASE i = 1
      BY <2>2, <2>3, <2>4 DEF HeadHash
    <2>5. CASE i # 1
      <3>1. i - 1 \in 1 .. i - 1 /\ i - 1 # 0
        BY <2>1, <2>5
      <3> QED BY <2>2, <2>3, <2>5, <3>1 DEF HeadHash
    <2> QED BY <2>4, <2>5
  <1> QED BY <1>1 DEF VerifyChain

-----------------------------------------------------------------------------
(* The audit trail *)

\* The events with the ids every start writes again.
FirstEvents == Registrations \cup {<<"token.genesis.seeded">>}

Begun(s) == s # None => FirstEvents \subseteq s.audit

\* Nodes that started have the events of a start in their trail, and whatever is stored,
\* or on its way there, was taken from such nodes: the next start writes none of
\* these events a second time, not even a genesis that could grant nothing.
TrailInv ==
    /\ phase = "identifying" => Registrations \subseteq net.audit
    /\ phase \in {"starting", "up"} => FirstEvents \subseteq net.audit
    /\ Begun(db) /\ Begun(mirror) /\ \A s \in Saver : Begun(pending[s])

Lengthens(n, m) == n.audit \subseteq m.audit

LEMMA AuditedLengthens ==
    ASSUME NEW n, NodeShape(n), NEW id
    PROVE  Audited(n, id).audit = n.audit \cup {id}
  BY DEF Audited, NodeShape, NodeParts

LEMMA DecideLengthens ==
    ASSUME NEW n, NodeShape(n), NEW p, NEW ballot PROVE Lengthens(n, Decide(n, p, ballot))
  <1>1. "audit" \in DOMAIN n
    BY DEF NodeShape, NodeParts
  <1> DEFINE events == ProposalAudit(p, ballot, Cardinality(n.audit))
  <1>2. Decide(n, p, ballot).audit = n.audit \cup events
    BY <1>1 DEF Decide
  <1> QED BY <1>2 DEF Lengthens

LEMMA PaidLengthens ==
    ASSUME NEW n, NodeShape(n), NEW L, NEW id, NEW m, m = Audited([n EXCEPT !.ledger = L], id)
    PROVE  Lengthens(n, m)
  BY DEF Audited, Lengthens, NodeShape, NodeParts

LEMMA RewardLengthens ==
    ASSUME NEW n, NodeShape(n) PROVE Lengthens(n, SettleValidationReward(n))
  BY PaidLengthens DEF SettleValidationReward

LEMMA ForceLengthens ==
    ASSUME NEW n, NodeShape(n), NEW c PROVE Lengthens(n, ForceAccepted(n, c))
  <1>1. /\ NodeShape(Decide(n, <<c, "approved">>, AllSupport))
        /\ Lengthens(n, Decide(n, <<c, "approved">>, AllSupport))
    BY DecideBooks, DecideLengthens DEF KeepsBooks
  <1> QED BY <1>1, RewardLengthens DEF ForceAccepted, Lengthens

\* What a call does between two awaits only adds to the trail.
LEMMA CallLengthens ==
    ASSUME FollowInv, NEW c \in DOMAIN Request,
           SubmitCall(c) \/ SettleTransfer(c) \/ RefuseTransfer(c) \/ ApproveBridge(c)
             \/ UnknownAdapter(c) \/ ChargeBridge(c) \/ RefuseBridge(c) \/ FinishBridge(c)
    PROVE  Lengthens(net, net')
  <1>1. NodeShape(net)
    BY DEF FollowInv
  <1> DEFINE n == ForceAccepted(net, c)
  <1>2. Lengthens(net, n) /\ NodeShape(n)
    BY <1>1, ForceLengthens, ForceBooks DEF KeepsBooks
  <1>3. CASE SubmitCall(c)
    <2>1. PICK ballot \in Ballots :
             net' = SettleValidationReward(Decide(net, <<c, "vote">>, ballot))
      BY <1>3 DEF SubmitCall
    <2>2. /\ NodeShape(Decide(net, <<c, "vote">>, ballot))
          /\ Lengthens(net, Decide(net, <<c, "vote">>, ballot))
      BY <1>1, DecideBooks, DecideLengthens DEF KeepsBooks
    <2> QED BY <2>1, <2>2, RewardLengthens DEF Lengthens
  <1>4. CASE SettleTransfer(c)
    <2>1. PICK L, id : net' = Audited([n EXCEPT !.ledger = L], id)
      BY <1>4 DEF SettleTransfer
    <2>2. Lengthens(n, net')
      BY <1>2, <2>1, PaidLengthens
    <2> QED BY <1>2, <2>2 DEF Lengthens
  <1>5. CASE RefuseTransfer(c)
    <2>1. PICK L : net' = [n EXCEPT !.ledger = L]
      BY <1>5 DEF RefuseTransfer
    <2>2. net'.audit = n.audit
      BY <1>2, <2>1 DEF NodeShape, NodeParts
    <2> QED BY <1>2, <2>2 DEF Lengthens
  <1>6. CASE ApproveBridge(c)
    BY <1>2, <1>6 DEF ApproveBridge
  <1>7. CASE UnknownAdapter(c)
    BY <1>7 DEF UnknownAdapter, Lengthens
  <1>8. Reported(net, c).audit = net.audit /\ "audit" \in DOMAIN Reported(net, c)
    BY <1>1 DEF Reported, NodeShape, NodeParts
  <1>9. CASE ChargeBridge(c)
    <2>1. net'.audit = Reported(net, c).audit
      BY <1>8, <1>9 DEF ChargeBridge
    <2> QED BY <1>8, <2>1 DEF Lengthens
  <1>10. CASE RefuseBridge(c)
    <2>1. PICK L : net' = [Reported(net, c) EXCEPT !.ledger = L]
      BY <1>10 DEF RefuseBridge
    <2>2. net'.audit = Reported(net, c).audit
      BY <1>8, <2>1
    <2> QED BY <1>8, <2>2 DEF Lengthens
  <1>11. CASE FinishBridge(c)
    BY <1>1, <1>11, AuditedLengthens DEF FinishBridge, Lengthens
  <1> QED BY <1>3, <1>4, <1>5, <1>6, <1>7, <1>9, <1>10, <1>11

\* What nodes that have not started yet hold once they are restored and seeded.
LEMMA StartedTrail ==
    ASSUME FollowInv, TrailInv, RestoreRuntime
    PROVE  /\ FirstEvents \subseteq net'.audit
           /\ Source # None =>
                 /\ Source.audit \subseteq net'.audit
                 /\ \A e \in net'.audit \ Source.audit :
                       /\ e[1] = "proposal.submitted"
                       /\ \E b \in Blocks(Source.chain) : b.proposal = e[2]
  <1> DEFINE s == Source
             m == IF s = None THEN net ELSE Restore(net, s)
             genesis == <<"token.genesis.seeded">>
  <1>1. net' = EnsureGenesis(m) /\ phase = "identifying"
    BY DEF RestoreRuntime
  <1>2. NodeShape(net) /\ (s # None => LedgerShape(s.ledger))
    BY DEF FollowInv, Booked, Source
  <1>3. Begun(s)
    BY DEF TrailInv, Source
  <1> HIDE DEF s
  <1>4. NodeShape(m)
    BY <1>2, RestoredShape
  <1>5. /\ m.audit \subseteq net'.audit /\ net'.audit \subseteq m.audit \cup {genesis}
        /\ ~Token!Seeded(m.ledger) => genesis \in net'.audit
    <2> HIDE DEF m, genesis
    <2>1. CASE Token!Seeded(m.ledger)
      BY <1>1, <2>1 DEF EnsureGenesis
    <2>2. CASE ~Token!Seeded(m.ledger)
      <3>1. net' = Audited([m EXCEPT !.ledger = Token!SeedGenesis(@, AgentOrder)], genesis)
        BY <1>1, <2>2 DEF EnsureGenesis, genesis
      <3>2. net'.audit = m.audit \cup {genesis}
        <4>1. ASSUME NEW L, NEW o, o = Audited([m EXCEPT !.ledger = L], genesis)
              PROVE  o.audit = m.audit \cup {genesis}
          BY <1>4, <4>1 DEF Audited, NodeShape, NodeParts
        <4> QED BY <3>1, <4>1
      <3> QED BY <3>2
    <2> QED BY <2>1, <2>2
  <1>6. CASE s = None
    <2>1. m = net
      BY <1>6
    <2>2. Registrations \subseteq m.audit /\ ~Token!Seeded(m.ledger)
      BY <1>1, <2>1 DEF TrailInv, FollowInv, Token!Seeded, Token!EmptyLedger
    <2> QED BY <1>5, <1>6, <2>2 DEF FirstEvents, s
  <1>7. CASE s # None
    <2>1. m.audit = RestoreAudit(s)
      <3>1. m = Restore(net, s)
        BY <1>7
      <3> HIDE DEF m
      <3> QED BY <1>2, <3>1 DEF Restore, NodeShape, NodeParts
    <2>2. FirstEvents \subseteq s.audit
      BY <1>3, <1>7 DEF Begun
    <2>3. s.audit \subseteq net'.audit
      BY <1>5, <2>1 DEF RestoreAudit
    <2>4. ASSUME NEW e \in net'.audit \ s.audit
          PROVE  e[1] = "proposal.submitted" /\ \E b \in Blocks(s.chain) : b.proposal = e[2]
      <3>1. e \in RestoreAudit(s) /\ e \notin Registrations
        BY <1>5, <2>1, <2>2 DEF FirstEvents
      <3>2. PICK i \in DOMAIN s.chain :
               e = <<"proposal.submitted", s.chain[i].proposal, Cardinality(Agent) + i - 1>>
        BY <3>1 DEF RestoreAudit
      <3>3. s.chain[i] \in Blocks(s.chain)
        BY DEF Blocks
      <3> QED BY <3>2, <3>3
    <2> QED BY <2>2, <2>3, <2>4 DEF s
  <1> QED BY <1>6, <1>7

\* What is saved comes from running nodes, what is stored from a save.
LEMMA TrailGoesOn ==
    ASSUME TrailInv,
           \A s \in Saver : \/ pending'[s] \in {pending[s], None}
                            \/ /\ phase' \in {"starting", "up"}
                               /\ pending'[s] = Snapshot(net'),
           db' \in {db, None} \cup {pending[s] : s \in Saver},
           mirror' \in {mirror, db, None} \cup {pending[s] : s \in Saver},
           phase' = "identifying" => Registrations \subseteq net'.audit,
           phase' \in {"starting", "up"} => FirstEvents \subseteq net'.audit
    PROVE  TrailInv'
  <1>1. Begun(None)
    BY DEF Begun
  <1>2. Snapshot(net').audit = net'.audit
    BY DEF Snapshot
  <1>3. ASSUME NEW s \in Saver PROVE Begun(pending'[s])
    BY <1>1, <1>2 DEF TrailInv, Begun
  <1>4. Begun(db') /\ Begun(mirror')
    BY <1>1 DEF TrailInv
  <1> QED BY <1>3, <1>4 DEF TrailInv, Begun

LEMMA InitTrail == Init => TrailInv
  BY DEF Init, TrailInv, Begun

LEMMA StepTrail == ShapeInv /\ FollowInv /\ TrailInv /\ [Next]_vars => TrailInv'
  <1> SUFFICES ASSUME ShapeInv, FollowInv, TrailInv, [Next]_vars PROVE TrailInv'
    OBVIOUS
  <1>1. CASE LoadIdentities
    <2>1. /\ phase' = "identifying" /\ UNCHANGED <<pending, db, mirror>>
          /\ net'.audit = Registrations
      BY <1>1 DEF LoadIdentities, Fresh, saving, store
    <2> QED BY <2>1, TrailGoesOn
  <1>2. CASE SaveIdentity \/ Reset \/ ClearDatabase \/ ClearMirror \/ FailReset
             \/ UNCHANGED vars \/ \E fee \in gossip : DeliverFee(fee)
    <2>1. /\ UNCHANGED <<phase, net, pending>> /\ db' \in {db, None}
          /\ mirror' \in {mirror, None}
      BY <1>2 DEF SaveIdentity, Reset, ClearDatabase, ClearMirror, FailReset, DeliverFee,
                  vars, memory, saving, store
    <2> QED BY <2>1, TrailGoesOn DEF TrailInv
  <1>3. CASE RestoreRuntime
    <2>1. /\ phase' = "starting" /\ db' = db /\ StartSave(Boot, net')
          /\ mirror' \in {mirror, db}
      BY <1>3 DEF RestoreRuntime, Cached
    <2>2. \A s \in Saver : pending'[s] = pending[s] \/ pending'[s] = Snapshot(net')
      BY <2>1 DEF StartSave, ShapeInv
    <2>3. FirstEvents \subseteq net'.audit
      BY <1>3, StartedTrail
    <2> QED BY <2>1, <2>2, <2>3, TrailGoesOn
  <1>4. CASE FinishStart \/ FailStart
    <2>1. /\ EndSave(Boot) /\ Boot \in Saver /\ phase' = "up" /\ net' = net /\ db' = db
          /\ mirror' \in {mirror, pending[Boot]}
      BY <1>4 DEF FinishStart, FailStart, Cached, Saver, store
    <2>2. phase = "starting"
      BY <1>4 DEF ShapeInv, FinishStart, FailStart
    <2>3. \A s \in Saver : pending'[s] \in {pending[s], None}
      BY <2>1, EndSaveShape
    <2> QED BY <2>1, <2>2, <2>3, TrailGoesOn DEF TrailInv
  <1>5. CASE End \/ Stop
    <2>1. /\ phase' = "down" /\ UNCHANGED <<db, mirror>>
          /\ \A s \in Saver : pending'[s] \in {pending[s], None}
      BY <1>5 DEF End, Stop, Vanish, store, saving
    <2> QED BY <2>1, TrailGoesOn
  <1>6. ASSUME NEW s \in Saver, CommitSave(s) PROVE TrailInv'
    <2>1. UNCHANGED <<phase, net, pending, mirror>> /\ db' = pending[s]
      BY <1>6 DEF CommitSave, memory
    <2> QED BY <2>1, TrailGoesOn DEF TrailInv
  <1>7. ASSUME NEW c \in DOMAIN Request, CallStep(c) PROVE TrailInv'
    <2>1. c \in Saver
      BY CallIsSaver
    <2>2. CASE MirrorSave(c) \/ FailSave(c)
      <3>1. /\ EndSave(c) /\ UNCHANGED <<phase, net, db>>
            /\ mirror' \in {mirror, pending[c]}
        BY <2>2 DEF MirrorSave, FailSave, Cached, memory, store
      <3>2. \A s \in Saver : pending'[s] \in {pending[s], None}
        BY <2>1, <3>1, EndSaveShape
      <3> QED BY <2>1, <3>1, <3>2, TrailGoesOn DEF TrailInv
    <2>3. CASE ~(MirrorSave(c) \/ FailSave(c))
      <3>1. Advances(c) /\ Lengthens(net, net')
        BY <1>7, <2>3, CallAdvances, CallLengthens DEF CallStep
      <3>2. UNCHANGED pending \/ StartSave(c, net')
        <4>1. ASSUME SettleTransfer(c) PROVE StartSave(c, net')
          <5>1. \E m : net' = m /\ StartSave(c, m)
            BY <4>1 DEF SettleTransfer
          <5> QED BY <5>1
        <4> QED BY <1>7, <2>3, <4>1
                DEF CallStep, SubmitCall, RefuseTransfer, ApproveBridge, UnknownAdapter,
                    ChargeBridge, RefuseBridge, FinishBridge
      <3>3. /\ phase = "up" /\ UNCHANGED <<phase, db, mirror>>
            /\ \A s \in Saver : pending'[s] = pending[s] \/ pending'[s] = Snapshot(net')
        BY <2>1, <3>1, <3>2 DEF Advances, store, StartSave, ShapeInv
      <3>4. FirstEvents \subseteq net'.audit
        BY <3>1, <3>3 DEF TrailInv, Lengthens
      <3> QED BY <3>3, <3>4, TrailGoesOn
    <2> QED BY <2>2, <2>3
  <1> QED BY <1>1, <1>2, <1>3, <1>4, <1>5, <1>6, <1>7 DEF Next

\* A start never brings back anything but what the snapshot holds, replaying the
\* reputations from the events of the blocks included; all that it adds to the audit
\* trail is that the proposals of the blocks were submitted (restoreRuntimeState,
\* restoreNode).
THEOREM StartsRestore == Spec => RestoredExactly
  <1> DEFINE Exactly ==
        /\ net'.core.chain = Source.chain /\ VerifyChain(net'.core.chain)
        /\ net'.core.score = Source.score
        /\ \A b \in Blocks(Source.chain) : net'.core.results[b.proposal] = b.status
        /\ \A part \in {"accounts", "balance", "nonce", "minted"} :
              net'.ledger[part] = Source.ledger[part]
        /\ \A part \in {"events", "fees"} :
              {net'.ledger[part][i] : i \in DOMAIN net'.ledger[part]}
                 = {Source.ledger[part][i] : i \in DOMAIN Source.ledger[part]}
        /\ Source.audit \subseteq net'.audit
        /\ \A e \in net'.audit \ Source.audit :
              /\ e[1] = "proposal.submitted"
              /\ \E b \in Blocks(Source.chain) : b.proposal = e[2]
  <1>1. ASSUME ShapeInv, FollowInv, CoreInv, TrailInv, [Next]_vars,
               phase = "identifying", phase' = "starting", Source # None
        PROVE  Exactly
    <2>1. RestoreRuntime
      <3>1. ~LoadIdentities /\ ~SaveIdentity /\ ~FinishStart /\ ~FailStart /\ ~End /\ ~Reset
            /\ ~ClearDatabase /\ ~ClearMirror /\ ~FailReset /\ ~Stop
        BY <1>1 DEF LoadIdentities, SaveIdentity, FinishStart, FailStart, End, Reset, ClearDatabase,
           ClearMirror, FailReset, Stop, Vanish, memory
      <3>2. \A s \in Saver : ~CommitSave(s)
        BY <1>1 DEF CommitSave, memory
      <3>3. \A c \in DOMAIN Request : ~CallStep(c)
        BY <1>1 DEF CallStep, SubmitCall, MirrorSave, FailSave, SettleTransfer,
           RefuseTransfer, ApproveBridge, UnknownAdapter, ChargeBridge, RefuseBridge,
           FinishBridge, Step, memory
      <3>4. \A fee \in gossip : ~DeliverFee(fee)
        BY <1>1 DEF DeliverFee
      <3>5. ~UNCHANGED vars
        BY <1>1 DEF vars, memory
      <3> QED BY <1>1, <3>1, <3>2, <3>3, <3>4, <3>5 DEF Next
    <2>2. /\ CoreOK(net'.core) /\ BlocksOK(Source)
          /\ net'.core.chain = Source.chain /\ net'.core.score = Source.score
          /\ SameAccounts(Source.ledger, net'.ledger)
      BY <1>1, <2>1, StartedNode
    <2>3. VerifyChain(net'.core.chain)
      BY <2>2, LinkedVerifies DEF CoreOK
    <2>4. \A b \in Blocks(Source.chain) : net'.core.results[b.proposal] = b.status
      BY <2>2 DEF CoreOK, Blocks
    <2>5. /\ Source.audit \subseteq net'.audit
          /\ \A e \in net'.audit \ Source.audit :
                /\ e[1] = "proposal.submitted"
                /\ \E b \in Blocks(Source.chain) : b.proposal = e[2]
      BY <1>1, <2>1, StartedTrail
    <2> QED BY <2>2, <2>3, <2>4, <2>5 DEF SameAccounts
  <1>2. ShapeInv /\ FollowInv /\ CoreInv /\ TrailInv /\ [Next]_vars
           => [phase = "identifying" /\ phase' = "starting" /\ Source # None => Exactly]_vars
    BY <1>1
  <1>3. Spec => []TrailInv
    BY Shape, Follow, InitTrail, StepTrail, PTL DEF Spec
  <1> QED BY <1>2, <1>3, Shape, Follow, Core, PTL DEF Spec, RestoredExactly


-----------------------------------------------------------------------------
(* Types *)

Key == 0 .. scenario.crashes \cup {NoKey}

\* Who awaits a save has one under way, and a key tells one of the processes so far.
TypeInv ==
    /\ crashes \in 0 .. scenario.crashes
    /\ slots \in [Agent -> Key]
    /\ phase = "identifying" => net.keys \in [Agent -> Key]
    /\ phase = "starting" => pending[Boot] # None
    /\ \A c \in Call : call[c] \in Saves => pending[c] # None

LEMMA SnapshotIsSome == ASSUME NEW n PROVE Snapshot(n) # None
  <1>1. "chain" \in DOMAIN Snapshot(n) /\ "chain" \notin DOMAIN None
    BY DEF Snapshot, None
  <1> QED BY <1>1

LEMMA InitTypes == Init => TypeInv
  <1> SUFFICES ASSUME Init PROVE TypeInv
    OBVIOUS
  <1>1. scenario.crashes \in Nat
    BY NetworkAssumption DEF Init
  <1>2. crashes = 0 /\ slots = [a \in Agent |-> NoKey] /\ phase = "down"
        /\ call = [c \in Call |-> "idle"]
    BY DEF Init, NoKeys
  <1> QED BY <1>1, <1>2 DEF TypeInv, Key, Saves

LEMMA StepTypes == ShapeInv /\ TypeInv /\ [Next]_vars => TypeInv'
  <1> SUFFICES ASSUME ShapeInv, TypeInv, [Next]_vars PROVE TypeInv'
    OBVIOUS
  <1>0. scenario.crashes \in Nat /\ Boot \in Saver /\ Call \subseteq Saver /\ Boot \notin Call
    BY NetworkAssumption DEF ShapeInv, Saver
  <1>1. CASE LoadIdentities
    <2>1. /\ phase' = "identifying"
          /\ net' = Fresh(IF AllIdentities THEN slots ELSE [a \in Agent |-> crashes])
          /\ UNCHANGED <<call, pending, slots, scenario, crashes>>
      BY <1>1 DEF LoadIdentities, saving, store, control
    <2>2. net'.keys \in [Agent -> Key]
      BY <2>1 DEF Fresh, TypeInv, Key
    <2> QED BY <2>1, <2>2 DEF TypeInv, Key
  <1>2. CASE SaveIdentity
    <2>1. PICK a : slots' = [slots EXCEPT ![a] = net.keys[a]]
      BY <1>2 DEF SaveIdentity
    <2>2. /\ phase = "identifying"
          /\ UNCHANGED <<phase, net, call, pending, scenario, crashes>>
      BY <1>2 DEF SaveIdentity, memory, saving, control
    <2>3. slots' \in [Agent -> Key]
      BY <2>1, <2>2 DEF TypeInv
    <2> QED BY <2>2, <2>3 DEF TypeInv, Key
  <1>3. CASE RestoreRuntime
    <2>1. /\ phase' = "starting" /\ StartSave(Boot, net')
          /\ UNCHANGED <<call, slots, scenario, crashes>>
      BY <1>3 DEF RestoreRuntime, control
    <2>2. pending'[Boot] # None /\ \A c \in Call : pending'[c] = pending[c]
      BY <1>0, <2>1, SnapshotIsSome DEF StartSave, ShapeInv
    <2> QED BY <2>1, <2>2 DEF TypeInv, Key
  <1>4. CASE FinishStart \/ FailStart
    <2>1. /\ phase' = "up" /\ EndSave(Boot)
          /\ UNCHANGED <<call, slots, scenario, crashes>>
      BY <1>4 DEF FinishStart, FailStart, store
    <2>2. \A c \in Call : pending'[c] = pending[c]
      BY <1>0, <2>1, EndSaveShape
    <2> QED BY <2>1, <2>2 DEF TypeInv, Key
  <1>5. CASE End
    <2>1. /\ phase' = "down" /\ crashes < scenario.crashes /\ crashes' = crashes + 1
          /\ call' = [c \in Call |-> IF c \in Active THEN "lost" ELSE call[c]]
          /\ UNCHANGED <<slots, scenario>>
      BY <1>5 DEF End, Vanish, store
    <2>2. \A c \in Call : call'[c] \notin Saves
      BY <2>1 DEF Active, Saves
    <2>3. crashes' \in 0 .. scenario'.crashes
      BY <1>0, <2>1 DEF TypeInv
    <2> QED BY <2>1, <2>2, <2>3 DEF TypeInv, Key
  <1>6. CASE Reset \/ ClearDatabase \/ ClearMirror \/ FailReset
    <2>1. UNCHANGED <<phase, net, call, pending, slots, scenario, crashes>>
      BY <1>6 DEF Reset, ClearDatabase, ClearMirror, FailReset, memory, saving, store
    <2> QED BY <2>1 DEF TypeInv, Key
  <1>7. CASE Stop
    <2>1. /\ phase' = "down" /\ UNCHANGED <<pending, slots, scenario, crashes>>
          /\ call' = [c \in Call |-> IF c \in Active /\ pending[c] = None
                                     THEN "failed" ELSE call[c]]
      BY <1>7 DEF Stop, Vanish, saving, store
    <2>2. \A c \in Call : call'[c] \in Saves => call[c] \in Saves
      BY <2>1 DEF Saves
    <2> QED BY <2>1, <2>2 DEF TypeInv, Key
  <1>8. ASSUME NEW s \in Saver, CommitSave(s) PROVE TypeInv'
    <2>1. UNCHANGED <<phase, net, call, pending, slots, scenario, crashes>>
      BY <1>8 DEF CommitSave, memory, control
    <2> QED BY <2>1 DEF TypeInv, Key
  <1>9. ASSUME NEW c \in DOMAIN Request, CallStep(c) PROVE TypeInv'
    <2>0. c \in Call /\ c \in Saver /\ c # Boot
      BY CallIsSaver
    <2>1. CASE MirrorSave(c) \/ FailSave(c)
      <3>1. /\ EndSave(c) /\ pending[c] # None
            /\ UNCHANGED <<phase, net, slots, scenario, crashes>>
            /\ call' = [call EXCEPT ![c] = call'[c]]
        BY <2>0, <2>1 DEF MirrorSave, FailSave, memory, store, control, ShapeInv
      <3>2. call[c] \in Saves
        BY <2>0, <3>1 DEF ShapeInv
      <3>3. AfterSave(c) \in {"ok", "decided", "failed"}
        <4>1. RequestOK(c)
          BY RequestTyped
        <4> QED BY <3>2, <4>1 DEF AfterSave, Saves
      <3>4. call'[c] \in {"ok", "decided", "failed"}
        BY <2>0, <2>1, <3>3 DEF MirrorSave, FailSave, ShapeInv
      <3>5. \A d \in Call \ {c} : call'[d] = call[d] /\ pending'[d] = pending[d]
        BY <1>0, <2>0, <3>1, EndSaveShape DEF ShapeInv
      <3>6. pending'[Boot] = pending[Boot]
        BY <1>0, <2>0, <3>1, EndSaveShape
      <3> QED BY <3>1, <3>4, <3>5, <3>6 DEF TypeInv, Key, Saves
    <2>2. CASE ~(MirrorSave(c) \/ FailSave(c))
      <3>1. Advances(c)
        BY <1>9, <2>2, CallAdvances DEF CallStep
      <3>2. /\ phase = "up" /\ UNCHANGED <<phase, slots, scenario, crashes>>
            /\ \A d \in Call \ {c} : call'[d] = call[d] /\ pending'[d] = pending[d]
        BY <1>0, <2>0, <3>1 DEF Advances, ShapeInv, store, control
      <3>3. \A m : StartSave(c, m) => pending'[c] # None
        BY <2>0, SnapshotIsSome DEF StartSave, ShapeInv
      <3>4. \A from, to : Step(c, from, to) => call'[c] = to
        BY <2>0 DEF Step, ShapeInv
      <3>5. call'[c] \in Saves => pending'[c] # None
        <4>1. CASE SubmitCall(c) \/ SettleTransfer(c) \/ FinishBridge(c)
          BY <3>3, <4>1 DEF SubmitCall, SettleTransfer, FinishBridge
        <4>2. CASE \/ RefuseTransfer(c) \/ ApproveBridge(c) \/ UnknownAdapter(c)
                   \/ ChargeBridge(c) \/ RefuseBridge(c)
          BY <3>4, <4>2 DEF RefuseTransfer, ApproveBridge, UnknownAdapter, ChargeBridge,
             RefuseBridge, Saves
        <4> QED BY <1>9, <2>2, <4>1, <4>2 DEF CallStep
      <3> QED BY <3>2, <3>5 DEF TypeInv, Key
    <2> QED BY <2>1, <2>2
  <1>10. ASSUME NEW fee \in gossip, DeliverFee(fee) PROVE TypeInv'
    <2>1. UNCHANGED <<phase, net, call, pending, slots, scenario, crashes>>
      BY <1>10 DEF DeliverFee, saving, store, control
    <2> QED BY <2>1 DEF TypeInv, Key
  <1>11. CASE UNCHANGED vars
    BY <1>11 DEF TypeInv, Key, vars, memory, saving, store, control
  <1> QED BY <1>1, <1>2, <1>3, <1>4, <1>5, <1>6, <1>7, <1>8, <1>9, <1>10, <1>11 DEF Next

\* Through calls, failing saves, resets, ends and restores of the process, every part of
\* the state stays in its type: balances that are not negative, reputations in their
\* range, and a save under way for exactly those who await one.
THEOREM TypeCorrect == Spec => []TypeOK
  <1>1. ShapeInv /\ FollowInv /\ CoreInv /\ TypeInv => TypeOK
    <2> SUFFICES ASSUME ShapeInv, FollowInv, CoreInv, TypeInv PROVE TypeOK
      OBVIOUS
    <2>1. CoreOK(net.core) /\ LedgerOK(net.ledger) /\ LedgerOK(replica)
          /\ net.registry \subseteq Call /\ net.artifacts \subseteq Call
      BY DEF CoreInv, NodeOK, BooksOK
    <2>2. net.core.score \in [Agent -> 0 .. MaxReputation]
      BY <2>1, CoreScores DEF Scores, Score
    <2>3. /\ net.core.proposals \subseteq Proposal
          /\ net.core.results \in [Proposal -> FinalStatus \cup {"none"}]
      <3>1. net.core.proposals \subseteq Proposal
            /\ net.core.results \in [Proposal -> {"accepted", "rejected", "none"}]
        BY <2>1 DEF CoreOK, BlocksOK
      <3>2. {"accepted", "rejected", "none"} \subseteq FinalStatus \cup {"none"}
        BY DEF FinalStatus
      <3> QED BY <3>1, <3>2
    <2>4. MemoryOK(net) /\ replica.balance \in [Token!Account -> Nat]
      BY <2>1, <2>2, <2>3 DEF MemoryOK, LedgerOK
    <2>5. call \in [Call -> CallState]
      BY DEF CoreInv
    <2> QED BY <2>4, <2>5 DEF TypeOK, ShapeInv, TypeInv, Key, Saves, CallState
  <1>2. Spec => []TypeInv
    BY Shape, InitTypes, StepTypes, PTL DEF Spec
  <1> QED BY <1>1, <1>2, Shape, Follow, Core, PTL


-----------------------------------------------------------------------------
(* What was answered with success is in the database *)

Charged(L, c) == \E i \in DOMAIN L.fees : L.fees[i].id[1] = c

\* What an answer with success says of a chain and a ledger.
Done(chain, L, c, kind) ==
    /\ Holds(chain, <<c, "vote">>)
    /\ kind = "transfer" => Moved(L, c)
    /\ kind = "bridge" => Charged(L, c)

\* A call in one of its places has left that much at the nodes.
Progress(chain, L, c) ==
    /\ Holds(chain, <<c, "vote">>)
    /\ call[c] = "publishing" => Request[c].kind = "bridge" /\ Charged(L, c)
    /\ call[c] = "settling" => Done(chain, L, c, Request[c].kind)

Kept(s, c) == s # None /\ Done(s.chain, s.ledger, c, Request[c].kind)

\* One call at a time: it is alone with the runtime it began with, and what a call has been
\* answered is in the database, in everything that may replace what the database
\* has, and in the memory of the nodes, from which the next snapshot is taken.
DurableInv ==
    /\ \A c, d \in Active : c = d
    /\ phase = "down" => \A c \in Active : pending[c] # None
    /\ phase \in {"identifying", "starting"} => Active = {}
    /\ phase = "up" => \A c \in Active : Progress(net.core.chain, net.ledger, c)
    /\ \A c \in Call : pending[c] # None => Progress(pending[c].chain, pending[c].ledger, c)
    /\ \A c \in Call \ cleared : c \in committed => db = pending[c]
    /\ \A c \in Call \ cleared : call[c] = "ok" =>
          /\ Kept(db, c)
          /\ \A s \in Saver : pending[s] # None => Kept(pending[s], c)
          /\ phase \in {"starting", "up"} =>
                Done(net.core.chain, net.ledger, c, Request[c].kind)

\* Nothing that was done is undone at the nodes.
LEMMA DoneStays ==
    ASSUME NEW n, NEW m, GoesOn(n, m), KeepsBooks(n, m), NEW c
    PROVE  /\ Holds(n.core.chain, <<c, "vote">>) => Holds(m.core.chain, <<c, "vote">>)
           /\ Charged(n.ledger, c) => Charged(m.ledger, c)
           /\ \A kind : Done(n.core.chain, n.ledger, c, kind)
                          => Done(m.core.chain, m.ledger, c, kind)
  <1>1. Begins(n.core.chain, m.core.chain) /\ Begins(n.ledger.events, m.ledger.events)
        /\ KeepsFees(n.ledger, m.ledger)
    BY DEF GoesOn, Grows, KeepsBooks
  <1>2. ASSUME Holds(n.core.chain, <<c, "vote">>) PROVE Holds(m.core.chain, <<c, "vote">>)
    <2>1. PICK i \in DOMAIN n.core.chain : n.core.chain[i].proposal = <<c, "vote">>
      BY <1>2 DEF Holds
    <2>2. i \in DOMAIN m.core.chain /\ m.core.chain[i] = n.core.chain[i]
      BY <1>1 DEF Begins
    <2> QED BY <2>1, <2>2 DEF Holds
  <1>3. ASSUME Moved(n.ledger, c) PROVE Moved(m.ledger, c)
    <2>1. PICK i \in DOMAIN n.ledger.events :
             n.ledger.events[i].kind = "transfer" /\ n.ledger.events[i].ref[1][1] = c
      BY <1>3 DEF Moved
    <2>2. i \in DOMAIN m.ledger.events /\ m.ledger.events[i] = n.ledger.events[i]
      BY <1>1 DEF Begins
    <2> QED BY <2>1, <2>2 DEF Moved
  <1>4. ASSUME Charged(n.ledger, c) PROVE Charged(m.ledger, c)
    <2>1. PICK i \in DOMAIN n.ledger.fees : n.ledger.fees[i].id[1] = c
      BY <1>4 DEF Charged
    <2> DEFINE fee == n.ledger.fees[i]
    <2>2. Token!HasFee(n.ledger, fee)
      BY DEF Token!HasFee
    <2>3. Token!HasFee(m.ledger, fee)
      BY <1>1, <2>2 DEF KeepsFees
    <2>4. fee.id[1] = c
      BY <2>1
    <2> HIDE DEF fee
    <2> QED BY <2>3, <2>4 DEF Token!HasFee, Charged
  <1> QED BY <1>2, <1>3, <1>4 DEF Done

\* Nobody but the only call that is active has a save under way.
LEMMA OneSaver ==
    ASSUME ShapeInv, DurableInv, NEW c \in Active, NEW s \in Saver, pending[s] # None
    PROVE  s = c
  <1>1. CASE s = Boot
    BY <1>1 DEF ShapeInv, DurableInv
  <1>2. CASE s \in Call
    BY <1>2 DEF ShapeInv, DurableInv, Active, Saves
  <1> QED BY <1>1, <1>2 DEF Saver

\* The form the steps of calls have.
LEMMA CallDurable ==
    ASSUME ShapeInv, DurableInv, NEW c \in DOMAIN Request, Advances(c),
           GoesOn(net, net'), KeepsBooks(net, net'),
           Active \subseteq {c}, call'[c] # "ok",
           pending'[c] = None \/ pending'[c] = Snapshot(net'),
           Progress(net.core.chain, net.ledger, c)'
    PROVE  DurableInv'
  <1>1. c \in Call /\ c \in Saver /\ Call \subseteq Saver
    BY CallIsSaver DEF Saver
  <1>2. /\ phase = "up" /\ phase' = "up" /\ Request' = Request /\ cleared' = cleared
        /\ committed' = committed /\ db' = db /\ pending[c] = None
    BY DEF Advances, store, control, Request
  <1>3. \A d \in Call \ {c} : call'[d] = call[d]
    BY <1>1 DEF ShapeInv, Advances
  <1>4. \A s \in Saver \ {c} : pending'[s] = pending[s]
    BY <1>1 DEF ShapeInv, Advances
  <1>5. \A d \in Call \ {c} : d \notin Active /\ d \notin Active' /\ pending[d] = None
    <2>1. \A d \in Call \ {c} : d \notin Active
      OBVIOUS
    <2> QED BY <1>3, <2>1 DEF Active, ShapeInv, Saves
  <1>6. \A d \in Call : d \notin committed
    BY <1>2, <1>5 DEF ShapeInv
  <1>7. Snapshot(net').chain = net'.core.chain /\ Snapshot(net').ledger = net'.ledger
    BY DEF Snapshot
  <1>8. \A d \in Call : pending'[d] # None
           => Progress(pending[d].chain, pending[d].ledger, d)'
    <2>1. ASSUME pending'[c] # None PROVE Progress(pending[c].chain, pending[c].ledger, c)'
      BY <1>7, <2>1 DEF Progress
    <2> QED BY <1>1, <1>4, <1>5, <2>1
  <1>9. ASSUME NEW d \in Call \ cleared, call'[d] = "ok"
        PROVE  /\ Kept(db, d)'
               /\ \A s \in Saver : pending'[s] # None => Kept(pending[s], d)'
               /\ Done(net.core.chain, net.ledger, d, Request[d].kind)'
    <2>1. call[d] = "ok" /\ d # c
      BY <1>3, <1>9
    <2>2. /\ Kept(db, d) /\ \A s \in Saver : pending[s] # None => Kept(pending[s], d)
          /\ Done(net.core.chain, net.ledger, d, Request[d].kind)
      BY <1>2, <1>9, <2>1 DEF DurableInv
    <2>3. Done(net'.core.chain, net'.ledger, d, Request[d].kind)
      BY <2>2, DoneStays
    <2>4. pending'[c] # None => Kept(pending'[c], d)
      BY <1>7, <2>3 DEF Kept
    <2>5. \A s \in Saver : pending'[s] # None => Kept(pending'[s], d)
      BY <1>4, <2>2, <2>4
    <2> QED BY <1>2, <2>2, <2>3, <2>5 DEF Kept
  <1>10. \A d \in Active' : d = c
    BY <1>5 DEF Active
  <1>11. \A d, e \in Active' : d = e
    BY <1>10
  <1>12. \A d \in Active' : Progress(net.core.chain, net.ledger, d)'
    BY <1>10
  <1> QED BY <1>2, <1>6, <1>8, <1>9, <1>11, <1>12 DEF DurableInv

\* What the step of a call between two saves starts, if it starts a save.
LEMMA SavesMemory ==
    ASSUME ShapeInv, NEW c \in DOMAIN Request, Advances(c),
           UNCHANGED pending \/ StartSave(c, net')
    PROVE  pending'[c] = None \/ pending'[c] = Snapshot(net')
  <1>1. c \in Saver
    BY CallIsSaver
  <1> QED BY <1>1 DEF StartSave, Advances, ShapeInv

LEMMA CallStepDurable ==
    ASSUME ShapeInv, FollowInv, CoreInv, DurableInv, scenario.active = 1,
           NEW c \in DOMAIN Request,
           SubmitCall(c) \/ SettleTransfer(c) \/ RefuseTransfer(c) \/ ApproveBridge(c)
             \/ UnknownAdapter(c) \/ ChargeBridge(c) \/ RefuseBridge(c) \/ FinishBridge(c)
    PROVE  DurableInv'
  <1>1. c \in Call /\ c \in Saver /\ Advances(c)
    BY CallIsSaver, CallAdvances
  <1>2. KeepsBooks(net, net') /\ FollowInv'
    BY CallStepFollows
  <1>3. GoesOn(net, net')
    BY SubmitCore, SettleCore, RefuseTransferCore, ApproveCore, BridgeCore
  <1>4. phase = "up" /\ Request' = Request
    BY <1>1 DEF Advances, control, Request
  <1>5. ASSUME NEW from, NEW to, Step(c, from, to) PROVE call[c] = from /\ call'[c] = to
    BY <1>1, <1>5 DEF Step, ShapeInv
  <1>6. ASSUME NEW from, NEW to, Step(c, from, to),
               from \notin {"idle", "ok", "failed", "lost"}
        PROVE  /\ Active \subseteq {c}
               /\ Progress(net.core.chain, net.ledger, c)
               /\ Holds(net'.core.chain, <<c, "vote">>)
    <2>1. c \in Active
      BY <1>1, <1>5, <1>6 DEF Active
    <2>2. Active \subseteq {c}
      BY <2>1 DEF DurableInv
    <2>3. Progress(net.core.chain, net.ledger, c)
      BY <1>4, <2>1 DEF DurableInv
    <2>4. Holds(net.core.chain, <<c, "vote">>)
      BY <2>3 DEF Progress
    <2>5. Holds(net'.core.chain, <<c, "vote">>)
      BY <1>2, <1>3, <2>4, DoneStays
    <2> QED BY <2>2, <2>3, <2>5
  <1>7. CASE SubmitCall(c)
    <2>1. Holds(net'.core.chain, <<c, "vote">>)
      BY <1>7, SubmitCore
    <2>2. Step(c, "idle", "deciding") /\ StartSave(c, net') /\ Cardinality(Active) < 1
      BY <1>7 DEF SubmitCall
    <2>3. Active \subseteq {c}
      <3>1. ASSUME NEW d \in Active PROVE FALSE
        <4>1. Active = {d}
          BY DEF DurableInv
        <4>2. Cardinality({d}) = 1
          BY FS_Singleton
        <4>3. Cardinality(Active) = 1
          BY <4>1, <4>2
        <4> QED BY <2>2, <4>3
      <3> QED BY <3>1
    <2>4. call'[c] = "deciding"
      BY <1>5, <2>2
    <2>5. Progress(net.core.chain, net.ledger, c)'
      BY <2>1, <2>4 DEF Progress
    <2>6. pending'[c] = None \/ pending'[c] = Snapshot(net')
      BY <1>1, <2>2, SavesMemory
    <2> QED BY <1>1, <1>2, <1>3, <2>3, <2>4, <2>5, <2>6, CallDurable
  <1>8. CASE SettleTransfer(c)
    <2>1. Moved(net'.ledger, c)
      BY <1>8, SettleCore
    <2>2. /\ Step(c, "decided", "settling") /\ Request[c].kind = "transfer"
          /\ \E m : net' = m /\ StartSave(c, m)
      BY <1>8 DEF SettleTransfer
    <2>3. call'[c] = "settling" /\ StartSave(c, net')
      BY <1>5, <2>2
    <2>4. Active \subseteq {c} /\ Holds(net'.core.chain, <<c, "vote">>)
      BY <1>6, <2>2
    <2>5. Progress(net.core.chain, net.ledger, c)'
      BY <1>4, <2>1, <2>2, <2>3, <2>4 DEF Progress, Done
    <2>6. pending'[c] = None \/ pending'[c] = Snapshot(net')
      BY <1>1, <2>3, SavesMemory
    <2> QED BY <1>1, <1>2, <1>3, <2>3, <2>4, <2>5, <2>6, CallDurable
  <1>9. CASE RefuseTransfer(c) \/ ApproveBridge(c) \/ UnknownAdapter(c) \/ RefuseBridge(c)
    <2>1. /\ \E from \in {"decided", "executing"}, to \in {"failed", "executing"} :
                Step(c, from, to)
          /\ UNCHANGED pending
      BY <1>9 DEF RefuseTransfer, ApproveBridge, UnknownAdapter, RefuseBridge
    <2>2. PICK from \in {"decided", "executing"}, to \in {"failed", "executing"} :
             Step(c, from, to)
      BY <2>1
    <2>3. call'[c] \in {"failed", "executing"}
      BY <1>5, <2>2
    <2>4. Active \subseteq {c} /\ Holds(net'.core.chain, <<c, "vote">>)
      BY <1>6, <2>2
    <2>5. Progress(net.core.chain, net.ledger, c)'
      BY <2>3, <2>4 DEF Progress
    <2>6. pending'[c] = None \/ pending'[c] = Snapshot(net')
      BY <1>1, <2>1, SavesMemory
    <2> QED BY <1>1, <1>2, <1>3, <2>3, <2>4, <2>5, <2>6, CallDurable
  <1>10. CASE ChargeBridge(c)
    <2>1. Step(c, "executing", "publishing") /\ UNCHANGED pending
      BY <1>10 DEF ChargeBridge
    <2>2. call[c] = "executing" /\ call'[c] = "publishing"
      BY <1>5, <2>1
    <2>3. Request[c].kind = "bridge"
      BY <2>2 DEF CoreInv, Bridging
    <2>4. Active \subseteq {c} /\ Holds(net'.core.chain, <<c, "vote">>)
      BY <1>6, <2>1
    <2>5. \E fee \in gossip' : fee.id[1] = c
      <3> DEFINE new == Token!FeeEvent(c, "bridge", Request[c].from, BridgePayee(c),
                                       Request[c].amount)
      <3>1. new \in gossip'
        BY <1>10 DEF ChargeBridge
      <3>2. new.id = <<c, "bridge">>
        BY DEF Token!FeeEvent
      <3> HIDE DEF new
      <3> QED BY <3>1, <3>2
    <2>6. PICK fee \in gossip' : fee.id[1] = c
      BY <2>5
    <2>7. Token!HasFee(net'.ledger, fee)
      BY <1>2, <2>6 DEF FollowInv
    <2>8. Charged(net'.ledger, c)
      BY <2>6, <2>7 DEF Token!HasFee, Charged
    <2>9. Progress(net.core.chain, net.ledger, c)'
      BY <1>4, <2>2, <2>3, <2>4, <2>8 DEF Progress
    <2>10. pending'[c] = None \/ pending'[c] = Snapshot(net')
      BY <1>1, <2>1, SavesMemory
    <2> QED BY <1>1, <1>2, <1>3, <2>2, <2>4, <2>9, <2>10, CallDurable
  <1>11. CASE FinishBridge(c)
    <2>1. Step(c, "publishing", "settling") /\ StartSave(c, net')
      BY <1>11 DEF FinishBridge
    <2>2. call[c] = "publishing" /\ call'[c] = "settling"
      BY <1>5, <2>1
    <2>3. /\ Active \subseteq {c} /\ Holds(net'.core.chain, <<c, "vote">>)
          /\ Progress(net.core.chain, net.ledger, c)
      BY <1>6, <2>1
    <2>4. Request[c].kind = "bridge" /\ Charged(net.ledger, c)
      BY <2>2, <2>3 DEF Progress
    <2>5. Charged(net'.ledger, c)
      BY <1>2, <1>3, <2>4, DoneStays
    <2>6. Progress(net.core.chain, net.ledger, c)'
      BY <1>4, <2>2, <2>3, <2>4, <2>5 DEF Progress, Done
    <2>7. pending'[c] = None \/ pending'[c] = Snapshot(net')
      BY <1>1, <2>1, SavesMemory
    <2> QED BY <1>1, <1>2, <1>3, <2>2, <2>3, <2>6, <2>7, CallDurable
  <1> QED BY <1>7, <1>8, <1>9, <1>10, <1>11

\* A save of a call ends.
LEMMA SavedDurable ==
    ASSUME ShapeInv, DurableInv, NEW c \in DOMAIN Request, MirrorSave(c) \/ FailSave(c)
    PROVE  DurableInv'
  <1>1. c \in Call /\ c \in Saver
    BY CallIsSaver
  <1>2. /\ pending[c] # None /\ EndSave(c)
        /\ UNCHANGED <<phase, net, db, scenario, cleared>>
        /\ call' = [call EXCEPT ![c] = call'[c]]
    BY <1>1 DEF MirrorSave, FailSave, memory, store, control, ShapeInv
  <1>3. call[c] \in Saves /\ c \in Active
    BY <1>1, <1>2 DEF ShapeInv, Saves, Active
  <1>4. \A d \in Call \ {c} : call'[d] = call[d] /\ d \notin Active
    BY <1>1, <1>2, <1>3 DEF ShapeInv, DurableInv
  <1>5. \A s \in Saver : pending'[s] = None
    <2>1. \A s \in Saver \ {c} : pending[s] = None
      BY <1>3, OneSaver
    <2>2. pending'[c] = None /\ \A s \in Saver \ {c} : pending'[s] = pending[s]
      BY <1>1, <1>2 DEF EndSave, ShapeInv
    <2> QED BY <2>1, <2>2
  <1>6. Request' = Request /\ phase \notin {"identifying", "starting"}
    BY <1>2, <1>3 DEF Request, DurableInv
  <1>7. committed' \subseteq committed \ {c}
    BY <1>2 DEF EndSave
  <1>8. \A d \in Call : d \notin committed'
    <2>1. \A d \in Call \ {c} : pending[d] = None
      BY <1>3, OneSaver DEF Saver
    <2> QED BY <1>7, <2>1 DEF ShapeInv
  <1>9. call'[c] \in {"ok", "failed"} \/ (call'[c] = "decided" /\ phase = "up")
    BY <1>1, <1>2, <1>3 DEF MirrorSave, FailSave, AfterSave, ShapeInv, Saves
  <1>10. \A d \in Active' : d = c
    BY <1>4 DEF Active
  <1>11. \A d, e \in Active' : d = e
    BY <1>10
  <1>12. ASSUME NEW d \in Active' PROVE phase = "up" /\ Progress(net.core.chain, net.ledger, d)'
    <2>1. d = c /\ call'[c] = "decided" /\ phase = "up"
      BY <1>9, <1>10 DEF Active
    <2>2. Progress(net.core.chain, net.ledger, c)
      BY <1>3, <2>1 DEF DurableInv
    <2> QED BY <1>2, <2>1, <2>2 DEF Progress
  <1>13. ASSUME NEW d \in Call \ cleared, call'[d] = "ok"
         PROVE  /\ Kept(db, d)
                /\ phase = "up" => Done(net.core.chain, net.ledger, d, Request[d].kind)
    <2>1. CASE d # c
      BY <1>4, <1>13, <2>1 DEF DurableInv
    <2>2. CASE d = c
      <3>1. c \in committed /\ AfterSave(c) = "ok" /\ c \in Call \ cleared
        BY <1>1, <1>13, <2>2 DEF MirrorSave, FailSave, ShapeInv
      <3>2. db = pending[c] /\ db # None
        BY <1>2, <3>1 DEF DurableInv
      <3>3. call[c] = "settling" \/ (call[c] = "deciding" /\ Request[c].kind = "proposal")
        BY <1>3, <1>6, <3>1 DEF AfterSave, Saves
      <3>4. ASSUME NEW chain, NEW L, Progress(chain, L, c)
            PROVE  Done(chain, L, c, Request[c].kind)
        BY <3>3, <3>4 DEF Progress, Done
      <3>5. Progress(db.chain, db.ledger, c)
        BY <1>1, <3>2 DEF DurableInv
      <3>6. phase = "up" => Progress(net.core.chain, net.ledger, c)
        BY <1>3 DEF DurableInv
      <3>7. Done(db.chain, db.ledger, c, Request[c].kind)
        BY <3>4, <3>5
      <3>8. phase = "up" => Done(net.core.chain, net.ledger, c, Request[c].kind)
        BY <3>4, <3>6
      <3> QED BY <2>2, <3>2, <3>7, <3>8 DEF Kept
    <2> QED BY <2>1, <2>2
  <1>14. \A d \in Call \ cleared : call'[d] = "ok" =>
            /\ Kept(db, d)'
            /\ phase' \in {"starting", "up"} =>
                  Done(net.core.chain, net.ledger, d, Request[d].kind)'
    BY <1>2, <1>6, <1>13 DEF Kept
  <1> QED BY <1>2, <1>5, <1>6, <1>8, <1>11, <1>12, <1>14 DEF DurableInv, Saver

\* A start restores what the database has.
LEMMA StartDurable ==
    ASSUME ShapeInv, FollowInv, CoreInv, DurableInv, RestoreRuntime PROVE DurableInv'
  <1>1. /\ phase = "identifying" /\ phase' = "starting"
        /\ UNCHANGED <<call, committed, db, scenario, cleared>> /\ StartSave(Boot, net')
    BY DEF RestoreRuntime, control
  <1>2. Request' = Request /\ Active' = Active /\ Active = {}
    BY <1>1 DEF Request, Active, DurableInv
  <1>3. /\ pending'[Boot] = Snapshot(net')
        /\ \A s \in Saver \ {Boot} : pending'[s] = pending[s]
    BY <1>1 DEF StartSave, ShapeInv, Saver
  <1>4. \A c \in Call : pending[c] = None /\ pending'[c] = None
    BY <1>2, <1>3, NetworkAssumption DEF ShapeInv, Saves, Active, Saver
  <1>5. \A c \in Call : c \notin committed
    BY <1>4 DEF ShapeInv
  <1>6. Snapshot(net').chain = net'.core.chain /\ Snapshot(net').ledger = net'.ledger
        /\ Snapshot(net') # None
    BY SnapshotIsSome DEF Snapshot
  <1>7. ASSUME NEW c \in Call \ cleared, call[c] = "ok"
        PROVE  /\ Kept(db, c)
               /\ Done(net'.core.chain, net'.ledger, c, Request[c].kind)
               /\ Kept(Snapshot(net'), c)
    <2>1. Kept(db, c)
      BY <1>7 DEF DurableInv
    <2>2. Source = db /\ db # None
      BY <2>1 DEF Kept, Source
    <2>3. net'.core.chain = db.chain /\ SameAccounts(db.ledger, net'.ledger)
      BY <2>2, StartedNode
    <2>4. Done(db.chain, db.ledger, c, Request[c].kind)
      BY <2>1 DEF Kept
    <2>5. Done(net'.core.chain, net'.ledger, c, Request[c].kind)
      BY <2>3, <2>4 DEF Done, SameAccounts, Moved, Charged
    <2> QED BY <1>6, <2>1, <2>5 DEF Kept
  <1>8. \A c \in Call \ cleared : call[c] = "ok" =>
            /\ Kept(db, c)'
            /\ \A s \in Saver : pending'[s] # None => Kept(pending[s], c)'
            /\ Done(net.core.chain, net.ledger, c, Request[c].kind)'
    BY <1>1, <1>2, <1>3, <1>4, <1>7 DEF Kept, Saver
  <1> QED BY <1>1, <1>2, <1>4, <1>5, <1>8 DEF DurableInv

\* The nodes are gone; the saves that go on are those of calls.
LEMMA VanishDurable ==
    ASSUME ShapeInv, DurableInv, Vanish, UNCHANGED <<db, scenario, cleared>>,
           \A s \in Saver : pending'[s] \in {pending[s], None},
           committed' \subseteq committed,
           \A c \in committed' : pending'[c] = pending[c],
           \A c \in Call : \/ call'[c] = call[c] /\ (c \in Active => pending'[c] # None)
                           \/ call'[c] \in {"lost", "failed"}
    PROVE  DurableInv'
  <1>1. phase' = "down" /\ Request' = Request /\ Call \subseteq Saver
    BY DEF Vanish, Request, Saver
  <1>2. \A c \in Active' : c \in Active /\ call'[c] = call[c] /\ pending'[c] # None
    BY DEF Active
  <1>3. \A c, d \in Active' : c = d
    BY <1>2 DEF DurableInv
  <1>4. ASSUME NEW c \in Call, pending'[c] # None
        PROVE  Progress(pending[c].chain, pending[c].ledger, c)'
    <2>1. pending'[c] = pending[c] /\ pending[c] # None
      BY <1>1, <1>4
    <2>2. Progress(pending[c].chain, pending[c].ledger, c)
      BY <2>1 DEF DurableInv
    <2>3. call'[c] = call[c] \/ call'[c] \in {"lost", "failed"}
      OBVIOUS
    <2> QED BY <1>1, <2>1, <2>2, <2>3 DEF Progress
  <1>5. \A c \in Call \ cleared' : c \in committed' => db' = pending'[c]
    BY DEF DurableInv
  <1>6. ASSUME NEW c \in Call \ cleared, call'[c] = "ok"
        PROVE  Kept(db, c) /\ \A s \in Saver : pending'[s] # None => Kept(pending'[s], c)
    <2>1. call[c] = "ok"
      BY <1>6
    <2>2. Kept(db, c) /\ \A s \in Saver : pending[s] # None => Kept(pending[s], c)
      BY <2>1 DEF DurableInv
    <2> QED BY <2>2
  <1>7. \A c \in Call \ cleared' : call'[c] = "ok" =>
           /\ Kept(db, c)'
           /\ \A s \in Saver : pending'[s] # None => Kept(pending[s], c)'
    BY <1>1, <1>6 DEF Kept
  <1>8. /\ phase' \notin {"identifying", "starting", "up"}
        /\ \A c \in Active' : pending'[c] # None
    BY <1>1, <1>2
  <1> QED BY <1>3, <1>4, <1>5, <1>7, <1>8 DEF DurableInv

\* Steps that leave the calls and the nodes, and whose saves, if any, end.
LEMMA StillDurable ==
    ASSUME DurableInv, UNCHANGED <<net, call, db, scenario, cleared>>,
           phase' = phase \/ (phase = "down" /\ phase' = "identifying" /\ Active = {})
             \/ (phase = "starting" /\ phase' = "up"),
           \A s \in Saver : pending'[s] \in {pending[s], None},
           \A c \in Call : pending'[c] = pending[c],
           committed' \subseteq committed
    PROVE  DurableInv'
  <1>1. Request' = Request /\ Active' = Active
    BY DEF Request, Active
  <1>2. \A c \in Call : pending'[c] # None =>
           Progress(pending[c].chain, pending[c].ledger, c)'
    BY <1>1 DEF DurableInv, Progress
  <1>3. \A c \in Active' : phase' = "up" => Progress(net.core.chain, net.ledger, c)'
    BY <1>1 DEF DurableInv, Progress
  <1>4. \A c \in Call \ cleared' : call'[c] = "ok" =>
          /\ Kept(db, c)'
          /\ \A s \in Saver : pending'[s] # None => Kept(pending[s], c)'
          /\ phase' \in {"starting", "up"} =>
                Done(net.core.chain, net.ledger, c, Request[c].kind)'
    BY <1>1 DEF DurableInv, Kept
  <1>5. /\ \A c, d \in Active' : c = d
        /\ phase' = "down" => \A c \in Active' : pending'[c] # None
        /\ phase' \in {"identifying", "starting"} => Active' = {}
    BY <1>1 DEF DurableInv, Active
  <1>6. \A c \in Call \ cleared' : c \in committed' => db' = pending'[c]
    BY DEF DurableInv
  <1> QED BY <1>2, <1>3, <1>4, <1>5, <1>6 DEF DurableInv

\* A save commits.
LEMMA CommitDurable ==
    ASSUME ShapeInv, DurableInv, NEW s \in Saver, CommitSave(s) PROVE DurableInv'
  <1>1. /\ pending[s] # None /\ db' = pending[s] /\ committed' = committed \cup {s}
        /\ UNCHANGED <<phase, net, call, pending, scenario, cleared>>
    BY DEF CommitSave, memory, control
  <1>2. Request' = Request /\ Active' = Active
    BY <1>1 DEF Request, Active
  <1>3. ASSUME NEW c \in Call, c \in committed' PROVE pending[c] = db'
    <2>1. pending[c] # None
      BY <1>1, <1>3 DEF ShapeInv
    <2>2. c \in Active
      BY <2>1 DEF ShapeInv, Saves, Active
    <2>3. s = c
      BY <1>1, <2>2, OneSaver
    <2> QED BY <1>1, <2>3
  <1>4. \A c \in Call : pending'[c] # None =>
           Progress(pending[c].chain, pending[c].ledger, c)'
    BY <1>1, <1>2 DEF DurableInv, Progress
  <1>5. \A c \in Active' : phase' = "up" => Progress(net.core.chain, net.ledger, c)'
    BY <1>1, <1>2 DEF DurableInv, Progress
  <1>6. \A c \in Call \ cleared : call[c] = "ok" =>
          /\ Kept(pending[s], c)
          /\ \A t \in Saver : pending[t] # None => Kept(pending[t], c)
          /\ phase \in {"starting", "up"} =>
                Done(net.core.chain, net.ledger, c, Request[c].kind)
    BY <1>1 DEF DurableInv
  <1>7. \A c \in Call \ cleared : call'[c] = "ok" =>
          /\ Kept(db, c)'
          /\ \A t \in Saver : pending'[t] # None => Kept(pending[t], c)'
          /\ phase' \in {"starting", "up"} =>
                Done(net.core.chain, net.ledger, c, Request[c].kind)'
    BY <1>1, <1>2, <1>6 DEF Kept
  <1> QED BY <1>1, <1>2, <1>3, <1>4, <1>5, <1>7 DEF DurableInv

LEMMA StepKeepsScenario == [Next]_vars => scenario' = scenario
  BY DEF Next, LoadIdentities, SaveIdentity, RestoreRuntime, FinishStart, FailStart, End, Reset,
         ClearDatabase, ClearMirror, FailReset, Stop, CommitSave, CallStep, DeliverFee,
         MirrorSave, FailSave, SubmitCall, SettleTransfer, RefuseTransfer, ApproveBridge,
         UnknownAdapter, ChargeBridge, RefuseBridge, FinishBridge, Step, control, vars

\* The transaction of a reset.
LEMMA ClearDurable ==
    ASSUME ShapeInv, DurableInv, ClearDatabase PROVE DurableInv'
  <1>1. /\ UNCHANGED <<phase, net, call, pending, committed, scenario>>
        /\ cleared' = {c \in Call : call[c] # "idle"}
    BY DEF ClearDatabase, memory, saving
  <1>2. Request' = Request /\ Active' = Active
    BY <1>1 DEF Request, Active
  <1>3. \A c \in Call \ cleared' : call[c] = "idle" /\ c \notin committed
    BY <1>1 DEF ShapeInv, Saves
  <1>4. \A c \in Call : pending'[c] # None =>
           Progress(pending[c].chain, pending[c].ledger, c)'
    BY <1>1, <1>2 DEF DurableInv, Progress
  <1>5. \A c \in Active' : phase' = "up" => Progress(net.core.chain, net.ledger, c)'
    BY <1>1, <1>2 DEF DurableInv, Progress
  <1>6. /\ \A c, d \in Active' : c = d
        /\ phase' = "down" => \A c \in Active' : pending'[c] # None
        /\ phase' \in {"identifying", "starting"} => Active' = {}
    BY <1>1, <1>2 DEF DurableInv
  <1>7. \A c \in Call \ cleared' : call'[c] # "ok" /\ c \notin committed'
    BY <1>1, <1>3
  <1> QED BY <1>4, <1>5, <1>6, <1>7 DEF DurableInv

OneAtATime == scenario.active = 1 => DurableInv

LEMMA InitDurable == Init => OneAtATime
  <1> SUFFICES ASSUME Init PROVE DurableInv
    BY DEF OneAtATime
  <1>1. phase = "down" /\ committed = {} /\ \A c \in Call : call[c] = "idle"
    BY DEF Init
  <1>2. \A s \in Saver : pending[s] = None
    BY DEF Init
  <1>3. Active = {} /\ Call \subseteq Saver
    BY <1>1 DEF Active, Saver
  <1> QED BY <1>1, <1>2, <1>3 DEF DurableInv

LEMMA StepDurable ==
    ShapeInv /\ FollowInv /\ CoreInv /\ OneAtATime /\ [Next]_vars => OneAtATime'
  <1> SUFFICES ASSUME ShapeInv, FollowInv, CoreInv, OneAtATime, [Next]_vars,
                      scenario'.active = 1
               PROVE  DurableInv'
    BY DEF OneAtATime
  <1>1. scenario' = scenario
    BY StepKeepsScenario
  <1>2. scenario.active = 1 /\ DurableInv
    BY <1>1 DEF OneAtATime
  <1>3. Call \subseteq Saver
    BY DEF Saver
  <1>4. CASE LoadIdentities
    <2>1. /\ phase = "down" /\ phase' = "identifying" /\ \A s \in Saver : pending[s] = None
          /\ UNCHANGED <<call, pending, committed, db, cleared>>
      BY <1>4 DEF LoadIdentities, saving, store, control
    <2>2. Active = {}
      BY <1>2, <1>3, <2>1 DEF DurableInv, Active
    <2>3. Request' = Request /\ Active' = Active
      BY <1>1, <2>1 DEF Request, Active
    <2>4. \A c \in Call \ cleared' : call'[c] = "ok" => Kept(db, c)'
      BY <1>2, <2>1, <2>3 DEF DurableInv, Kept
    <2>5. \A s \in Saver : pending'[s] = None
      BY <2>1
    <2>6. \A c \in Call \ cleared' : c \in committed' => db' = pending'[c]
      BY <1>2, <2>1 DEF DurableInv
    <2> QED BY <1>3, <2>1, <2>2, <2>3, <2>4, <2>5, <2>6 DEF DurableInv
  <1>5. CASE SaveIdentity \/ Reset \/ ClearMirror \/ FailReset \/ UNCHANGED vars
             \/ \E fee \in gossip : DeliverFee(fee)
    <2>1. UNCHANGED <<phase, net, call, pending, committed, db, cleared>>
      BY <1>5 DEF SaveIdentity, Reset, ClearMirror, FailReset, DeliverFee, vars, memory,
                  saving, store, control
    <2>2. /\ UNCHANGED <<net, call, db, scenario, cleared>> /\ phase' = phase
          /\ \A s \in Saver : pending'[s] \in {pending[s], None}
          /\ \A c \in Call : pending'[c] = pending[c]
          /\ committed' \subseteq committed
      BY <1>1, <2>1
    <2> QED BY <1>2, <2>2, StillDurable
  <1>6. CASE RestoreRuntime
    BY <1>2, <1>6, StartDurable
  <1>7. CASE FinishStart \/ FailStart
    <2>1. /\ EndSave(Boot) /\ Boot \in Saver /\ phase' = "up"
          /\ UNCHANGED <<net, call, db, cleared>> /\ Boot \notin Call
      BY <1>7, NetworkAssumption DEF FinishStart, FailStart, Saver, store
    <2>2. phase = "starting"
      BY <1>7 DEF ShapeInv, FinishStart, FailStart
    <2>3. \A s \in Saver : pending'[s] = IF s = Boot THEN None ELSE pending[s]
      BY <2>1 DEF EndSave, ShapeInv
    <2>4. /\ \A s \in Saver : pending'[s] \in {pending[s], None}
          /\ \A c \in Call : pending'[c] = pending[c]
      BY <1>3, <2>1, <2>3
    <2>5. committed' \subseteq committed
      BY <2>1 DEF EndSave
    <2> QED BY <1>1, <1>2, <2>1, <2>2, <2>4, <2>5, StillDurable
  <1>8. CASE End
    <2>1. /\ Vanish /\ UNCHANGED <<db, scenario, cleared>> /\ committed' = {}
          /\ \A s \in Saver : pending'[s] = None
          /\ call' = [c \in Call |-> IF c \in Active THEN "lost" ELSE call[c]]
      BY <1>8 DEF End, store
    <2>2. \A c \in Call : \/ call'[c] = call[c] /\ (c \in Active => pending'[c] # None)
                          \/ call'[c] \in {"lost", "failed"}
      BY <2>1
    <2>3. /\ \A s \in Saver : pending'[s] \in {pending[s], None}
          /\ committed' \subseteq committed
          /\ \A c \in committed' : pending'[c] = pending[c]
      BY <2>1
    <2> QED BY <1>2, <2>1, <2>2, <2>3, VanishDurable
  <1>9. CASE Stop
    <2>1. /\ Vanish /\ UNCHANGED <<db, scenario, cleared, pending, committed>>
          /\ call' = [c \in Call |-> IF c \in Active /\ pending[c] = None
                                     THEN "failed" ELSE call[c]]
      BY <1>9 DEF Stop, store, saving
    <2>2. \A c \in Call : \/ call'[c] = call[c] /\ (c \in Active => pending'[c] # None)
                          \/ call'[c] \in {"lost", "failed"}
      BY <2>1
    <2>3. /\ \A s \in Saver : pending'[s] \in {pending[s], None}
          /\ committed' \subseteq committed
          /\ \A c \in committed' : pending'[c] = pending[c]
      BY <2>1
    <2> QED BY <1>2, <2>1, <2>2, <2>3, VanishDurable
  <1>10. CASE ClearDatabase
    BY <1>2, <1>10, ClearDurable
  <1>11. ASSUME NEW s \in Saver, CommitSave(s) PROVE DurableInv'
    BY <1>2, <1>11, CommitDurable
  <1>12. ASSUME NEW c \in DOMAIN Request, CallStep(c) PROVE DurableInv'
    BY <1>2, <1>12, SavedDurable, CallStepDurable DEF CallStep
  <1> QED BY <1>4, <1>5, <1>6, <1>7, <1>8, <1>9, <1>10, <1>11, <1>12 DEF Next

\* "The current runtime snapshot is durably persisted in PostgreSQL": when calls are made
\* one at a time, what a call was answered with success, its block and its transfer or
\* its fee, is in the database, whatever restarts there are in between and whatever
\* saves fail, unless a reset has cleared it since (persistRuntimeState).
THEOREM AnswersAreDurable == Spec => []AcknowledgedIsDurable
  <1>1. ASSUME OneAtATime PROVE AcknowledgedIsDurable
    <2> SUFFICES ASSUME scenario.active = 1, NEW c \in Call \ cleared, call[c] = "ok"
                 PROVE  /\ db # None
                        /\ \E b \in Blocks(db.chain) : b.proposal = <<c, "vote">>
                        /\ Request[c].kind = "transfer" =>
                              \E i \in DOMAIN db.ledger.events :
                                 /\ db.ledger.events[i].kind = "transfer"
                                 /\ db.ledger.events[i].ref[1][1] = c
                        /\ Request[c].kind = "bridge" =>
                              \E i \in DOMAIN db.ledger.fees :
                                 db.ledger.fees[i].id[1] = c
      BY DEF AcknowledgedIsDurable
    <2>1. Kept(db, c)
      BY <1>1 DEF OneAtATime, DurableInv
    <2>2. \E b \in Blocks(db.chain) : b.proposal = <<c, "vote">>
      BY <2>1 DEF Kept, Done, Holds, Blocks
    <2> QED BY <2>1, <2>2 DEF Kept, Done, Moved, Charged
  <1>2. OneAtATime => AcknowledgedIsDurable
    BY <1>1
  <1>3. Spec => []OneAtATime
    BY Shape, Follow, Core, InitDurable, StepDurable, PTL DEF Spec
  <1> QED BY <1>2, <1>3, PTL

-----------------------------------------------------------------------------
(* The database stays with one history *)

\* Everything that may be committed is comparable with everything else that may, and with
\* what is stored, and none of it is ahead of the running nodes, from which the next
\* snapshot is taken; when calls do not overlap, none of it is behind what is stored.
HistoryInv ==
    /\ phase \in {"identifying", "starting"} => \A c \in Call : pending[c] = None
    /\ phase \in {"starting", "up"} =>
          /\ db # None => Extends(db, Snapshot(net))
          /\ \A s \in Saver : pending[s] # None => Extends(pending[s], Snapshot(net))
    /\ \A s \in Saver : pending[s] # None /\ db # None =>
          /\ Extends(db, pending[s]) \/ Extends(pending[s], db)
          /\ scenario.active = 1 => Extends(db, pending[s])
    /\ \A s, t \in Saver : pending[s] # None /\ pending[t] # None =>
          Extends(pending[s], pending[t]) \/ Extends(pending[t], pending[s])

LEMMA ExtendsSelf == ASSUME NEW s PROVE Extends(s, s)
  BY DEF Extends

LEMMA ExtendsTransitive ==
    ASSUME NEW s, NEW t, NEW u, Extends(s, t), Extends(t, u) PROVE Extends(s, u)
  BY DEF Extends

\* The nodes never fall behind themselves.
LEMMA GoesOnExtends ==
    ASSUME NEW n, NEW m, GoesOn(n, m), KeepsBooks(n, m)
    PROVE  Extends(Snapshot(n), Snapshot(m))
  <1>1. Begins(n.core.chain, m.core.chain) /\ Begins(n.ledger.events, m.ledger.events)
        /\ KeepsFees(n.ledger, m.ledger)
    BY DEF GoesOn, Grows, KeepsBooks
  <1>2. /\ Snapshot(n).chain = n.core.chain /\ Snapshot(m).chain = m.core.chain
        /\ Snapshot(n).ledger = n.ledger /\ Snapshot(m).ledger = m.ledger
    BY DEF Snapshot
  <1>3. ASSUME NEW s, NEW u, Begins(s, u)
        PROVE  {s[i] : i \in DOMAIN s} \subseteq {u[i] : i \in DOMAIN u}
    <2>1. ASSUME NEW i \in DOMAIN s PROVE s[i] \in {u[j] : j \in DOMAIN u}
      BY <1>3 DEF Begins
    <2> QED BY <2>1
  <1>4. ASSUME NEW i \in DOMAIN n.ledger.fees
        PROVE  \E j \in DOMAIN m.ledger.fees : m.ledger.fees[j].id = n.ledger.fees[i].id
    <2> DEFINE fee == n.ledger.fees[i]
    <2>1. Token!HasFee(n.ledger, fee)
      BY DEF Token!HasFee
    <2> HIDE DEF fee
    <2>2. Token!HasFee(m.ledger, fee)
      BY <1>1, <2>1 DEF KeepsFees
    <2> QED BY <2>2 DEF Token!HasFee, fee
  <1>5. {n.ledger.fees[i].id : i \in DOMAIN n.ledger.fees}
           \subseteq {m.ledger.fees[i].id : i \in DOMAIN m.ledger.fees}
    BY <1>4
  <1>6. Blocks(n.core.chain) \subseteq Blocks(m.core.chain)
    BY <1>1, <1>3 DEF Blocks
  <1>7. {n.ledger.events[i] : i \in DOMAIN n.ledger.events}
           \subseteq {m.ledger.events[i] : i \in DOMAIN m.ledger.events}
    BY <1>1, <1>3
  <1> QED BY <1>2, <1>5, <1>6, <1>7 DEF Extends

\* Nothing is stored but the snapshot of running nodes that are ahead of all others.
LEMMA SnapshotHistory ==
    ASSUME ShapeInv, NEW s \in Saver,
           phase' \in {"starting", "up"}, db' = db, scenario' = scenario,
           phase' = "starting" => \A c \in Call : pending'[c] = None,
           \A t \in Saver \ {s} : pending'[t] = pending[t],
           pending'[s] = None \/ pending'[s] = Snapshot(net'),
           db # None => Extends(db, Snapshot(net')),
           \A t \in Saver \ {s} : pending[t] # None => Extends(pending[t], Snapshot(net')),
           HistoryInv
    PROVE  HistoryInv'
  <1>1. Extends(Snapshot(net'), Snapshot(net'))
    BY ExtendsSelf
  <1>2. \A t \in Saver : pending'[t] # None => Extends(pending'[t], Snapshot(net'))
    BY <1>1
  <1>3. ASSUME NEW t \in Saver, pending'[t] # None, db' # None
        PROVE  /\ Extends(db', pending'[t]) \/ Extends(pending'[t], db')
               /\ scenario'.active = 1 => Extends(db', pending'[t])
    <2>1. CASE t = s
      BY <1>3, <2>1
    <2>2. CASE t # s
      BY <1>3, <2>2 DEF HistoryInv
    <2> QED BY <2>1, <2>2
  <1>4. ASSUME NEW t \in Saver, NEW u \in Saver, pending'[t] # None, pending'[u] # None
        PROVE  Extends(pending'[t], pending'[u]) \/ Extends(pending'[u], pending'[t])
    <2>1. CASE t = s \/ u = s
      BY <1>2, <1>4, <2>1
    <2>2. CASE t # s /\ u # s
      BY <1>4, <2>2 DEF HistoryInv
    <2> QED BY <2>1, <2>2
  <1>5. phase' # "identifying" /\ Snapshot(net)' = Snapshot(net')
    OBVIOUS
  <1> QED BY <1>2, <1>3, <1>4, <1>5 DEF HistoryInv

\* Saves that end, and a database that is cleared, leave less to compare.
LEMMA FewerHistory ==
    ASSUME HistoryInv, \A s \in Saver : pending'[s] \in {pending[s], None},
           db' \in {db, None}, scenario' = scenario,
           \/ phase' = "down"
           \/ phase' = phase /\ net' = net
           \/ phase = "starting" /\ phase' = "up" /\ net' = net
           \/ phase' = "identifying" /\ \A s \in Saver : pending[s] = None
    PROVE  HistoryInv'
  <1>1. Call \subseteq Saver
    BY DEF Saver
  <1>2. phase' \in {"identifying", "starting"} => \A c \in Call : pending'[c] = None
    BY <1>1 DEF HistoryInv
  <1>3. ASSUME phase' \in {"starting", "up"}
        PROVE  /\ db' # None => Extends(db', Snapshot(net'))
               /\ \A s \in Saver : pending'[s] # None => Extends(pending'[s], Snapshot(net'))
    <2>1. net' = net /\ phase \in {"starting", "up"}
      BY <1>3
    <2> QED BY <2>1 DEF HistoryInv
  <1>4. \A s \in Saver : pending'[s] # None /\ db' # None =>
           /\ Extends(db', pending'[s]) \/ Extends(pending'[s], db')
           /\ scenario'.active = 1 => Extends(db', pending'[s])
    BY DEF HistoryInv
  <1>5. \A s, t \in Saver : pending'[s] # None /\ pending'[t] # None =>
           Extends(pending'[s], pending'[t]) \/ Extends(pending'[t], pending'[s])
    BY DEF HistoryInv
  <1>6. Snapshot(net)' = Snapshot(net')
    OBVIOUS
  <1> QED BY <1>2, <1>3, <1>4, <1>5, <1>6 DEF HistoryInv

LEMMA CallStepHistory ==
    ASSUME ShapeInv, FollowInv, CoreInv, HistoryInv, NEW c \in DOMAIN Request,
           SubmitCall(c) \/ SettleTransfer(c) \/ RefuseTransfer(c) \/ ApproveBridge(c)
             \/ UnknownAdapter(c) \/ ChargeBridge(c) \/ RefuseBridge(c) \/ FinishBridge(c)
    PROVE  HistoryInv'
  <1>1. c \in Saver /\ Advances(c) /\ KeepsBooks(net, net')
    BY CallIsSaver, CallAdvances, CallStepFollows
  <1>2. GoesOn(net, net')
    BY SubmitCore, SettleCore, RefuseTransferCore, ApproveCore, BridgeCore
  <1>3. Extends(Snapshot(net), Snapshot(net'))
    BY <1>1, <1>2, GoesOnExtends
  <1>4. /\ phase = "up" /\ phase' = "up" /\ db' = db /\ scenario' = scenario
        /\ \A t \in Saver \ {c} : pending'[t] = pending[t]
    BY <1>1 DEF Advances, store, control, ShapeInv
  <1>5. UNCHANGED pending \/ StartSave(c, net')
    <2>1. ASSUME SettleTransfer(c) PROVE StartSave(c, net')
      <3>1. \E m : net' = m /\ StartSave(c, m)
        BY <2>1 DEF SettleTransfer
      <3> QED BY <3>1
    <2> QED BY <2>1 DEF SubmitCall, RefuseTransfer, ApproveBridge, UnknownAdapter,
                        ChargeBridge, RefuseBridge, FinishBridge
  <1>6. pending'[c] = None \/ pending'[c] = Snapshot(net')
    BY <1>1, <1>5, SavesMemory
  <1>7. /\ db # None => Extends(db, Snapshot(net'))
        /\ \A t \in Saver : pending[t] # None => Extends(pending[t], Snapshot(net'))
    <2>1. /\ db # None => Extends(db, Snapshot(net))
          /\ \A t \in Saver : pending[t] # None => Extends(pending[t], Snapshot(net))
      BY <1>4 DEF HistoryInv
    <2> QED BY <1>3, <2>1, ExtendsTransitive
  <1>8. /\ phase' \in {"starting", "up"}
        /\ phase' = "starting" => \A d \in Call : pending'[d] = None
        /\ \A t \in Saver \ {c} : pending[t] # None => Extends(pending[t], Snapshot(net'))
    BY <1>4, <1>7
  <1> QED BY <1>1, <1>4, <1>6, <1>7, <1>8, SnapshotHistory

LEMMA StartHistory ==
    ASSUME ShapeInv, FollowInv, CoreInv, HistoryInv, RestoreRuntime PROVE HistoryInv'
  <1>1. /\ phase = "identifying" /\ phase' = "starting" /\ db' = db /\ scenario' = scenario
        /\ StartSave(Boot, net') /\ Boot \in Saver
    BY DEF RestoreRuntime, control, Saver
  <1>2. pending'[Boot] = Snapshot(net') /\ \A t \in Saver \ {Boot} : pending'[t] = pending[t]
    BY <1>1 DEF StartSave, ShapeInv
  <1>3. \A t \in Saver \ {Boot} : pending[t] = None
    BY <1>1 DEF HistoryInv, Saver
  <1>4. \A c \in Call : pending'[c] = None
    BY <1>2, <1>3, NetworkAssumption DEF Saver
  <1>5. ASSUME db # None PROVE Extends(db, Snapshot(net'))
    <2>1. Source = db
      BY <1>5 DEF Source
    <2>2. net'.core.chain = db.chain /\ SameAccounts(db.ledger, net'.ledger)
      BY <1>5, <2>1, StartedNode
    <2>3. Snapshot(net').chain = db.chain /\ Snapshot(net').ledger = net'.ledger
      BY <2>2 DEF Snapshot
    <2> QED BY <2>2, <2>3 DEF SameAccounts, Extends
  <1>6. phase' \in {"starting", "up"}
        /\ \A t \in Saver \ {Boot} : pending[t] # None => Extends(pending[t], Snapshot(net'))
    BY <1>1, <1>3
  <1> QED BY <1>1, <1>2, <1>4, <1>5, <1>6, SnapshotHistory

\* A commit: when calls do not overlap, nobody else has a snapshot to commit.
LEMMA CommitHistory ==
    ASSUME ShapeInv, HistoryInv, OneAtATime, NEW s \in Saver, CommitSave(s)
    PROVE  HistoryInv'
  <1>1. /\ pending[s] # None /\ db' = pending[s]
        /\ UNCHANGED <<phase, net, pending, scenario>>
    BY DEF CommitSave, memory, control
  <1>2. ASSUME scenario.active = 1, NEW t \in Saver, pending[t] # None PROVE t = s
    <2>1. DurableInv
      BY <1>2 DEF OneAtATime
    <2>2. ASSUME NEW u \in Saver, pending[u] # None, u # Boot PROVE u \in Active
      BY <2>2 DEF ShapeInv, Saves, Active, Saver
    <2>3. CASE t # Boot
      BY <1>1, <1>2, <2>1, <2>2, <2>3, OneSaver
    <2>4. CASE s # Boot
      BY <1>1, <1>2, <2>1, <2>2, <2>4, OneSaver
    <2> QED BY <2>3, <2>4
  <1>3. ASSUME NEW t \in Saver, pending[t] # None
        PROVE  /\ Extends(pending[s], pending[t]) \/ Extends(pending[t], pending[s])
               /\ scenario.active = 1 => Extends(pending[s], pending[t])
    BY <1>1, <1>2, <1>3, ExtendsSelf DEF HistoryInv
  <1>4. phase \in {"starting", "up"} => Extends(pending[s], Snapshot(net))
    BY <1>1 DEF HistoryInv
  <1> QED BY <1>1, <1>3, <1>4 DEF HistoryInv

LEMMA InitHistory == Init => HistoryInv
  <1> SUFFICES ASSUME Init PROVE HistoryInv
    OBVIOUS
  <1>1. phase = "down" /\ \A s \in Saver : pending[s] = None
    BY DEF Init
  <1> QED BY <1>1 DEF HistoryInv

LEMMA StepHistory ==
    ShapeInv /\ FollowInv /\ CoreInv /\ OneAtATime /\ HistoryInv /\ [Next]_vars
      => HistoryInv'
  <1> SUFFICES ASSUME ShapeInv, FollowInv, CoreInv, OneAtATime, HistoryInv, [Next]_vars
               PROVE  HistoryInv'
    OBVIOUS
  <1>1. scenario' = scenario
    BY StepKeepsScenario
  <1>2. CASE LoadIdentities
    <2>1. phase' = "identifying" /\ db' = db /\ pending' = pending
          /\ \A s \in Saver : pending[s] = None
      BY <1>2 DEF LoadIdentities, saving, store
    <2> QED BY <1>1, <2>1, FewerHistory
  <1>3. CASE SaveIdentity \/ Reset \/ ClearDatabase \/ ClearMirror \/ FailReset
             \/ UNCHANGED vars \/ \E fee \in gossip : DeliverFee(fee)
    <2>1. UNCHANGED <<phase, net, pending>> /\ db' \in {db, None}
      BY <1>3 DEF SaveIdentity, Reset, ClearDatabase, ClearMirror, FailReset, DeliverFee,
                  vars, memory, saving, store
    <2> QED BY <1>1, <2>1, FewerHistory
  <1>4. CASE RestoreRuntime
    BY <1>4, StartHistory
  <1>5. CASE FinishStart \/ FailStart
    <2>1. EndSave(Boot) /\ Boot \in Saver /\ phase' = "up" /\ net' = net /\ db' = db
      BY <1>5 DEF FinishStart, FailStart, Saver, store
    <2>2. phase = "starting"
      BY <1>5 DEF ShapeInv, FinishStart, FailStart
    <2>3. \A s \in Saver : pending'[s] \in {pending[s], None}
      BY <2>1, EndSaveShape
    <2> QED BY <1>1, <2>1, <2>2, <2>3, FewerHistory
  <1>6. CASE End \/ Stop
    <2>1. phase' = "down" /\ db' = db /\ \A s \in Saver : pending'[s] \in {pending[s], None}
      BY <1>6 DEF End, Stop, Vanish, store, saving
    <2> QED BY <1>1, <2>1, FewerHistory
  <1>7. ASSUME NEW s \in Saver, CommitSave(s) PROVE HistoryInv'
    BY <1>7, CommitHistory
  <1>8. ASSUME NEW c \in DOMAIN Request, CallStep(c) PROVE HistoryInv'
    <2>1. CASE MirrorSave(c) \/ FailSave(c)
      <3>1. c \in Saver
        BY CallIsSaver
      <3>2. EndSave(c) /\ pending[c] # None /\ UNCHANGED <<phase, net, db>>
        BY <2>1 DEF MirrorSave, FailSave, memory, store, ShapeInv
      <3>3. \A s \in Saver : pending'[s] \in {pending[s], None}
        BY <3>1, <3>2, EndSaveShape
      <3> QED BY <1>1, <3>2, <3>3, FewerHistory
    <2>2. CASE ~(MirrorSave(c) \/ FailSave(c))
      BY <1>8, <2>2, CallStepHistory DEF CallStep
    <2> QED BY <2>1, <2>2
  <1> QED BY <1>2, <1>3, <1>4, <1>5, <1>6, <1>7, <1>8 DEF Next

\* However calls overlap, fail and are cut off, the rows that saves keep deleting and writing
\* are always of one history: each commit goes forward in it or back to an earlier
\* moment of it, and forward only when calls do not overlap, also from one process to
\* the next (saveRuntimeSnapshot, restoreRuntimeState).
THEOREM OneHistoryIsStored == Spec => StoredHistory
  <1> DEFINE A == db # None /\ db' # None
                  => /\ Extends(db, db') \/ Extends(db', db)
                     /\ scenario.active = 1 => Extends(db, db')
  <1>1. HistoryInv /\ [Next]_vars => [A]_vars
    <2> SUFFICES ASSUME HistoryInv, [Next]_vars PROVE A
      OBVIOUS
    <2>1. db' = db \/ db' = None \/ \E s \in Saver : pending[s] # None /\ db' = pending[s]
      BY DEF Next, LoadIdentities, SaveIdentity, RestoreRuntime, FinishStart, FailStart, End, Reset,
             ClearDatabase, ClearMirror, FailReset, Stop, CommitSave, CallStep, DeliverFee,
             MirrorSave, FailSave, SubmitCall, SettleTransfer, RefuseTransfer, ApproveBridge,
             UnknownAdapter, ChargeBridge, RefuseBridge, FinishBridge, Step, store, vars
    <2>2. CASE db' = db
      BY <2>2, ExtendsSelf
    <2>3. CASE \E s \in Saver : pending[s] # None /\ db' = pending[s]
      BY <2>3 DEF HistoryInv
    <2> QED BY <2>1, <2>2, <2>3
  <1>2. Spec => []OneAtATime
    BY Shape, Follow, Core, InitDurable, StepDurable, PTL DEF Spec
  <1>3. Spec => []HistoryInv
    BY Shape, Follow, Core, <1>2, InitHistory, StepHistory, PTL DEF Spec
  <1> QED BY <1>1, <1>3, PTL DEF Spec, StoredHistory
==============================================================================

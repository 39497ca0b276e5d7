------------------------ MODULE ReplicatedLogProofs ------------------------
(***************************************************************************)
(* Proofs about the abstract log, for any number of nodes and proposals    *)
(* and logs of any length.  The detailed model implements this log (the    *)
(* property ImplementsReplicatedLog of AgentLog).                          *)
(***************************************************************************)
EXTENDS ReplicatedLog, TLAPS

\* The leader's log, and it alone, grows by decisions that are new to it.
OnceAtLeader ==
    \A i, j \in DOMAIN log[Leader] :
        log[Leader][i].proposal = log[Leader][j].proposal => i = j

\* DecidedOnce is not inductive alone: a follower copies the leader's log, so
\* it is Prefix that carries the leader's uniqueness over to it.
IInv == Leader \in Node /\ TypeOK /\ Prefix /\ OnceAtLeader

LEMMA IInvInit ==
    ASSUME Leader \in Node, Init
    PROVE  IInv
<1>1. \A n \in Node : log[n] = <<>>
  BY DEF Init
<1>2. TypeOK
  BY DEF Init, TypeOK
<1>3. Prefix /\ OnceAtLeader
  BY <1>1 DEF Prefix, OnceAtLeader
<1> QED  BY <1>2, <1>3 DEF IInv

\* What appending an entry does to a log.
LEMMA AppendFacts ==
    ASSUME NEW s \in Seq(Entry), NEW e \in Entry
    PROVE  /\ Append(s, e) \in Seq(Entry)
           /\ Len(Append(s, e)) = Len(s) + 1
           /\ DOMAIN Append(s, e) = 1 .. Len(s) + 1
           /\ \A i \in 1 .. Len(s) : Append(s, e)[i] = s[i]
           /\ Append(s, e)[Len(s) + 1] = e
  OBVIOUS

LEMMA DecideStep ==
    ASSUME IInv, Decide
    PROVE  IInv'
<1>0. Leader \in Node
  BY DEF IInv
<1> USE <1>0
<1>1. PICK e \in Entry : /\ Undecided(e.proposal)
                         /\ log' = [log EXCEPT ![Leader] = Append(@, e)]
  BY DEF Decide
<1>2. log \in [Node -> Seq(Entry)]
  BY DEF IInv, TypeOK
<1> DEFINE new == Append(log[Leader], e)
<1>3. /\ new \in Seq(Entry) /\ Len(new) = Len(log[Leader]) + 1
      /\ DOMAIN new = 1 .. Len(log[Leader]) + 1
      /\ \A i \in 1 .. Len(log[Leader]) : new[i] = log[Leader][i]
      /\ new[Len(log[Leader]) + 1] = e
  BY <1>2, AppendFacts
<1> HIDE DEF new
<1>4. log'[Leader] = new /\ \A n \in Node \ {Leader} : log'[n] = log[n]
  BY <1>1, <1>2 DEF new
<1>5. TypeOK'
  BY <1>1, <1>2, <1>3 DEF TypeOK, new
<1>6. Prefix'
  <2> SUFFICES ASSUME NEW n \in Node
               PROVE  /\ Len(log'[n]) <= Len(log'[Leader])
                      /\ \A i \in DOMAIN log'[n] : log'[n][i] = log'[Leader][i]
    BY DEF Prefix
  <2>1. CASE n = Leader
    BY <1>3, <1>4, <2>1
  <2>2. CASE n # Leader
    <3>1. /\ log[n] \in Seq(Entry) /\ log[Leader] \in Seq(Entry)
          /\ Len(log[n]) <= Len(log[Leader])
          /\ \A i \in DOMAIN log[n] : log[n][i] = log[Leader][i]
      BY <1>2 DEF IInv, Prefix
    <3>2. DOMAIN log[n] = 1 .. Len(log[n]) /\ DOMAIN log[n] \subseteq 1 .. Len(log[Leader])
      BY <3>1
    <3> QED  BY <1>3, <1>4, <2>2, <3>1, <3>2, SMTT(30)
  <2> QED  BY <2>1, <2>2
<1>7. OnceAtLeader'
  <2>1. DOMAIN log[Leader] = 1 .. Len(log[Leader]) /\ Len(log[Leader]) \in Nat
    BY <1>2
  <2>2. \A i \in DOMAIN log[Leader] : log[Leader][i].proposal # e.proposal
    BY <1>1 DEF Undecided
  <2>3. SUFFICES ASSUME NEW i \in 1 .. Len(log[Leader]) + 1,
                        NEW j \in 1 .. Len(log[Leader]) + 1,
                        new[i].proposal = new[j].proposal
                 PROVE  i = j
    BY <1>3, <1>4 DEF OnceAtLeader
  <2>4. ASSUME NEW k \in 1 .. Len(log[Leader])
        PROVE  new[k].proposal # new[Len(log[Leader]) + 1].proposal
    BY <1>3, <2>1, <2>2
  <2>5. CASE i \in 1 .. Len(log[Leader]) /\ j \in 1 .. Len(log[Leader])
    BY <1>3, <2>1, <2>3, <2>5 DEF IInv, OnceAtLeader
  <2>6. CASE i = Len(log[Leader]) + 1 \/ j = Len(log[Leader]) + 1
    BY <2>1, <2>3, <2>4, <2>6
  <2> QED  BY <2>1, <2>5, <2>6
<1> QED  BY <1>5, <1>6, <1>7 DEF IInv

LEMMA LearnStep ==
    ASSUME IInv, NEW m \in Node, Learn(m)
    PROVE  IInv'
<1>0. Leader \in Node
  BY DEF IInv
<1> USE <1>0
<1> DEFINE e == log[Leader][Len(log[m]) + 1]
           new == Append(log[m], e)
<1>1. log \in [Node -> Seq(Entry)]
  BY DEF IInv, TypeOK
<1>2. /\ log[m] \in Seq(Entry) /\ log[Leader] \in Seq(Entry)
      /\ m # Leader /\ Len(log[m]) < Len(log[Leader])
      /\ Len(log[m]) \in Nat /\ Len(log[Leader]) \in Nat
      /\ \A i \in DOMAIN log[m] : log[m][i] = log[Leader][i]
  BY <1>1 DEF Learn, IInv, Prefix
<1>3. e \in Entry
  BY <1>2
<1>4. log' = [log EXCEPT ![m] = new]
  BY <1>1 DEF Learn
<1> HIDE DEF e
<1>5. /\ new \in Seq(Entry) /\ Len(new) = Len(log[m]) + 1
      /\ DOMAIN new = 1 .. Len(log[m]) + 1
      /\ \A i \in 1 .. Len(log[m]) : new[i] = log[m][i]
      /\ new[Len(log[m]) + 1] = e
  BY <1>2, <1>3, AppendFacts
<1> HIDE DEF new
<1>6. log'[m] = new /\ \A n \in Node \ {m} : log'[n] = log[n]
  BY <1>1, <1>4
<1>7. TypeOK'
  BY <1>1, <1>4, <1>5 DEF TypeOK
<1>8. Prefix'
  <2> SUFFICES ASSUME NEW n \in Node
               PROVE  /\ Len(log'[n]) <= Len(log'[Leader])
                      /\ \A i \in DOMAIN log'[n] : log'[n][i] = log'[Leader][i]
    BY DEF Prefix
  <2>1. CASE n = m
    <3>1. \A i \in DOMAIN new : i \in DOMAIN log[m] \/ i = Len(log[m]) + 1
      BY <1>2, <1>5
    <3>2. \A i \in DOMAIN log[m] : new[i] = log[m][i]
      BY <1>2, <1>5
    <3>3. \A i \in DOMAIN new : new[i] = log[Leader][i]
      BY <1>2, <1>5, <3>1, <3>2 DEF e
    <3>4. log'[n] = new /\ log'[Leader] = log[Leader]
      BY <1>0, <1>2, <1>6, <2>1
    <3>5. Len(new) <= Len(log[Leader])
      BY <1>2, <1>5
    <3> HIDE DEF e
    <3> QED  BY <3>3, <3>4, <3>5
  <2>2. CASE n # m
    BY <1>2, <1>6, <2>2 DEF IInv, Prefix
  <2> QED  BY <2>1, <2>2
<1>9. OnceAtLeader'
  BY <1>2, <1>6 DEF IInv, OnceAtLeader
<1> QED  BY <1>7, <1>8, <1>9 DEF IInv

LEMMA IInvStep ==
    IInv /\ [Next]_log => IInv'
<1>1. ASSUME IInv, UNCHANGED log PROVE IInv'
  BY <1>1 DEF IInv, TypeOK, Prefix, OnceAtLeader
<1> QED  BY <1>1, DecideStep, LearnStep DEF Next

\* However the nodes' learning interleaves with the leader's deciding, what a
\* node knows is an initial part of what the leader decided: no node is ahead
\* of it, and none has a decision at another place in its chain.
THEOREM LogsArePrefixes ==
    ASSUME Leader \in Node
    PROVE  Spec => []Prefix
<1>0. Init => IInv
  BY IInvInit
<1>1. IInv => Prefix
  BY DEF IInv
<1> QED  BY <1>0, <1>1, IInvStep, PTL DEF Spec

\* No node ever holds two decisions on one proposal, although only the leader
\* looks whether a proposal is decided before it appends.
THEOREM OneDecisionPerProposal ==
    ASSUME Leader \in Node
    PROVE  Spec => []DecidedOnce
<1>0. Init => IInv
  BY IInvInit
<1>1. IInv => DecidedOnce
  <2> SUFFICES ASSUME IInv, NEW n \in Node, NEW i \in DOMAIN log[n], NEW j \in DOMAIN log[n],
                      log[n][i].proposal = log[n][j].proposal
               PROVE  i = j
    BY DEF DecidedOnce
  <2>1. /\ log[n] \in Seq(Entry) /\ log[Leader] \in Seq(Entry)
        /\ Len(log[n]) <= Len(log[Leader])
        /\ log[n][i] = log[Leader][i] /\ log[n][j] = log[Leader][j]
    BY DEF IInv, TypeOK, Prefix
  <2>2. i \in DOMAIN log[Leader] /\ j \in DOMAIN log[Leader]
    BY <2>1
  <2> QED  BY <2>1, <2>2 DEF IInv, OnceAtLeader
<1> QED  BY <1>0, <1>1, IInvStep, PTL DEF Spec
==============================================================================

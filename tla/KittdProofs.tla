----------------------------- MODULE KittdProofs -----------------------------
(***************************************************************************)
(* Proofs about kittd: its requests and the ask pipeline (Assistant), for  *)
(* every set of connections, every limit and every locality of the two     *)
(* providers, and the events it sends to its heads-up display              *)
(* (HudBroadcast), for every set of requests and HUD processes and every   *)
(* number of subscribers and events.                                       *)
(***************************************************************************)
EXTENDS Assistant, HudBroadcast, FiniteSetTheorems, SequenceTheorems, TLAPS

USE DEF Goto

(***************************************************************************)
(* Types.                                                                  *)
(***************************************************************************)

(* Memories of the store, and episodes, are memories.                      *)
LEMMA EpisodeType ==
  ASSUME NEW memories
  PROVE  Episode(memories) \in Memory
BY DEF Episode, Memory, Sensitivity

LEMMA RecallType ==
  ASSUME TypeOK, NEW isLocal
  PROVE  RecallForModel(isLocal) \subseteq store
BY DEF RecallForModel, Recall

LEMMA AllowsType ==
  ASSUME NEW sensitivity
  PROVE  Allows(FALSE, sensitivity) \in BOOLEAN
BY AssistantAssumption DEF Allows

(* A request that is not a question leaves memories in the store.          *)
LEMMA WorkType ==
  ASSUME TypeOK, Work
  PROVE  store' \subseteq Memory
<1>1. ASSUME NEW s \in Sensitivity, Remember(s)
      PROVE  store' \subseteq Memory
  <2>1. [sensitivity |-> s, confidential |-> ~Allows(FALSE, s)] \in Memory
    BY AllowsType DEF Memory
  <2> QED BY <1>1, <2>1 DEF TypeOK, Remember
<1>2. CASE RememberExplicit
  <2>1. "private" \in Sensitivity
    BY DEF Sensitivity
  <2> QED BY <1>1, <1>2, <2>1 DEF RememberExplicit
<1>3. CASE Forget
  BY <1>3 DEF TypeOK, Forget
<1>4. CASE UNCHANGED store
  BY <1>4 DEF TypeOK
<1> QED BY <1>1, <1>2, <1>3, <1>4 DEF Work

(* The model that is chosen is one of the two.                             *)
LEMMA ChooseType ==
  ASSUME NEW hint \in Tier \cup {"auto"}, NEW simple \in BOOLEAN
  PROVE  Choose(hint, simple) \in Tier
BY DEF Choose, Tier

LEMMA FailsType ==
  ASSUME TypeOK, NEW c \in Caller, Fails(c)
  PROVE  /\ pc' \in [Caller -> Handling \cup {"closed", "waiting", "refused"}]
         /\ tier' \in [Caller -> Tier]
         /\ context' \in [Caller -> SUBSET Memory]
BY DEF TypeOK, Fails, Second, Handling, Tier

LEMMA TypeStep ==
  ASSUME TypeOK, [Next]_vars
  PROVE  TypeOK'
<1> USE AssistantAssumption DEF Handling
<1>1. ASSUME NEW c \in Client, Accept(c)
      PROVE  TypeOK'
  BY <1>1 DEF TypeOK, Accept, asking, Caller
<1>2. ASSUME NEW c \in Client, Refuse(c)
      PROVE  TypeOK'
  BY <1>2 DEF TypeOK, Refuse, asking, Caller
<1>3. CASE VoiceAsks
  <2>1. PICK simple \in BOOLEAN : Begin(Voice, Choose("auto", simple))
    BY <1>3 DEF VoiceAsks
  <2>2. Choose("auto", simple) \in Tier
    BY ChooseType
  <2> QED BY <1>3, <2>1, <2>2 DEF TypeOK, VoiceAsks, Begin, Caller
<1>4. CASE Expire
  BY <1>4 DEF TypeOK, Expire, asking
<1>5. ASSUME NEW c \in Caller, Connect(c)
      PROVE  TypeOK'
  BY <1>5 DEF TypeOK, Connect, asking
<1>6. ASSUME NEW c \in Caller, Dispatch(c)
      PROVE  TypeOK'
  <2>1. CASE Work /\ Goto(c, "reply") /\ UNCHANGED asking
    BY <1>6, <2>1, WorkType DEF TypeOK, Dispatch, asking
  <2>2. CASE /\ \E hint \in Tier \cup {"auto"}, simple \in BOOLEAN : Begin(c, Choose(hint, simple))
             /\ UNCHANGED store
    BY <1>6, <2>2, ChooseType DEF TypeOK, Dispatch, Begin
  <2> QED BY <1>6, <2>1, <2>2 DEF Dispatch
<1>7. ASSUME NEW c \in Caller, TakeMemories(c)
      PROVE  TypeOK'
  <2>1. CASE Fails(c)
    BY <1>7, <2>1, FailsType DEF TypeOK, TakeMemories
  <2>2. ASSUME NEW memories \in SUBSET RecallForModel(local[tier[c]]),
               context' = [context EXCEPT ![c] = memories], Goto(c, "model"), UNCHANGED tier
        PROVE  TypeOK'
    <3>1. memories \in SUBSET Memory
      BY <2>2, RecallType DEF TypeOK
    <3> QED BY <1>7, <2>2, <3>1 DEF TypeOK, TakeMemories
  <2> QED BY <1>7, <2>1, <2>2 DEF TakeMemories
<1>8. ASSUME NEW c \in Caller, Complete(c)
      PROVE  TypeOK'
  <2>1. CASE Fails(c)
    BY <1>8, <2>1, FailsType DEF TypeOK, Complete
  <2>2. CASE Goto(c, "episode") /\ UNCHANGED asking
    BY <1>8, <2>2 DEF TypeOK, Complete, asking
  <2> QED BY <1>8, <2>1, <2>2 DEF Complete
<1>9. ASSUME NEW c \in Caller, RememberEpisode(c)
      PROVE  TypeOK'
  BY <1>9, EpisodeType DEF TypeOK, RememberEpisode, Tier
<1>10. ASSUME NEW c \in Caller, Close(c)
       PROVE  TypeOK'
  BY <1>10 DEF TypeOK, Close, asking
<1>11. CASE UNCHANGED vars
  BY <1>11 DEF TypeOK, vars, asking
<1> QED
  BY <1>1, <1>2, <1>3, <1>4, <1>5, <1>6, <1>7, <1>8, <1>9, <1>10, <1>11
  DEF Next, AcceptLoop, Handle

LEMMA TypeInit == Init => TypeOK
BY AssistantAssumption DEF Init, TypeOK, Tier, Handling, Caller

(* Every reachable state of the requests and of the memories is well typed.*)
THEOREM TypeCorrect == Spec => []TypeOK
<1>1. Init => TypeOK
  BY TypeInit
<1>2. TypeOK /\ [Next]_vars => TypeOK'
  BY TypeStep
<1> QED BY <1>1, <1>2, PTL DEF Spec

(***************************************************************************)
(* Privacy.                                                                *)
(***************************************************************************)

(* A text that must not leave the machine is stored under a sensitivity    *)
(* that says so.                                                           *)
Labelled(memories) == \A m \in memories : m.confidential => ~Allows(FALSE, m.sensitivity)

(* What goes with a question was allowed to go to its model.               *)
Cleared(c) ==
  pc[c] = "model" =>
    /\ Labelled(context[c])
    /\ \A m \in context[c] : Allows(local[tier[c]], m.sensitivity)

PrivacyInv == Labelled(store) /\ \A c \in Caller : Cleared(c)

(* What a request other than a question puts in the store is labelled.     *)
LEMMA WorkLabels ==
  ASSUME TypeOK, PrivacyInv, Work
  PROVE  Labelled(store)'
<1>1. ASSUME NEW s \in Sensitivity, Remember(s)
      PROVE  Labelled(store)'
  <2> DEFINE new == [sensitivity |-> s, confidential |-> ~Allows(FALSE, s)]
  <2>1. new.confidential => ~Allows(FALSE, new.sensitivity)
    BY AllowsType, Zenon
  <2>2. store' = store \cup {new}
    BY <1>1 DEF Remember
  <2>3. ASSUME NEW m \in store', m.confidential
        PROVE  ~Allows(FALSE, m.sensitivity)
    BY <2>1, <2>2, <2>3, Zenon DEF PrivacyInv, Labelled
  <2> QED BY <2>3, Zenon DEF Labelled, Allows
<1>2. CASE RememberExplicit
  <2>1. "private" \in Sensitivity
    BY DEF Sensitivity
  <2> QED BY <1>1, <1>2, <2>1 DEF RememberExplicit
<1>3. CASE Forget
  BY <1>3 DEF PrivacyInv, Labelled, Forget, Allows
<1>4. CASE UNCHANGED store
  BY <1>4 DEF PrivacyInv, Labelled, Allows
<1> QED BY <1>1, <1>2, <1>3, <1>4 DEF Work

(* An episode is private, whatever its text repeats.                       *)
LEMMA EpisodeLabelled ==
  ASSUME NEW memories
  PROVE  ~Allows(FALSE, Episode(memories).sensitivity)
BY DEF Episode, Allows

(* A question whose caller does not ask a model now goes on as it may.     *)
LEMMA ClearedElsewhere ==
  ASSUME TypeOK, PrivacyInv, NEW c \in Caller,
         UNCHANGED local,
         \A d \in Caller \ {c} : pc'[d] = pc[d] /\ tier'[d] = tier[d] /\ context'[d] = context[d],
         pc'[c] # "model"
  PROVE  \A d \in Caller : Cleared(d)'
BY DEF PrivacyInv, Cleared, Labelled, Allows

LEMMA PrivacyStep ==
  ASSUME TypeOK, PrivacyInv, [Next]_vars
  PROVE  PrivacyInv'
<1> USE AssistantAssumption
<1>a. ASSUME UNCHANGED store
      PROVE  Labelled(store)'
  BY <1>a DEF PrivacyInv, Labelled, Allows
<1>1. ASSUME NEW c \in Client, Accept(c) \/ Refuse(c)
      PROVE  PrivacyInv'
  <2>1. c \in Caller /\ UNCHANGED store /\ pc'[c] # "model"
    BY <1>1 DEF TypeOK, Accept, Refuse, Caller
  <2>2. \A d \in Caller : Cleared(d)'
    BY <1>1, <2>1, ClearedElsewhere DEF TypeOK, Accept, Refuse, asking
  <2> QED BY <1>a, <2>1, <2>2 DEF PrivacyInv
<1>3. CASE VoiceAsks
  <2>1. Voice \in Caller
    BY DEF Caller
  <2>2. PICK t : Begin(Voice, t)
    BY <1>3 DEF VoiceAsks
  <2>3. \A d \in Caller : Cleared(d)'
    BY <1>3, <2>1, <2>2, ClearedElsewhere DEF TypeOK, VoiceAsks, Begin
  <2> QED BY <1>a, <1>3, <2>3 DEF PrivacyInv, VoiceAsks
<1>4. CASE Expire
  <2>1. Labelled(store)'
    BY <1>4 DEF Expire, PrivacyInv, Labelled, Allows
  <2>2. \A d \in Caller : Cleared(d)'
    BY <1>4 DEF Expire, asking, PrivacyInv, Cleared, Labelled, Allows
  <2> QED BY <2>1, <2>2 DEF PrivacyInv
<1>5. ASSUME NEW c \in Caller, Connect(c) \/ Close(c)
      PROVE  PrivacyInv'
  <2>1. \A d \in Caller : Cleared(d)'
    BY <1>5, ClearedElsewhere DEF TypeOK, Connect, Close, asking
  <2> QED BY <1>a, <1>5, <2>1 DEF PrivacyInv, Connect, Close
<1>6. ASSUME NEW c \in Caller, Dispatch(c)
      PROVE  PrivacyInv'
  <2>1. CASE Work /\ Goto(c, "reply") /\ UNCHANGED asking
    <3>1. \A d \in Caller : Cleared(d)'
      BY <1>6, <2>1, ClearedElsewhere DEF TypeOK, Dispatch, asking
    <3> QED BY <2>1, <3>1, WorkLabels DEF PrivacyInv
  <2>2. ASSUME NEW t, Begin(c, t), UNCHANGED store
        PROVE  PrivacyInv'
    <3>1. \A d \in Caller : Cleared(d)'
      BY <1>6, <2>2, ClearedElsewhere DEF TypeOK, Dispatch, Begin
    <3> QED BY <1>a, <2>2, <3>1 DEF PrivacyInv
  <2> QED BY <1>6, <2>1, <2>2 DEF Dispatch
<1>b. ASSUME NEW c \in Caller, Fails(c), UNCHANGED <<local, store>>
      PROVE  PrivacyInv'
  <2>1. \A d \in Caller : Cleared(d)'
    BY <1>b, ClearedElsewhere DEF TypeOK, Fails, Second
  <2> QED BY <1>a, <1>b, <2>1 DEF PrivacyInv
<1>7. ASSUME NEW c \in Caller, TakeMemories(c)
      PROVE  PrivacyInv'
  <2>1. ASSUME NEW memories \in SUBSET RecallForModel(local[tier[c]]),
               context' = [context EXCEPT ![c] = memories], Goto(c, "model"), UNCHANGED tier
        PROVE  PrivacyInv'
    <3>1. /\ Labelled(memories)
          /\ \A m \in memories : Allows(local[tier[c]], m.sensitivity)
      BY <2>1 DEF PrivacyInv, Labelled, RecallForModel, Recall
    <3>2. \A d \in Caller \ {c} : Cleared(d)'
      BY <1>7, <2>1 DEF TypeOK, TakeMemories, PrivacyInv, Cleared, Labelled, Allows
    <3>3. Cleared(c)'
      BY <1>7, <2>1, <3>1 DEF TypeOK, TakeMemories, Cleared, Labelled, Allows
    <3> QED BY <1>a, <1>7, <3>2, <3>3 DEF PrivacyInv, TakeMemories
  <2> QED BY <1>7, <1>b, <2>1 DEF TakeMemories
<1>8. ASSUME NEW c \in Caller, Complete(c)
      PROVE  PrivacyInv'
  <2>1. CASE Goto(c, "episode") /\ UNCHANGED asking
    <3>1. \A d \in Caller : Cleared(d)'
      BY <1>8, <2>1, ClearedElsewhere DEF TypeOK, Complete, asking
    <3> QED BY <1>a, <1>8, <3>1 DEF PrivacyInv, Complete
  <2> QED BY <1>8, <1>b, <2>1 DEF Complete
<1>9. ASSUME NEW c \in Caller, RememberEpisode(c)
      PROVE  PrivacyInv'
  <2>1. Labelled(store)'
    BY <1>9, EpisodeLabelled DEF RememberEpisode, PrivacyInv, Labelled, Allows
  <2>2. \A d \in Caller : Cleared(d)'
    BY <1>9, ClearedElsewhere DEF TypeOK, RememberEpisode
  <2> QED BY <2>1, <2>2 DEF PrivacyInv
<1>10. CASE UNCHANGED vars
  BY <1>10 DEF vars, asking, PrivacyInv, Cleared, Labelled, Allows
<1> QED
  BY <1>1, <1>3, <1>4, <1>5, <1>6, <1>7, <1>8, <1>9, <1>10
  DEF Next, AcceptLoop, Handle

(* README.md, "secret/private memory stripped from remote-provider paths":    *)
(* no question to a remote provider, a fallback included, has a memory with*)
(* it that must not leave the machine, nor an episode that repeats one.    *)
THEOREM Privacy == Spec => []NothingPrivateLeaves
<1>1. Init => PrivacyInv
  BY DEF Init, PrivacyInv, Labelled, Cleared
<1>2. TypeOK /\ PrivacyInv /\ [Next]_vars => PrivacyInv'
  BY PrivacyStep
<1>3. TypeOK /\ PrivacyInv => NothingPrivateLeaves
  BY DEF TypeOK, PrivacyInv, Cleared, Labelled, NothingPrivateLeaves
<1> QED BY <1>1, <1>2, <1>3, TypeCorrect, PTL DEF Spec

(***************************************************************************)
(* The connections.                                                        *)
(***************************************************************************)

Served == {c \in Client : pc[c] \in Handling}

(* The accept loop refuses one connection at a time.                       *)
CountInv ==
  /\ active = Cardinality(Served) + (IF accepting = Nobody THEN 0 ELSE 1)
  /\ Cardinality(Served) <= MaxConnections
  /\ accepting # Nobody => pc[accepting] = "refused"
  /\ \A c \in Client : pc[c] = "refused" => accepting = c

LEMMA ServedFinite ==
  IsFiniteSet(Served) /\ Cardinality(Served) \in Nat
<1>1. IsFiniteSet(Served)
  BY AssistantAssumption, FS_Subset DEF Served
<1> QED BY <1>1, FS_CardinalityType

(* A caller that goes on handling, or is not handled, counts as before.    *)
LEMMA SameServed ==
  ASSUME TypeOK, CountInv, NEW c \in Caller, NEW label,
         Goto(c, label), UNCHANGED <<active, accepting>>,
         pc[c] # "refused", label # "refused",
         (pc[c] \in Handling) <=> (label \in Handling)
  PROVE  CountInv'
<1>1. Served' = Served
  BY DEF TypeOK, Served
<1>2. accepting # Nobody => pc'[accepting] = "refused"
  BY DEF TypeOK, CountInv, Caller
<1>3. \A d \in Client : pc'[d] = "refused" => accepting = d
  BY DEF TypeOK, CountInv, Caller
<1> QED BY <1>1, <1>2, <1>3 DEF CountInv

LEMMA CountAccept ==
  ASSUME TypeOK, CountInv, NEW c \in Client, Accept(c)
  PROVE  CountInv'
<1> USE AssistantAssumption
<1>0. active = Cardinality(Served)
  BY ServedFinite DEF Accept, CountInv
<1>1. c \in Caller /\ c # Nobody /\ c \notin Served /\ active = Cardinality(Served)
  BY <1>0 DEF Accept, Served, Handling, Caller
<1>2. \A d \in Client : pc[d] # "refused"
  BY DEF Accept, CountInv
<1>3. CASE active >= MaxConnections
  <2>1. Served' = Served
    <3>1. Goto(c, "refused") /\ pc[c] = "waiting"
      BY <1>3 DEF Accept
    <3> QED BY <1>1, <3>1 DEF TypeOK, Served, Handling
  <2>2. pc'[c] = "refused" /\ accepting' = c
    BY <1>1, <1>3 DEF Accept, TypeOK
  <2>3. \A d \in Client : pc'[d] = "refused" => d = c
    BY <1>1, <1>2, <1>3 DEF Accept, TypeOK, Caller
  <2>4. active' = Cardinality(Served') + 1
    BY <1>1, <2>1 DEF Accept
  <2> QED BY <1>1, <2>1, <2>2, <2>3, <2>4 DEF CountInv
<1>4. CASE ~(active >= MaxConnections)
  <2>1. Served' = Served \cup {c}
    <3>1. Goto(c, "read")
      BY <1>4 DEF Accept
    <3> QED BY <1>1, <3>1 DEF TypeOK, Served, Handling
  <2>2. Cardinality(Served') = Cardinality(Served) + 1
    <3>1. IsFiniteSet(Served) /\ c \notin Served
      BY <1>1, ServedFinite
    <3> QED BY <2>1, <3>1, FS_AddElement
  <2>3. accepting' = Nobody /\ active' = active + 1
    BY <1>4 DEF Accept
  <2>4. \A d \in Client : pc'[d] # "refused"
    BY <1>1, <1>2, <1>4 DEF Accept, TypeOK, Caller
  <2>5. Cardinality(Served) + 1 <= MaxConnections
    <3>1. Cardinality(Served) \in Nat
      BY ServedFinite
    <3>2. Cardinality(Served) < MaxConnections
      BY <1>0, <1>4, <3>1
    <3> QED BY <3>1, <3>2
  <2>6. active' = Cardinality(Served') + 0
    BY <1>1, <2>2, <2>3, ServedFinite
  <2> QED BY <2>2, <2>3, <2>4, <2>5, <2>6 DEF CountInv
<1> QED BY <1>3, <1>4

LEMMA CountRefuse ==
  ASSUME TypeOK, CountInv, NEW c \in Client, Refuse(c)
  PROVE  CountInv'
<1> USE AssistantAssumption
<1>1. c \in Caller /\ accepting = c /\ c # Nobody
  BY DEF Refuse, CountInv, Caller
<1>2. Served' = Served
  BY <1>1 DEF Refuse, TypeOK, Served, Handling
<1>3. \A d \in Client : pc'[d] # "refused"
  BY <1>1 DEF Refuse, TypeOK, CountInv, Caller
<1>4. active' = Cardinality(Served') /\ accepting' = Nobody
  BY <1>1, <1>2, ServedFinite DEF Refuse, CountInv
<1> QED BY <1>2, <1>3, <1>4, ServedFinite DEF CountInv

LEMMA CountClose ==
  ASSUME TypeOK, CountInv, NEW c \in Caller, Close(c)
  PROVE  CountInv'
<1> USE AssistantAssumption
<1>1. accepting # Nobody => pc'[accepting] = "refused"
  BY DEF Close, TypeOK, CountInv, Caller
<1>2. \A d \in Client : pc'[d] = "refused" => accepting' = d
  BY DEF Close, TypeOK, CountInv, Caller
<1>3. CASE c = Voice
  <2>1. Served' = Served
    BY <1>3 DEF Close, TypeOK, Served, Caller
  <2> QED BY <1>1, <1>2, <1>3, <2>1 DEF CountInv, Close
<1>4. CASE c \in Client
  <2>1. c # Voice /\ c \in Served
    BY <1>4 DEF Close, Served, Handling
  <2>2. Served' = Served \ {c}
    BY <1>4 DEF Close, TypeOK, Served, Handling, Caller
  <2>3. Cardinality(Served') = Cardinality(Served) - 1
    BY <2>1, <2>2, ServedFinite, FS_RemoveElement
  <2>4. active' = active - 1 /\ accepting' = accepting
    BY <2>1 DEF Close
  <2> QED BY <1>1, <1>2, <2>3, <2>4, ServedFinite DEF CountInv, Close
<1> QED BY <1>3, <1>4 DEF Caller

LEMMA CountStep ==
  ASSUME TypeOK, CountInv, [Next]_vars
  PROVE  CountInv'
<1> USE AssistantAssumption
<1>1. ASSUME NEW c \in Client, Accept(c) \/ Refuse(c)
      PROVE  CountInv'
  BY <1>1, CountAccept, CountRefuse
<1>2. ASSUME NEW c \in Caller, Close(c)
      PROVE  CountInv'
  BY <1>2, CountClose
<1>3. ASSUME UNCHANGED <<pc, active, accepting>>
      PROVE  CountInv'
  BY <1>3 DEF CountInv, Served
<1>4. CASE VoiceAsks
  <2>1. Voice \in Caller /\ pc[Voice] = "closed"
    BY <1>4 DEF VoiceAsks, Caller
  <2>2. Goto(Voice, "recall") /\ UNCHANGED <<active, accepting>>
    BY <1>4 DEF VoiceAsks, Begin
  <2>3. Served' = Served
    BY <2>2 DEF TypeOK, Served
  <2>4. accepting # Nobody => pc'[accepting] = "refused"
    BY <2>1, <2>2 DEF TypeOK, CountInv, Caller
  <2>5. \A d \in Client : pc'[d] = "refused" => accepting = d
    BY <2>2 DEF TypeOK, CountInv, Caller
  <2> QED BY <2>2, <2>3, <2>4, <2>5 DEF CountInv
<1>5. ASSUME NEW c \in Caller, Connect(c)
      PROVE  CountInv'
  <2>1. pc[c] = "closed" /\ Goto(c, "waiting") /\ UNCHANGED <<active, accepting>>
    BY <1>5 DEF Connect
  <2> QED BY <2>1, SameServed DEF Handling
<1>6. ASSUME NEW c \in Caller, Dispatch(c)
      PROVE  CountInv'
  <2>1. pc[c] = "read" /\ UNCHANGED <<active, accepting>>
    BY <1>6 DEF Dispatch
  <2>2. Goto(c, "reply") \/ Goto(c, "recall")
    BY <1>6 DEF Dispatch, Begin
  <2> QED BY <2>1, <2>2, SameServed DEF Handling
<1>a. ASSUME NEW c \in Caller, Fails(c)
      PROVE  Goto(c, "reply") \/ Goto(c, "recall")
  BY <1>a DEF Fails, Second
<1>7. ASSUME NEW c \in Caller, TakeMemories(c)
      PROVE  CountInv'
  <2>1. pc[c] = "recall" /\ UNCHANGED <<active, accepting>>
    BY <1>7 DEF TakeMemories
  <2>2. Goto(c, "model") \/ Goto(c, "reply") \/ Goto(c, "recall")
    BY <1>7, <1>a DEF TakeMemories
  <2> QED BY <2>1, <2>2, SameServed DEF Handling
<1>8. ASSUME NEW c \in Caller, Complete(c)
      PROVE  CountInv'
  <2>1. pc[c] = "model" /\ UNCHANGED <<active, accepting>>
    BY <1>8 DEF Complete
  <2>2. Goto(c, "episode") \/ Goto(c, "reply") \/ Goto(c, "recall")
    BY <1>8, <1>a DEF Complete
  <2> QED BY <2>1, <2>2, SameServed DEF Handling
<1>9. ASSUME NEW c \in Caller, RememberEpisode(c)
      PROVE  CountInv'
  <2>1. pc[c] = "episode" /\ Goto(c, "reply") /\ UNCHANGED <<active, accepting>>
    BY <1>9 DEF RememberEpisode
  <2> QED BY <2>1, SameServed DEF Handling
<1> QED
  BY <1>1, <1>2, <1>3, <1>4, <1>5, <1>6, <1>7, <1>8, <1>9
  DEF Next, AcceptLoop, Handle, Expire, vars

(* active_connections of main.rs is the number of connections that are     *)
(* served or just refused, and MAX_CONNECTIONS is kept, however handlers   *)
(* and the accept loop interleave.                                         *)
THEOREM Counted == Spec => []ConnectionsCounted
<1>1. Init => CountInv
  <2> SUFFICES ASSUME Init
               PROVE  CountInv
    OBVIOUS
  <2>1. Served = {}
    BY DEF Init, Served, Handling, Caller
  <2> QED BY <2>1, FS_EmptySet, AssistantAssumption DEF Init, CountInv, Caller
<1>2. TypeOK /\ CountInv /\ [Next]_vars => CountInv'
  BY CountStep
<1>3. CountInv => ConnectionsCounted
  BY DEF CountInv, ConnectionsCounted, Served
<1> QED BY <1>1, <1>2, <1>3, TypeCorrect, PTL DEF Spec

-----------------------------------------------------------------------------
(***************************************************************************)
(* The heads-up display.                                                   *)
(***************************************************************************)

(* A HUD in the list has subscribed; the one that holds the mutex is about *)
(* to join it and has a place there; a sender writes to HUDs that were in  *)
(* the list; an event that is sent is one of those recorded.               *)
ListInv ==
  /\ \A h \in clients : hud[h] \in {"subscribed", "gone"} /\ joining # h
  /\ \A h \in Hud : hud[h] = "greeted" => joining = h
  /\ \A h \in Hud : joining = h => hud[h] \in {"greeted", "subscribed", "gone"}
  /\ \A a \in Ask : \A h \in todo[a] \cup failed[a] :
       hud[h] \in {"subscribed", "gone"} /\ joining # h
  /\ \A a \in Ask : event[a] <= Len(sent) /\ (send[a] # "ready" => event[a] > 0)
  /\ \A h \in Hud : replayed[h] <= Len(sent) /\ delivered[h] \subseteq 1..Len(sent)
PlacesInv ==
  /\ IsFiniteSet(clients)
  /\ Locked => Cardinality(clients) < MaxSubscribers

(* An event is on its way to a HUD: its sender has not looked at the list  *)
(* yet or has the HUD on its own, of those to write to or to take off.     *)
Due(a) == todo[a] \cup failed[a]
Coming(e, h) ==
  \E a \in Ask : /\ event[a] = e
                 /\ send[a] = "announced" \/ (send[a] = "writing" /\ h \in Due(a))

(* A HUD in the list, or about to be, has every event that came since the  *)
(* one replayed to it, or will get it.                                     *)
Member(h) == Runs(h) /\ (h \in clients \/ (joining = h /\ hud[h] = "subscribed"))
Reaches(e, h) == e < replayed[h] \/ e \in delivered[h] \/ Coming(e, h)
MissedInv == \A h \in Hud : Member(h) => \A e \in 1..Len(sent) : Reaches(e, h)

(* What a HUD will show when it has read everything                        *)
Latest(h) == IF inbox[h] = <<>> THEN shown[h] ELSE inbox[h][Len(inbox[h])]
LatestInv ==
  \A h \in Hud \ stale :
    /\ Latest(h) \in delivered[h] \cup {0}
    /\ \A e \in delivered[h] : e <= Latest(h)

(* An ask has sent "thinking" and has not sent its outcome.                *)
Thinks(a) ==
  /\ job[a] = "ask"
  /\ \/ phase[a] = "starting" /\ send[a] # "ready"
     \/ phase[a] = "working"
     \/ phase[a] = "ending" /\ send[a] = "ready"
ThinkingInv ==
  /\ \A a \in Ask : phase[a] \in {"idle", "working"} => send[a] = "ready"
  /\ sent # <<>> /\ sent[Len(sent)] = "thinking" =>
       \E a \in Ask : Thinks(a)

-----------------------------------------------------------------------------
(* Types, and the places of the list.                                      *)

HudTypeInv == HudTypeOK /\ ListInv /\ PlacesInv

LEMMA HudTypeInit == HudInit => HudTypeInv
<1> SUFFICES ASSUME HudInit PROVE HudTypeInv
  OBVIOUS
<1>1. IsFiniteSet({}) /\ Cardinality({}) = 0
  BY FS_EmptySet
<1>2. (CHOOSE j \in Job : TRUE) \in Job
  BY HudBroadcastAssumption
<1>3. /\ sent \in Seq(Kind) /\ Len(sent) = 0 /\ 0 \in Number
      /\ clients \subseteq Hud /\ Cardinality(clients) <= MaxSubscribers
      /\ listens \subseteq Hud
  BY <1>1, HudBroadcastAssumption DEF HudInit, Number
<1>4. inbox \in [Hud -> Seq(Number)]
  BY DEF HudInit
<1>5. /\ todo \in [Ask -> SUBSET Hud] /\ failed \in [Ask -> SUBSET Hud]
      /\ delivered \in [Hud -> SUBSET Number]
      /\ event \in [Ask -> Number] /\ job \in [Ask -> Job]
      /\ replayed \in [Hud -> Number] /\ shown \in [Hud -> Number]
  BY <1>2, <1>3 DEF HudInit
<1>7. Len(sent) <= MaxEvents
  BY <1>3, HudBroadcastAssumption
<1>8. HudTypeOK
  BY <1>3, <1>4, <1>5, <1>7 DEF HudInit, HudTypeOK
<1>6. ListInv /\ PlacesInv
  BY <1>1, <1>3, HudBroadcastAssumption DEF HudInit, ListInv, PlacesInv, Locked, Number
<1> QED
  BY <1>6, <1>8 DEF HudTypeInv

LEMMA KindsType ==
  ASSUME HudTypeOK, NEW a \in Ask
  PROVE  Kinds(a) \subseteq Kind
BY HudBroadcastAssumption DEF HudTypeOK, Kinds, Outcome, Kind

LEMMA WriteType ==
  ASSUME HudTypeOK, NEW h \in Hud, NEW e \in Number, WriteTo(h, e)
  PROVE  /\ inbox' \in [Hud -> Seq(Number)]
         /\ delivered' \in [Hud -> SUBSET Number]
         /\ stale' \subseteq Hud
<1>1. Append(inbox[h], e) \in Seq(Number)
  BY DEF HudTypeOK
<1> QED
  BY <1>1 DEF HudTypeOK, WriteTo

LEMMA Delivers ==
  ASSUME HudTypeOK, NEW h \in Hud, NEW e, WriteTo(h, e)
  PROVE  /\ delivered'[h] = delivered[h] \cup {e}
         /\ \A g \in Hud \ {h} : delivered'[g] = delivered[g]
<1>1. delivered \in [Hud -> SUBSET Number]
  BY DEF HudTypeOK
<1>2. delivered' = [delivered EXCEPT ![h] = @ \cup {e}]
  BY DEF WriteTo
<1> QED
  BY <1>1, <1>2

(* A HUD that ends, for whatever reason, forgets; the others do not.       *)
Ends(h) == ExpireShown(h) \/ ReadTimeout(h) \/ Disconnected(h) \/ UserCloses(h)
LEMMA Ending ==
  ASSUME HudTypeOK, NEW h \in Hud, Ends(h)
  PROVE  /\ UNCHANGED <<sent, clients, joining, asks>> /\ Runs(h) /\ hud'[h] = "gone"
         /\ replayed'[h] = 0 /\ delivered'[h] = {} /\ inbox'[h] = <<>> /\ shown'[h] = 0
         /\ \A g \in Hud \ {h} : /\ hud'[g] = hud[g] /\ replayed'[g] = replayed[g]
                                 /\ delivered'[g] = delivered[g] /\ inbox'[g] = inbox[g]
                                 /\ shown'[g] = shown[g] /\ (g \in stale' <=> g \in stale)
         /\ HudTypeOK'
<1>1. Runs(h) /\ Quit(h)
  BY DEF Ends, ExpireShown, ReadTimeout, Disconnected, UserCloses, Runs
<1>2. 0 \in Number /\ <<>> \in Seq(Number)
  BY HudBroadcastAssumption DEF Number
<1>3. HudTypeOK'
  BY <1>1, <1>2 DEF Quit, HudTypeOK, asks
<1> QED
  BY <1>1, <1>3 DEF Quit, HudTypeOK

LEMMA AskType ==
  ASSUME HudTypeInv, NEW a \in Ask, RunAsk(a)
  PROVE  HudTypeOK'
<1> USE HudBroadcastAssumption DEF HudTypeInv, list, asks, huds
<1>1. CASE Ensure(a)
  BY <1>1 DEF Ensure, HudTypeOK
<1>2. CASE Resolve(a)
  BY <1>2 DEF Resolve, HudTypeOK
<1>3. CASE Announce(a)
  BY <1>3, KindsType DEF Announce, HudTypeOK, Number
<1>4. CASE Snapshot(a)
  BY <1>4 DEF Snapshot, HudTypeOK
<1>5. ASSUME NEW h \in Hud, Write(a, h) PROVE HudTypeOK'
  <2>1. event[a] \in Number
    BY DEF HudTypeOK
  <2>2. /\ inbox' \in [Hud -> Seq(Number)] /\ delivered' \in [Hud -> SUBSET Number]
        /\ stale' \subseteq Hud
    BY <1>5, <2>1, WriteType DEF Write, HudTypeOK
  <2>3. todo' \in [Ask -> SUBSET Hud]
    BY <1>5 DEF Write, HudTypeOK
  <2>4. [failed EXCEPT ![a] = @ \cup {h}] \in [Ask -> SUBSET Hud]
    BY DEF HudTypeOK
  <2>5. failed' \in [Ask -> SUBSET Hud]
    BY <1>5, <2>4 DEF Write, HudTypeOK
  <2> QED
    BY <1>5, <2>2, <2>3, <2>5 DEF Write, HudTypeOK
<1>6. CASE EndSend(a)
  <2>1. IsFiniteSet(clients') /\ Cardinality(clients') <= Cardinality(clients)
    BY <1>6, FS_Subset DEF EndSend, PlacesInv
  <2>2. Cardinality(clients) \in Nat /\ Cardinality(clients') \in Nat
    BY <2>1, FS_CardinalityType DEF PlacesInv
  <2>3. Cardinality(clients') <= MaxSubscribers
    BY <2>1, <2>2 DEF HudTypeOK
  <2>4. event' \in [Ask -> Number]
    BY <1>6 DEF EndSend, HudTypeOK, Number
  <2> QED
    BY <1>6, <2>3, <2>4 DEF EndSend, HudTypeOK
<1> QED
  BY <1>1, <1>2, <1>3, <1>4, <1>5, <1>6 DEF RunAsk

LEMMA HudType ==
  ASSUME HudTypeInv, NEW h \in Hud, Subscribe(h) \/ RunHud(h)
  PROVE  HudTypeOK'
<1> USE HudBroadcastAssumption DEF HudTypeInv, list, asks, huds
<1>1. CASE Greet(h)
  BY <1>1 DEF Greet, HudTypeOK
<1>2. CASE Replay(h)
  <2>1. Len(sent) \in Number
    BY DEF HudTypeOK, Number
  <2>2. /\ inbox' \in [Hud -> Seq(Number)] /\ delivered' \in [Hud -> SUBSET Number]
        /\ stale' \subseteq Hud
    BY <1>2, <2>1, WriteType DEF Replay, HudTypeOK
  <2> QED
    BY <1>2, <2>1, <2>2 DEF Replay, HudTypeOK
<1>3. CASE Join(h)
  <2>1. CASE clients' = clients \cup {h}
    <3>1. h \notin clients /\ Cardinality(clients) < MaxSubscribers /\ IsFiniteSet(clients)
      BY <1>3 DEF Join, ListInv, PlacesInv, Locked
    <3>2. Cardinality(clients') = Cardinality(clients) + 1 /\ Cardinality(clients) \in Nat
      BY <2>1, <3>1, FS_AddElement, FS_CardinalityType
    <3> QED
      BY <1>3, <2>1, <3>1, <3>2 DEF Join, HudTypeOK
  <2>2. CASE UNCHANGED clients
    BY <1>3, <2>2 DEF Join, HudTypeOK
  <2> QED
    BY <1>3, <2>1, <2>2 DEF Join
<1>4. CASE Listen(h)
  BY <1>4 DEF Listen, HudTypeOK
<1>6. CASE Ends(h)
  BY <1>6, Ending
<1>5. CASE Show(h)
  <2>1. Head(inbox[h]) \in Number /\ Tail(inbox[h]) \in Seq(Number)
    BY <1>5 DEF Show, HudTypeOK
  <2> QED
    BY <1>5, <2>1 DEF Show, HudTypeOK
<1> QED
  BY <1>1, <1>2, <1>3, <1>4, <1>5, <1>6 DEF Subscribe, RunHud, Ends

(* The steps of a request leave HUDs as they are and only shorten the list,*)
LEMMA AskList ==
  ASSUME HudTypeInv, NEW a \in Ask, RunAsk(a)
  PROVE  ListInv' /\ PlacesInv'
<1> USE HudBroadcastAssumption DEF HudTypeInv, list, asks, huds
<1>1. CASE Ensure(a)
  <2>1. UNCHANGED <<sent, clients, joining, replayed, send, event, todo, failed, delivered>>
    BY <1>1 DEF Ensure
  <2>2. \A g \in Hud : hud'[g] = hud[g] \/ (hud[g] = "unborn" /\ hud'[g] = "connecting")
    BY <1>1 DEF Ensure, HudTypeOK
  <2>3. clients \subseteq Hud /\ \A b \in Ask : failed[b] \subseteq Hud /\ todo[b] \subseteq Hud
    BY DEF HudTypeOK
  <2>4. ListInv'
    BY <2>1, <2>2, <2>3 DEF ListInv
  <2> QED
    BY <2>1, <2>4 DEF PlacesInv, Locked
<1>2. CASE Resolve(a)
  BY <1>2 DEF Resolve, HudTypeOK, ListInv, PlacesInv, Locked
<1>6. CASE Snapshot(a)
  <2>1. /\ UNCHANGED <<sent, clients, joining, replayed, event, failed, hud, delivered>>
        /\ \A b \in Ask : todo'[b] = todo[b] \/ todo'[b] = clients
        /\ \A b \in Ask : send'[b] # "ready" => send[b] # "ready"
    BY <1>6 DEF Snapshot, HudTypeOK
  <2>2. ListInv'
    BY <2>1 DEF ListInv
  <2> QED
    BY <2>1, <2>2 DEF PlacesInv, Locked
<1>3. CASE Announce(a)
  <2>1. Len(sent') = Len(sent) + 1 /\ Len(sent) \in Nat
    BY <1>3, KindsType DEF Announce, HudTypeOK
  <2> QED
    BY <1>3, <2>1 DEF Announce, HudTypeOK, ListInv, PlacesInv, Locked, Number
<1>4. ASSUME NEW h \in Hud, Write(a, h) PROVE ListInv' /\ PlacesInv'
  <2>1. \A b \in Ask : failed'[b] \subseteq failed[b] \cup todo[b]
    BY <1>4 DEF Write, HudTypeOK
  <2>2. \A g \in Hud : delivered'[g] \subseteq delivered[g] \cup {event[a]}
    BY <1>4, Delivers DEF Write
  <2>3. event[a] \in Nat /\ Len(sent) \in Nat
    BY DEF HudTypeOK, Number
  <2>4. event[a] \in 1..Len(sent)
    BY <1>4, <2>3 DEF Write, ListInv
  <2>5. UNCHANGED <<sent, clients, joining, hud, replayed, event, send>>
    BY <1>4 DEF Write
  <2>6. \A b \in Ask : todo'[b] \subseteq todo[b]
    BY <1>4 DEF Write, HudTypeOK
  <2>7. \A g \in Hud : delivered'[g] \subseteq 1..Len(sent)
    BY <2>2, <2>4 DEF ListInv
  <2>8. ListInv'
    BY <2>1, <2>5, <2>6, <2>7 DEF ListInv
  <2>9. PlacesInv'
    BY <2>5 DEF PlacesInv, Locked
  <2> QED
    BY <2>8, <2>9
<1>5. CASE EndSend(a)
  <2>1. /\ UNCHANGED <<sent, joining, replayed, hud, todo, delivered>>
        /\ \A b \in Ask : failed'[b] \subseteq failed[b]
        /\ \A b \in Ask : (event'[b] = event[b] /\ send'[b] = send[b]) \/ (event'[b] = 0 /\ send'[b] = "ready")
        /\ clients' \subseteq clients /\ (Locked => clients' = clients)
    BY <1>5 DEF EndSend, HudTypeOK
  <2>4. Len(sent) \in Nat
    BY DEF HudTypeOK
  <2>2. ListInv'
    BY <2>1, <2>4 DEF ListInv
  <2>3. PlacesInv'
    BY <2>1, FS_Subset DEF PlacesInv, Locked
  <2> QED
    BY <2>2, <2>3
<1> QED
  BY <1>1, <1>2, <1>3, <1>4, <1>5, <1>6 DEF RunAsk

(* and a subscription keeps a place for the HUD that it greets.            *)
LEMMA HudList ==
  ASSUME HudTypeInv, NEW h \in Hud, Subscribe(h) \/ RunHud(h)
  PROVE  ListInv' /\ PlacesInv'
<1> USE HudBroadcastAssumption DEF HudTypeInv, list, asks, huds
<1>1. CASE Greet(h)
  <2>1. /\ UNCHANGED <<sent, clients, replayed, failed, todo, event, send, delivered>>
        /\ hud[h] = "connecting" /\ ~Locked
        /\ \A g \in Hud \ {h} : hud'[g] = hud[g]
        /\ \/ joining' = h /\ hud'[h] = "greeted" /\ Cardinality(clients) < MaxSubscribers
           \/ joining' = joining /\ hud'[h] = "gone"
    BY <1>1 DEF Greet, HudTypeOK
  <2>4. h \notin clients /\ joining = NoHud /\ h # NoHud
    BY <2>1 DEF ListInv, Locked
  <2>5. \A b \in Ask : h \notin failed[b] /\ h \notin todo[b]
    BY <2>1 DEF ListInv
  <2>6. clients \subseteq Hud /\ \A b \in Ask : failed[b] \subseteq Hud /\ todo[b] \subseteq Hud
    BY DEF HudTypeOK
  <2>7. /\ \A g \in clients : hud'[g] \in {"subscribed", "gone"} /\ joining' # g
        /\ \A b \in Ask : \A g \in todo[b] \cup failed[b] :
             hud'[g] \in {"subscribed", "gone"} /\ joining' # g
    BY <2>1, <2>4, <2>5, <2>6 DEF ListInv
  <2>8. \A g \in Hud : /\ hud'[g] = "greeted" => joining' = g
                       /\ joining' = g => hud'[g] \in {"greeted", "subscribed", "gone"}
    BY <2>1, <2>4 DEF ListInv, HudTypeOK
  <2>2. ListInv'
    BY <2>1, <2>7, <2>8 DEF ListInv
  <2>3. PlacesInv'
    BY <2>1 DEF PlacesInv, Locked
  <2> QED
    BY <2>2, <2>3
<1>2. CASE Replay(h)
  <2>5. ASSUME sent # <<>>
        PROVE  Len(sent) # 0 /\ \A g \in Hud : delivered'[g] \subseteq delivered[g] \cup {Len(sent)}
    BY <1>2, <2>5, Delivers DEF Replay, HudTypeOK
  <2>1. \A g \in Hud : delivered'[g] \subseteq delivered[g] \cup ({Len(sent)} \ {0})
    BY <1>2, <2>5 DEF Replay
  <2>2. \A g \in Hud : replayed'[g] \in {replayed[g], Len(sent)}
    BY <1>2 DEF Replay, HudTypeOK
  <2>3. ListInv'
    BY <1>2, <2>1, <2>2 DEF Replay, HudTypeOK, ListInv
  <2> QED
    BY <1>2, <2>3 DEF Replay, PlacesInv, Locked
<1>3. CASE Join(h)
  BY <1>3, FS_AddElement DEF Join, HudTypeOK, ListInv, PlacesInv, Locked
<1>4. CASE Listen(h) \/ Show(h)
  BY <1>4 DEF Listen, Show, HudTypeOK, ListInv, PlacesInv, Locked
<1>5. CASE Ends(h)
  <2>1. UNCHANGED <<sent, clients, joining, send, event, todo, failed>>
    BY <1>5, Ending
  <2>2. \A g \in Hud : hud'[g] = hud[g] \/ (hud'[g] = "gone" /\ Runs(g))
    BY <1>5, Ending
  <2>3. \A g \in Hud : /\ replayed'[g] \in {replayed[g], 0}
                       /\ delivered'[g] \subseteq delivered[g]
    BY <1>5, Ending
  <2>4. Len(sent) \in Nat /\ clients \subseteq Hud
        /\ \A a \in Ask : todo[a] \subseteq Hud /\ failed[a] \subseteq Hud
    BY DEF HudTypeOK
  <2>5. ListInv'
    BY <2>1, <2>2, <2>3, <2>4 DEF ListInv, Runs
  <2> QED
    BY <2>1, <2>5 DEF PlacesInv, Locked
<1> QED
  BY <1>1, <1>2, <1>3, <1>4, <1>5 DEF Subscribe, RunHud, Ends

LEMMA HudTypeStep == HudTypeInv /\ [HudNext]_hudVars => HudTypeInv'
<1> SUFFICES ASSUME HudTypeInv, [HudNext]_hudVars PROVE HudTypeInv'
  OBVIOUS
<1>1. CASE UNCHANGED hudVars
  BY <1>1 DEF hudVars, list, asks, huds, HudTypeInv, HudTypeOK, ListInv, PlacesInv, Locked
<1> QED
  BY <1>1, AskType, AskList, HudType, HudList DEF HudNext, HudTypeInv

LEMMA HudTypeReachable == HudSpec => []HudTypeInv
BY HudTypeInit, HudTypeStep, PTL DEF HudSpec

(* The variables of the display have their types, and the list never has   *)
(* more than MaxSubscribers places: HudTypeOK of HudBroadcast.             *)
THEOREM HudTypes == HudSpec => []HudTypeOK
<1>1. HudTypeInv => HudTypeOK
  BY DEF HudTypeInv
<1> QED
  BY <1>1, HudTypeReachable, PTL

-----------------------------------------------------------------------------
(* None is missed.                                                         *)

(* A step that only brings events nearer to the members keeps the invariant.*)
LEMMA MissedFrame ==
  ASSUME MissedInv, UNCHANGED <<sent, replayed>>,
         \A h \in Hud : Member(h)' => Member(h),
         \A h \in Hud : delivered[h] \subseteq delivered'[h],
         \A h \in Hud : \A e \in 1..Len(sent) :
           Member(h)' /\ Coming(e, h) => Coming(e, h)' \/ e \in delivered'[h]
  PROVE  MissedInv'
BY DEF MissedInv, Reaches

LEMMA AskMissed ==
  ASSUME HudTypeInv, MissedInv, NEW a \in Ask, RunAsk(a)
  PROVE  MissedInv'
<1> USE HudBroadcastAssumption DEF HudTypeInv, list, asks, huds
<1>0. /\ send \in [Ask -> {"ready", "announced", "writing"}] /\ event \in [Ask -> Number]
      /\ todo \in [Ask -> SUBSET Hud] /\ failed \in [Ask -> SUBSET Hud] /\ clients \subseteq Hud
  BY DEF HudTypeOK
<1>1. CASE Ensure(a)
  <2>1. \A h \in Hud : hud'[h] = hud[h] \/ (hud[h] = "unborn" /\ hud'[h] = "connecting")
    BY <1>1 DEF Ensure, HudTypeOK
  <2>2. UNCHANGED <<sent, clients, joining, replayed, send, event, todo, failed, delivered>>
    BY <1>1 DEF Ensure
  <2>3. \A h \in Hud : Member(h)' => Member(h)
    BY <2>1, <2>2 DEF Member, Runs, ListInv
  <2>4. \A h \in Hud : \A e \in 1..Len(sent) : Coming(e, h) => Coming(e, h)'
    BY <2>2 DEF Coming, Due
  <2> QED
    BY <2>2, <2>3, <2>4, MissedFrame
<1>2. CASE Resolve(a)
  BY <1>2 DEF Resolve, MissedInv, Member, Reaches, Coming, Due, Runs
<1>3. CASE Announce(a)
  <2>1. /\ UNCHANGED <<clients, joining, replayed, todo, failed, delivered, hud>>
        /\ Len(sent') = Len(sent) + 1 /\ Len(sent) \in Nat
    BY <1>3, KindsType DEF Announce, HudTypeOK
  <2>2. /\ send[a] = "ready" /\ send'[a] = "announced" /\ event'[a] = Len(sent) + 1
        /\ \A b \in Ask \ {a} : send'[b] = send[b] /\ event'[b] = event[b]
    BY <1>3, <1>0 DEF Announce
  <2>3. \A h \in Hud : \A e : Coming(e, h) => Coming(e, h)'
    BY <2>1, <2>2 DEF Coming, Due
  <2>4. \A h \in Hud : \A e : e = Len(sent) + 1 => Coming(e, h)'
    BY <2>2 DEF Coming
  <2>5. \A h \in Hud : Member(h)' => Member(h)
    BY <2>1 DEF Member, Runs
  <2>6. \A h \in Hud : Member(h)' => \A e \in 1..Len(sent) : Reaches(e, h)'
    BY <2>1, <2>3, <2>5 DEF MissedInv, Reaches
  <2>7. \A e \in 1..Len(sent') : e \in 1..Len(sent) \/ e = Len(sent) + 1
    BY <2>1
  <2>8. \A h \in Hud : \A e : e = Len(sent) + 1 => Reaches(e, h)'
    BY <2>4 DEF Reaches
  <2> QED
    BY <2>6, <2>7, <2>8 DEF MissedInv
<1>4. CASE Snapshot(a)
  <2>1. UNCHANGED <<sent, clients, joining, replayed, event, failed, hud, delivered>> /\ ~Locked
    BY <1>4 DEF Snapshot
  <2>2. /\ send'[a] = "writing" /\ todo'[a] = clients
        /\ \A b \in Ask \ {a} : send'[b] = send[b] /\ todo'[b] = todo[b]
    BY <1>4, <1>0 DEF Snapshot
  <2>3. \A h \in Hud : Member(h)' => Member(h) /\ h \in clients
    BY <2>1 DEF Member, Runs, Locked
  <2>4. \A h \in Hud : \A e : Member(h)' /\ Coming(e, h) => Coming(e, h)'
    BY <2>1, <2>2, <2>3 DEF Coming, Due
  <2> QED
    BY <2>1, <2>3, <2>4, MissedFrame
<1>5. ASSUME NEW g \in Hud, Write(a, g) PROVE MissedInv'
  <2>1. UNCHANGED <<sent, clients, joining, replayed, send, event, hud>>
    BY <1>5 DEF Write
  <2>2. /\ todo'[a] = todo[a] \ {g} /\ failed'[a] \in {failed[a], failed[a] \cup {g}}
        /\ \A b \in Ask \ {a} : todo'[b] = todo[b] /\ failed'[b] = failed[b]
    BY <1>5, <1>0 DEF Write
  <2>3. \A h \in Hud : Member(h)' => Member(h)
    BY <2>1 DEF Member, Runs
  <2>4. \A h \in Hud : delivered[h] \subseteq delivered'[h]
    BY <1>5, Delivers DEF Write
  <2>5. Member(g) => event[a] \in delivered'[g] \/ g \in failed'[a]
    BY <1>5, <1>0, Delivers DEF Write, Member
  <2>6. ASSUME NEW h \in Hud, NEW e, Member(h)', Coming(e, h)
        PROVE  Coming(e, h)' \/ e \in delivered'[h]
    <3>1. PICK b \in Ask : /\ event[b] = e
                           /\ send[b] = "announced" \/ (send[b] = "writing" /\ h \in Due(b))
      BY <2>6 DEF Coming
    <3>4. event'[b] = event[b] /\ send'[b] = send[b]
      BY <2>1
    <3>2. CASE send[b] = "announced" \/ (send[b] = "writing" /\ h \in todo'[b] \cup failed'[b])
      BY <3>1, <3>2, <3>4 DEF Coming, Due
    <3>3. CASE h \in Due(b) /\ h \notin todo'[b] \cup failed'[b]
      <4>1. b = a /\ h = g
        BY <2>2, <3>3 DEF Due
      <4>2. Member(h)
        BY <2>3, <2>6
      <4>3. Member(g)
        BY <4>1, <4>2
      <4>4. e \in delivered'[g]
        BY <2>5, <3>1, <3>3, <4>1, <4>3
      <4> QED
        BY <4>1, <4>4
    <3> QED
      BY <3>1, <3>2, <3>3
  <2> QED
    BY <2>1, <2>3, <2>4, <2>6, MissedFrame
<1>6. CASE EndSend(a)
  <2>1. /\ UNCHANGED <<sent, joining, replayed, hud, todo, delivered>>
        /\ clients' = clients \ failed[a]
        /\ todo[a] = {} /\ send[a] = "writing"
        /\ \A b \in Ask \ {a} : send'[b] = send[b] /\ event'[b] = event[b] /\ failed'[b] = failed[b]
    BY <1>6, <1>0 DEF EndSend
  <2>2. \A h \in Hud : Member(h)' => Member(h) /\ h \notin failed[a]
    BY <2>1 DEF Member, Runs, ListInv
  <2>3. \A h \in Hud : \A e \in 1..Len(sent) : Member(h)' /\ Coming(e, h) => Coming(e, h)'
    <3> SUFFICES ASSUME NEW h \in Hud, NEW e \in 1..Len(sent), Member(h)', Coming(e, h)
                 PROVE  Coming(e, h)'
      OBVIOUS
    <3>1. PICK b \in Ask : /\ event[b] = e
                           /\ send[b] = "announced" \/ (send[b] = "writing" /\ h \in Due(b))
      BY DEF Coming
    <3>2. b # a
      BY <2>1, <2>2, <3>1 DEF Due
    <3>3. event'[b] = e /\ (send'[b] = "announced" \/ (send'[b] = "writing" /\ h \in todo'[b] \cup failed'[b]))
      BY <2>1, <3>1, <3>2 DEF Due
    <3> QED
      BY <3>3 DEF Coming, Due
  <2> QED
    BY <2>1, <2>2, <2>3, MissedFrame
<1> QED
  BY <1>1, <1>2, <1>3, <1>4, <1>5, <1>6 DEF RunAsk

LEMMA HudMissed ==
  ASSUME HudTypeInv, MissedInv, NEW g \in Hud, Subscribe(g) \/ RunHud(g)
  PROVE  MissedInv'
<1> USE HudBroadcastAssumption DEF HudTypeInv, list, asks, huds
<1>0. UNCHANGED <<sent, event, send, todo, failed>>
  BY Ending DEF Subscribe, Greet, Replay, Join, RunHud, Listen, Show, Ends
<1>1. \A h \in Hud : \A e \in 1..Len(sent) : Coming(e, h) => Coming(e, h)'
  BY <1>0 DEF Coming, Due
<1>2. hud \in [Hud -> {"unborn", "connecting", "greeted", "subscribed", "gone"}]
      /\ replayed \in [Hud -> Number] /\ Len(sent) \in Nat
  BY DEF HudTypeOK
<1>3. CASE Greet(g)
  <2>1. /\ UNCHANGED <<clients, replayed, delivered>>
        /\ hud[g] = "connecting" /\ ~Locked
        /\ \A h \in Hud \ {g} : hud'[h] = hud[h]
        /\ \/ joining' = g /\ hud'[g] = "greeted"
           \/ joining' = joining /\ hud'[g] = "gone"
    BY <1>3, <1>2 DEF Greet
  <2>2. g \notin clients
    BY <2>1 DEF ListInv
  <2>3. \A h \in Hud : Member(h)' => Member(h)
    BY <2>1, <2>2 DEF Member, Runs, Locked
  <2> QED
    BY <1>0, <1>1, <2>1, <2>3, MissedFrame
<1>4. CASE Replay(g)
  <2>1. /\ UNCHANGED <<clients, joining>>
        /\ \A h \in Hud \ {g} : hud'[h] = hud[h] /\ replayed'[h] = replayed[h]
        /\ replayed'[g] = Len(sent)
    BY <1>4, <1>2 DEF Replay
  <2>2. \A h \in Hud : delivered[h] \subseteq delivered'[h]
    BY <1>4, Delivers DEF Replay
  <2>3. sent # <<>> => Len(sent) \in delivered'[g]
    BY <1>4, Delivers DEF Replay
  <2>4. sent = <<>> => Len(sent) = 0
    OBVIOUS
  <2>5. \A e \in 1..Len(sent) : Reaches(e, g)'
    BY <1>2, <2>1, <2>3, <2>4 DEF Reaches
  <2>6. ASSUME NEW h \in Hud \ {g}, Member(h)' PROVE \A e \in 1..Len(sent) : Reaches(e, h)'
    <3>1. Member(h)
      BY <2>1, <2>6 DEF Member, Runs
    <3> QED
      BY <1>1, <2>1, <2>2, <3>1 DEF MissedInv, Reaches
  <2> QED
    BY <1>0, <2>5, <2>6 DEF MissedInv
<1>5. CASE Join(g)
  <2>1. /\ UNCHANGED <<replayed, delivered, hud>> /\ joining = g /\ joining' = NoHud
        /\ hud[g] \in {"subscribed", "gone"} /\ clients' \subseteq clients \cup {g}
    BY <1>5 DEF Join
  <2>2. \A h \in Hud : Member(h)' => Member(h)
    BY <2>1 DEF Member, Runs
  <2> QED
    BY <1>0, <1>1, <2>1, <2>2, MissedFrame
<1>6. CASE Listen(g) \/ Show(g)
  <2>1. UNCHANGED <<replayed, delivered, clients, joining, hud>>
    BY <1>6 DEF Listen, Show
  <2>2. \A h \in Hud : Member(h)' => Member(h)
    BY <2>1 DEF Member, Runs
  <2> QED
    BY <1>0, <1>1, <2>1, <2>2, MissedFrame
<1>7. CASE Ends(g)
  <2>1. ~Member(g)'
    BY <1>7, Ending DEF Member, Runs
  <2>2. ASSUME NEW h \in Hud \ {g}, Member(h)' PROVE \A e \in 1..Len(sent) : Reaches(e, h)'
    <3>1. /\ hud'[h] = hud[h] /\ replayed'[h] = replayed[h] /\ delivered'[h] = delivered[h]
          /\ UNCHANGED <<clients, joining>>
      BY <1>7, Ending
    <3>2. Member(h)
      BY <2>2, <3>1 DEF Member, Runs
    <3> QED
      BY <1>1, <3>1, <3>2 DEF MissedInv, Reaches
  <2> QED
    BY <1>0, <2>1, <2>2 DEF MissedInv
<1> QED
  BY <1>3, <1>4, <1>5, <1>6, <1>7 DEF Subscribe, RunHud, Ends

LEMMA MissedReachable == HudSpec => []MissedInv
<1>1. HudInit => MissedInv
  BY DEF HudInit, MissedInv, Member, Runs
<1>2. HudTypeInv /\ MissedInv /\ [HudNext]_hudVars => MissedInv'
  <2> SUFFICES ASSUME HudTypeInv, MissedInv, [HudNext]_hudVars PROVE MissedInv'
    OBVIOUS
  <2>1. CASE UNCHANGED hudVars
    BY <2>1 DEF hudVars, list, asks, huds, MissedInv, Member, Runs, Reaches, Coming, Due
  <2> QED
    BY <2>1, AskMissed, HudMissed DEF HudNext
<1> QED
  BY <1>1, <1>2, HudTypeReachable, PTL DEF HudSpec

(* An event whose send has ended has reached every HUD that is subscribed, *)
(* or was superseded when that HUD subscribed: NoneMissed of HudBroadcast  *)
(* (main.rs: HudBroadcaster).                                              *)
THEOREM NoEventFallsBetween == HudSpec => []NoneMissed
<1>1. HudTypeInv /\ MissedInv => NoneMissed
  <2> SUFFICES ASSUME HudTypeInv, MissedInv,
                      NEW h \in clients, Runs(h), NEW e \in 1..Len(sent),
                      \A a \in Ask : send[a] # "ready" => event[a] # e
               PROVE  e < replayed[h] \/ e \in delivered[h]
    BY DEF NoneMissed
  <2>1. h \in Hud /\ Member(h)
    BY DEF Member, HudTypeInv, HudTypeOK
  <2>2. ~Coming(e, h)
    BY DEF Coming
  <2> QED
    BY <2>1, <2>2 DEF MissedInv, Reaches
<1> QED
  BY <1>1, MissedReachable, HudTypeReachable, PTL

-----------------------------------------------------------------------------
(* The last one is shown.                                                  *)

LEMMA ReadsInOrder ==
  ASSUME NEW s \in Seq(Number), s # <<>>
  PROVE  IF Tail(s) = <<>> THEN s[Len(s)] = Head(s)
                           ELSE Tail(s)[Len(Tail(s))] = s[Len(s)]
<1>1. Len(s) \in Nat \ {0} /\ Len(Tail(s)) = Len(s) - 1 /\ Tail(s) \in Seq(Number)
  OBVIOUS
<1>4. Tail(s) = <<>> <=> Len(Tail(s)) = 0
  BY <1>1, EmptySeq
<1>2. CASE Len(s) = 1
  BY <1>1, <1>2, <1>4
<1>3. CASE Len(s) > 1
  <2>1. Len(Tail(s)) \in 1..Len(Tail(s))
    BY <1>1, <1>3
  <2>2. Tail(s)[Len(Tail(s))] = s[Len(Tail(s)) + 1]
    BY <2>1
  <2>3. Tail(s) # <<>>
    BY <1>1, <1>3, <1>4
  <2> QED
    BY <1>1, <2>2, <2>3
<1> QED
  BY <1>1, <1>2, <1>3

(* A HUD to which an event is written has that one as its last,            *)
LEMMA WriteLatest ==
  ASSUME HudTypeInv, LatestInv, NEW g \in Hud, NEW e \in Number, WriteTo(g, e), UNCHANGED shown
  PROVE  LatestInv'
<1> SUFFICES ASSUME NEW h \in Hud, h \notin stale'
             PROVE  /\ Latest(h)' \in delivered'[h] \cup {0}
                    /\ \A d \in delivered'[h] : d <= Latest(h)'
  BY DEF LatestInv
<1>1. h \notin stale
  BY DEF WriteTo
<1>2. /\ inbox \in [Hud -> Seq(Number)] /\ delivered \in [Hud -> SUBSET Number]
      /\ shown' = shown
  BY DEF HudTypeInv, HudTypeOK
<1>3. CASE h = g
  <2>1. \A d \in delivered[g] : d <= e
    BY <1>1, <1>2, <1>3 DEF WriteTo, Number
  <2>2. inbox'[g] = Append(inbox[g], e) /\ delivered'[g] = delivered[g] \cup {e}
    BY <1>2 DEF WriteTo
  <2>3. Latest(g)' = e
    BY <1>2, <2>2 DEF Latest
  <2> QED
    BY <1>3, <2>1, <2>2, <2>3 DEF Number
<1>4. CASE h # g
  <2>1. inbox'[h] = inbox[h] /\ delivered'[h] = delivered[h]
    BY <1>2, <1>4 DEF WriteTo
  <2>2. Latest(h)' = Latest(h)
    BY <1>2, <2>1 DEF Latest
  <2> QED
    BY <1>1, <2>1, <2>2 DEF LatestInv
<1> QED
  BY <1>3, <1>4

(* and what it shows next is the next one of its inbox.                    *)
LEMMA ShowLatest ==
  ASSUME HudTypeInv, LatestInv, NEW g \in Hud, Show(g)
  PROVE  LatestInv'
<1> SUFFICES ASSUME NEW h \in Hud, h \notin stale'
             PROVE  /\ Latest(h)' \in delivered'[h] \cup {0}
                    /\ \A d \in delivered'[h] : d <= Latest(h)'
  BY DEF LatestInv
<1>1. h \notin stale /\ (h = g => g \in listens) /\ delivered' = delivered
  BY DEF Show
<1>2. /\ inbox \in [Hud -> Seq(Number)] /\ shown \in [Hud -> Number]
      /\ inbox[g] # <<>>
  BY DEF HudTypeInv, HudTypeOK, Show
<1>3. Latest(h)' = Latest(h)
  <2>1. CASE h = g
    <3>1. shown'[g] = Head(inbox[g]) /\ inbox'[g] = Tail(inbox[g])
      BY <1>1, <1>2, <2>1 DEF Show
    <3>2. inbox[g] \in Seq(Number)
      BY <1>2
    <3> QED
      BY <1>2, <2>1, <3>1, <3>2, ReadsInOrder DEF Latest
  <2>2. CASE h # g
    BY <1>2, <2>2 DEF Show, Latest
  <2> QED
    BY <2>1, <2>2
<1> QED
  BY <1>1, <1>3 DEF LatestInv

LEMMA LatestReachable == HudSpec => []LatestInv
<1>1. HudInit => LatestInv
  BY DEF HudInit, LatestInv, Latest
<1>2. HudTypeInv /\ LatestInv /\ [HudNext]_hudVars => LatestInv'
  <2> SUFFICES ASSUME HudTypeInv, LatestInv, [HudNext]_hudVars PROVE LatestInv'
    OBVIOUS
  <2>1. ASSUME UNCHANGED <<inbox, delivered, shown, stale>> PROVE LatestInv'
    BY <2>1 DEF LatestInv, Latest
  <2>2. ASSUME NEW a \in Ask, NEW h \in Hud, Write(a, h) PROVE LatestInv'
    <3>1. event[a] \in Number
      BY DEF HudTypeInv, HudTypeOK
    <3> QED
      BY <2>1, <2>2, <3>1, WriteLatest DEF Write
  <2>3. ASSUME NEW a \in Ask, RunAsk(a) PROVE LatestInv'
    BY <2>1, <2>2, <2>3 DEF RunAsk, Ensure, Resolve, Announce, Snapshot, EndSend, huds
  <2>4. ASSUME NEW h \in Hud, Replay(h) PROVE LatestInv'
    <3>1. Len(sent) \in Number
      BY DEF HudTypeInv, HudTypeOK, Number
    <3> QED
      BY <2>1, <2>4, <3>1, WriteLatest DEF Replay
  <2>5. ASSUME NEW h \in Hud, Subscribe(h) PROVE LatestInv'
    BY <2>1, <2>4, <2>5 DEF Subscribe, Greet, Join, huds
  <2>6. ASSUME NEW h \in Hud, RunHud(h) PROVE LatestInv'
    <3>1. CASE Ends(h)
      <4>1. HudTypeOK
        BY DEF HudTypeInv
      <4>2. Latest(h)' = 0 /\ delivered'[h] = {}
        BY <3>1, <4>1, Ending DEF Latest
      <4>3. ASSUME NEW g \in Hud \ {h}
            PROVE  Latest(g)' = Latest(g) /\ delivered'[g] = delivered[g] /\ (g \in stale' <=> g \in stale)
        BY <3>1, <4>1, Ending DEF Latest
      <4> QED
        BY <4>2, <4>3 DEF LatestInv
    <3> QED
      BY <2>1, <2>6, <3>1, ShowLatest DEF RunHud, Listen, Ends
  <2>7. CASE UNCHANGED hudVars
    BY <2>1, <2>7 DEF hudVars, huds
  <2> QED
    BY <2>3, <2>5, <2>6, <2>7 DEF HudNext
<1> QED
  BY <1>1, <1>2, HudTypeReachable, PTL DEF HudSpec

(* When no send is under way a HUD that has read everything shows the last *)
(* event: ShowsLatest of HudBroadcast.                                     *)
THEOREM LastEventIsShown == HudSpec => []ShowsLatest
<1>1. HudTypeInv /\ MissedInv /\ LatestInv => ShowsLatest
  <2> SUFFICES ASSUME HudTypeInv, MissedInv, LatestInv,
                      \A a \in Ask : send[a] = "ready",
                      NEW h \in clients, h \notin stale, Runs(h), inbox[h] = <<>>
               PROVE  shown[h] = Len(sent)
    BY DEF ShowsLatest
  <2>1. h \in Hud /\ Len(sent) \in Nat /\ replayed[h] \in Nat /\ shown[h] \in Nat
    BY DEF HudTypeInv, HudTypeOK, Number
  <2>2. /\ shown[h] \in delivered[h] \cup {0}
        /\ \A e \in delivered[h] : e <= shown[h]
    BY <2>1 DEF LatestInv, Latest
  <2>3. replayed[h] <= Len(sent) /\ delivered[h] \subseteq 1..Len(sent)
    BY <2>1 DEF HudTypeInv, ListInv
  <2>4. shown[h] <= Len(sent)
    BY <2>1, <2>2, <2>3
  <2>5. Member(h) /\ \A e : ~Coming(e, h)
    BY DEF Member, Coming
  <2>6. \A e \in 1..Len(sent) : e < replayed[h] \/ e \in delivered[h]
    BY <2>1, <2>5 DEF MissedInv, Reaches
  <2>7. CASE Len(sent) > 0
    <3>1. Len(sent) \in delivered[h]
      BY <2>1, <2>3, <2>6, <2>7
    <3> QED
      BY <2>1, <2>2, <2>4, <3>1
  <2> QED
    BY <2>1, <2>4, <2>7
<1> QED
  BY <1>1, HudTypeReachable, MissedReachable, LatestReachable, PTL

-----------------------------------------------------------------------------
(* "thinking" gives way.                                                   *)

(* The variables of the requests, and what one step leaves of the others.  *)
LEMMA ThinkingStep ==
  ASSUME HudTypeInv, ThinkingInv, NEW a \in Ask, RunAsk(a)
  PROVE  ThinkingInv'
<1> USE HudBroadcastAssumption DEF list, asks, huds
<1>0. /\ send \in [Ask -> {"ready", "announced", "writing"}] /\ event \in [Ask -> Number]
      /\ phase \in [Ask -> {"idle", "starting", "working", "ending"}] /\ job \in [Ask -> Job]
      /\ sent \in Seq(Kind)
  BY DEF HudTypeInv, HudTypeOK
<1>1. CASE Ensure(a)
  <2>1. /\ UNCHANGED <<sent, send, event>> /\ phase[a] = "idle" /\ phase'[a] = "starting"
        /\ \A b \in Ask \ {a} : phase'[b] = phase[b] /\ job'[b] = job[b]
    BY <1>0, <1>1 DEF Ensure
  <2>2. \A b \in Ask : Thinks(b) => Thinks(b)'
    BY <2>1 DEF Thinks
  <2> QED
    BY <2>1, <2>2 DEF ThinkingInv
<1>2. CASE Resolve(a)
  <2>1. /\ UNCHANGED <<sent, send, event, job>> /\ phase[a] = "working"
        /\ phase'[a] = "ending" \/ (job[a] = "transcribe" /\ phase'[a] = "idle")
        /\ \A b \in Ask \ {a} : phase'[b] = phase[b]
    BY <1>0, <1>2 DEF Resolve
  <2>2. send[a] = "ready"
    BY <2>1 DEF ThinkingInv
  <2>3. \A b \in Ask : Thinks(b) => Thinks(b)'
    BY <2>1, <2>2 DEF Thinks
  <2> QED
    BY <2>1, <2>2, <2>3 DEF ThinkingInv
<1>3. CASE Announce(a)
  <2>1. PICK kind \in Kinds(a) : sent' = Append(sent, kind)
    BY <1>3 DEF Announce
  <2>2. kind \in Kind
    BY <2>1, KindsType DEF HudTypeInv
  <2>3. Len(sent') = Len(sent) + 1 /\ sent'[Len(sent')] = kind
    BY <1>0, <2>1, <2>2
  <2>4. /\ UNCHANGED <<job, phase>> /\ phase[a] \in {"starting", "ending"}
        /\ send'[a] = "announced" /\ event'[a] = Len(sent) + 1
        /\ \A b \in Ask \ {a} : send'[b] = send[b] /\ event'[b] = event[b]
    BY <1>0, <1>3 DEF Announce
  <2>5. kind = "thinking" => job[a] = "ask" /\ phase[a] = "starting"
    <3>1. ASSUME phase[a] = "ending" PROVE kind # "thinking"
      <4>1. kind \in Outcome(job[a])
        BY <2>1, <3>1 DEF Kinds
      <4> QED
        BY <4>1 DEF Outcome
    <3>2. ASSUME phase[a] # "ending", job[a] # "ask" PROVE kind # "thinking"
      <4>1. job[a] \in {"transcribe", "image"}
        BY <1>0, <3>2
      <4> QED
        BY <2>1, <3>2, <4>1 DEF Kinds
    <3> QED
      BY <2>4, <3>1, <3>2
  <2>6. kind = "thinking" => Thinks(a)'
    BY <2>3, <2>4, <2>5 DEF Thinks
  <2>7. \A b \in Ask : phase'[b] \in {"idle", "working"} => send'[b] = "ready"
    BY <2>4 DEF ThinkingInv
  <2> QED
    BY <2>3, <2>6, <2>7 DEF ThinkingInv
<1>4. ASSUME UNCHANGED <<sent, job, phase>>,
             \A b \in Ask : send'[b] = "ready" <=> send[b] = "ready"
      PROVE  ThinkingInv'
  BY <1>4 DEF ThinkingInv, Thinks
<1>5. CASE Snapshot(a)
  BY <1>0, <1>4, <1>5 DEF Snapshot
<1>6. ASSUME NEW h \in Hud, Write(a, h) PROVE ThinkingInv'
  BY <1>4, <1>6 DEF Write
<1>7. CASE EndSend(a)
  <2>1. /\ UNCHANGED <<sent, job>> /\ send[a] = "writing" /\ send'[a] = "ready"
        /\ phase'[a] = IF phase[a] = "starting" /\ job[a] # "image" THEN "working" ELSE "idle"
        /\ \A b \in Ask \ {a} : phase'[b] = phase[b] /\ send'[b] = send[b]
    BY <1>0, <1>7 DEF EndSend
  <2>2. phase[a] \in {"starting", "ending"}
    BY <1>0, <2>1 DEF ThinkingInv
  <2>3. \A b \in Ask : Thinks(b) => Thinks(b)'
    BY <2>1, <2>2 DEF Thinks
  <2> QED
    BY <2>1, <2>3 DEF ThinkingInv
<1> QED
  BY <1>1, <1>2, <1>3, <1>5, <1>6, <1>7 DEF RunAsk

(* When nothing is worked on the last event is not "thinking": RestIsFinal *)
(* of HudBroadcast (main.rs: run_ask sends its outcome after it).          *)
THEOREM ThinkingGivesWay == HudSpec => []RestIsFinal
<1>1. HudInit => ThinkingInv
  BY DEF HudInit, ThinkingInv
<1>2. HudTypeInv /\ ThinkingInv /\ [HudNext]_hudVars => ThinkingInv'
  <2> SUFFICES ASSUME HudTypeInv, ThinkingInv, [HudNext]_hudVars PROVE ThinkingInv'
    OBVIOUS
  <2>1. ASSUME UNCHANGED <<sent, job, phase, send, event>> PROVE ThinkingInv'
    BY <2>1 DEF ThinkingInv, Thinks
  <2>2. ASSUME NEW h \in Hud, Subscribe(h) \/ RunHud(h) PROVE ThinkingInv'
    <3>1. HudTypeOK
      BY DEF HudTypeInv
    <3> QED
      BY <2>1, <2>2, <3>1, Ending DEF Subscribe, Greet, Replay, Join, RunHud, Listen, Show, Ends, asks
  <2>3. CASE UNCHANGED hudVars
    BY <2>1, <2>3 DEF hudVars, asks
  <2> QED
    BY <2>2, <2>3, ThinkingStep DEF HudNext
<1>3. ThinkingInv => RestIsFinal
  BY DEF ThinkingInv, Thinks, RestIsFinal
<1> QED
  BY <1>1, <1>2, <1>3, HudTypeReachable, PTL DEF HudSpec
=============================================================================

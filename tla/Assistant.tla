------------------------------ MODULE Assistant ------------------------------
(***************************************************************************)
(* The requests of kittd (main.rs): the accept loop with its limit, one    *)
(* handler thread per connection, and what it does for a request; the      *)
(* question to a model with its memories, its fallback and the episode it  *)
(* leaves (kitt-application, kitt-infrastructure).  The voice loop asks    *)
(* too, in its own thread.  What requests show on the HUD is in            *)
(* HudBroadcast.                                                           *)
(*                                                                         *)
(* Memories are told apart by their sensitivity and by whether their text  *)
(* gives away something that must not leave the machine.                   *)
(***************************************************************************)
EXTENDS Integers, FiniteSets

CONSTANTS
  Client,          \* connections, each used again once it is closed
  Voice,           \* the voice loop
  Nobody,          \* no connection
  AllowPersonalRemote,  \* allow_personal_remote
  MaxConnections,  \* MAX_CONNECTIONS (64)
  RecallLimit      \* memories a question may take along (6)

ASSUME AssistantAssumption ==
  /\ IsFiniteSet(Client) /\ Voice \notin Client /\ Nobody \notin Client
  /\ MaxConnections \in Nat /\ RecallLimit \in Nat /\ AllowPersonalRemote \in BOOLEAN

VARIABLES
  local,      \* per tier, local_provider of its profile
  store,      \* the memories
  active,     \* active_connections
  accepting,  \* the connection that the accept loop is about to refuse
  pc,         \* per caller, how far its request is
  tier,       \* per caller, the model its question goes to
  context     \* per caller, the memories that go with the question

asking == <<tier, context>>
vars == <<local, store, active, accepting, pc, asking>>

Tier == {"fast", "heavy"}
Caller == Client \cup {Voice}
Sensitivity == {"public", "personal", "private"}
Memory == [sensitivity : Sensitivity, confidential : BOOLEAN]

(* Where a handler thread may be                                           *)
Handling == {"read", "recall", "model", "episode", "reply"}

TypeOK ==
  /\ local \in [Tier -> BOOLEAN]
  /\ store \subseteq Memory
  /\ active \in Int /\ accepting \in Client \cup {Nobody}
  /\ pc \in [Caller -> Handling \cup {"closed", "waiting", "refused"}]
  /\ tier \in [Caller -> Tier]
  /\ context \in [Caller -> SUBSET Memory]

Init ==
  /\ local \in [Tier -> BOOLEAN]
  /\ store = {}
  /\ active = 0 /\ accepting = Nobody
  /\ pc = [c \in Caller |-> "closed"]
  /\ tier = [c \in Caller |-> "heavy"]
  /\ context = [c \in Caller |-> {}]

-----------------------------------------------------------------------------
(* Memory.                                                                 *)

(* EgressPolicy::allows of kitt-memory                                     *)
Allows(isLocal, sensitivity) ==
  isLocal \/ sensitivity = "public" \/ (sensitivity = "personal" /\ AllowPersonalRemote)

(* SqliteMemoryStore::recall: private and secret memories are to be asked  *)
(* for.                                                                    *)
Recall(allowPrivate) == {m \in store : allowPrivate \/ m.sensitivity # "private"}

(* recall_for_model                                                        *)
RecallForModel(isLocal) == {m \in Recall(isLocal) : Allows(isLocal, m.sensitivity)}

(* remember_episode: the answer may repeat the memories it was given.      *)
Episode(memories) ==
  [sensitivity |-> "private", confidential |-> \E m \in memories : m.confidential]

(* memory.remember with the client's sensitivity                           *)
Remember(sensitivity) ==
  store' = store \cup {[sensitivity |-> sensitivity, confidential |-> ~Allows(FALSE, sensitivity)]}

(* assistant.remember: what the user says is private.                      *)
RememberExplicit == Remember("private")

Forget == \E m \in store : store' = store \ {m}

-----------------------------------------------------------------------------
(* Connections.                                                            *)

Goto(c, label) == pc' = [pc EXCEPT ![c] = label]

Connect(c) ==
  /\ c \in Client /\ pc[c] = "closed"
  /\ Goto(c, "waiting")
  /\ UNCHANGED <<local, store, active, accepting, asking>>

Accept(c) ==
  /\ pc[c] = "waiting" /\ accepting = Nobody
  /\ active' = active + 1
  /\ IF active >= MaxConnections
     THEN accepting' = c /\ Goto(c, "refused")
     ELSE Goto(c, "read") /\ UNCHANGED accepting
  /\ UNCHANGED <<local, store, asking>>

Refuse(c) ==
  /\ pc[c] = "refused"
  /\ active' = active - 1
  /\ accepting' = Nobody
  /\ Goto(c, "closed")
  /\ UNCHANGED <<local, store, asking>>

(* Fault: a reply that cannot be written ends the handler early.           *)
FaultClose(c) ==
  /\ pc[c] = "reply"
  /\ Goto(c, "closed")
  /\ active' \in {active, active - 1}
  /\ UNCHANGED <<local, store, accepting, asking>>

(* The reply, or an error, is written or cannot be written any more; then  *)
(* the thread ends (ConnectionGuard), or run_ask returns to the voice loop.*)
Close(c) ==
  /\ pc[c] = "reply"
  /\ Goto(c, "closed")
  /\ active' = IF c = Voice THEN active ELSE active - 1
  /\ UNCHANGED <<local, store, accepting, asking>>

-----------------------------------------------------------------------------
(* Requests.                                                               *)

(* RoutingPolicy::choose: the hint, or whether the text is a short one     *)
(* without a word for heavy work                                           *)
Choose(hint, simple) ==
  CASE hint \in Tier -> hint
    [] hint = "auto" -> IF simple THEN "fast" ELSE "heavy"

(* The question goes to the model that is chosen.                          *)
Begin(c, t) ==
  /\ Goto(c, "recall")
  /\ tier' = [tier EXCEPT ![c] = t]
  /\ UNCHANGED context

(* Every request but a question: remember, forget, or one that leaves the  *)
(* memories alone (ping, recall, transcribe, hud), or an error.            *)
Work ==
  \/ \E s \in Sensitivity : Remember(s)
  \/ RememberExplicit
  \/ Forget
  \/ UNCHANGED store

(* read_frame, decode, the token and dispatch: an error is answered, and so*)
(* is a read that takes too long.                                          *)
Dispatch(c) ==
  /\ pc[c] = "read"
  /\ \/ Work /\ Goto(c, "reply") /\ UNCHANGED asking
     \/ /\ \E hint \in Tier \cup {"auto"}, simple \in BOOLEAN : Begin(c, Choose(hint, simple))
        /\ UNCHANGED store
  /\ UNCHANGED <<local, active, accepting>>

(* An utterance of the user's is a question.                               *)
VoiceAsks ==
  /\ pc[Voice] = "closed"
  /\ \E simple \in BOOLEAN : Begin(Voice, Choose("auto", simple))
  /\ UNCHANGED <<local, store, active, accepting>>

(* Fault: a second model is asked with the memories of the first.          *)
FaultSecond(c) ==
  /\ Goto(c, "model")
  /\ tier' = [tier EXCEPT ![c] = "heavy"]
  /\ UNCHANGED context

(* The heavy model is asked from the beginning, with its own memories.     *)
Second(c) ==
  /\ Goto(c, "recall")
  /\ tier' = [tier EXCEPT ![c] = "heavy"]
  /\ context' = [context EXCEPT ![c] = {}]

(* Fault: whatever failed is tried again with the heavy model.             *)
FaultFails(c) == Second(c)

(* complete_with fails: a fast model's question goes to the heavy one.     *)
Fails(c) ==
  \/ tier[c] = "fast" /\ Second(c)
  \/ tier[c] = "heavy" /\ Goto(c, "reply") /\ context' = [context EXCEPT ![c] = {}]
     /\ UNCHANGED tier

(* complete_with: the memories for this provider, or the store fails;      *)
TakeMemories(c) ==
  /\ pc[c] = "recall"
  /\ \/ \E memories \in SUBSET RecallForModel(local[tier[c]]) :
          /\ Cardinality(memories) <= RecallLimit
          /\ context' = [context EXCEPT ![c] = memories]
          /\ Goto(c, "model")
          /\ UNCHANGED tier
     \/ Fails(c)
  /\ UNCHANGED <<local, store, active, accepting>>

(* the provider is asked, answers, or fails, by its timeout at the latest; *)
Complete(c) ==
  /\ pc[c] = "model"
  /\ \/ Goto(c, "episode") /\ UNCHANGED asking
     \/ Fails(c)
  /\ UNCHANGED <<local, store, active, accepting>>

(* the episode is stored, or not.                                          *)
RememberEpisode(c) ==
  /\ pc[c] = "episode"
  /\ store' \in {store, store \cup {Episode(context[c])}}
  /\ Goto(c, "reply")
  /\ tier' = [tier EXCEPT ![c] = "heavy"] /\ context' = [context EXCEPT ![c] = {}]
  /\ UNCHANGED <<local, active, accepting>>

(* An episode's time to live ends.                                         *)
Expire ==
  /\ \E m \in store : m.sensitivity = "private" /\ store' = store \ {m}
  /\ UNCHANGED <<local, active, accepting, pc, asking>>

-----------------------------------------------------------------------------
AcceptLoop == \E c \in Client : Accept(c) \/ Refuse(c)

Handle(c) == Dispatch(c) \/ TakeMemories(c) \/ Complete(c) \/ RememberEpisode(c) \/ Close(c)

Next ==
  \/ AcceptLoop \/ VoiceAsks \/ Expire
  \/ \E c \in Caller : Connect(c) \/ Handle(c)

Spec == Init /\ [][Next]_vars

(* The accept loop and the handlers run; reads, writes and providers have  *)
(* timeouts.  Which of the waiting connections is next is the system's.    *)
Fairness ==
  /\ \A c \in Client : SF_vars(Accept(c)) /\ WF_vars(Refuse(c))
  /\ \A c \in Caller : WF_vars(Handle(c))

FairSpec == Spec /\ Fairness

-----------------------------------------------------------------------------
(* Properties.                                                             *)

(* README.md:193, "secret/private memory stripped from remote-provider paths   *)
(* unless policy explicitly permits it".  No question to a remote provider *)
(* has a memory with it that must not leave the machine, whatever model was*)
(* asked before, and none that repeats such a memory: an answer of a local *)
(* model is remembered as private.                                         *)
NothingPrivateLeaves ==
  \A c \in Caller :
    pc[c] = "model" /\ ~local[tier[c]] =>
      \A m \in context[c] : Allows(FALSE, m.sensitivity) /\ ~m.confidential

(* The counter is the number of connections that are served, and of the one*)
(* that is just refused; never are more than MAX_CONNECTIONS served.       *)
ConnectionsCounted ==
  LET served == {c \in Client : pc[c] \in Handling} IN
  /\ active = Cardinality(served) + (IF accepting = Nobody THEN 0 ELSE 1)
  /\ Cardinality(served) <= MaxConnections

(* Every connection is served or refused in the end, and every question of *)
(* the voice loop comes back, whatever fails.                              *)
RequestsEnd ==
  /\ \A c \in Client : pc[c] = "waiting" ~> pc[c] = "closed"
  /\ pc[Voice] = "recall" ~> pc[Voice] = "closed"
=============================================================================

------------------------- MODULE TelegramBridgeProofs -------------------------
(***************************************************************************)
(* What TelegramBridge promises, for any number of messages and sessions.  *)
(* Each part strengthens one property until it is inductive: that the      *)
(* bridge implements Inbox needs that a batch is the messages from the one *)
(* after the offset on; that a session makes one workflow of a message     *)
(* that nothing under way repeats what was made; and that replies are true *)
(* that an answer is about the message it is awaited for.                  *)
(***************************************************************************)
EXTENDS TelegramBridge, TLAPS

-----------------------------------------------------------------------------
\* The message the session has come to.
At == IF offset = 0 THEN confirmed ELSE offset - 1

ReadInv ==
    /\ sent \in 0..MaxUpdates /\ confirmed \in Nat /\ offset \in Nat
    /\ session \in Nat
    /\ offset # 0 => confirmed < offset
    /\ At <= sent
    /\ \E last \in 0..sent : batch = (At + 1)..last
    /\ pc = "down" => offset = 0
    /\ config.once /\ pc = "poll" => offset = 0

LEMMA ReadInit == Init => ReadInv
BY BoundsAssumption DEF Init, ReadInv, At, NoConfig

\* The next update of a batch is the one after the last.
LEMMA NextInLine ==
    ASSUME ReadInv, NEW id \in batch, \A other \in batch : id <= other
    PROVE  /\ id = At + 1 /\ id <= sent /\ id \in Updates
           /\ \E last \in 0..sent : batch \ {id} = (id + 1)..last
<1>1. PICK last \in 0..sent : batch = (At + 1)..last
  BY DEF ReadInv
<1>2. At \in Nat /\ sent \in Nat /\ sent <= MaxUpdates /\ MaxUpdates \in Nat
  BY BoundsAssumption DEF ReadInv, At
<1>3. id \in Nat /\ At + 1 <= id /\ id <= last
  BY <1>1, <1>2
<1>4. At + 1 \in batch
  BY <1>1, <1>2, <1>3
<1>5. id = At + 1
  BY <1>2, <1>3, <1>4
<1>6. batch \ {id} = (id + 1)..last
  BY <1>1, <1>2, <1>5
<1> QED
  BY <1>2, <1>3, <1>5, <1>6 DEF Updates

LEMMA ReadStep == ReadInv /\ [Next]_vars => ReadInv'
<1> SUFFICES ASSUME ReadInv, [Next]_vars PROVE ReadInv'
  OBVIOUS
<1> USE BoundsAssumption
<1>down. ASSUME Down, UNCHANGED <<sent, confirmed>> PROVE ReadInv'
  <2>1. batch' = (confirmed + 1)..0
    BY <1>down DEF Down, ReadInv
  <2> QED
    BY <1>down, <2>1 DEF Down, ReadInv, At, NoConfig
<1>1. CASE Send
  <2>1. /\ sent' = sent + 1 /\ sent' \in 0..MaxUpdates
        /\ UNCHANGED <<confirmed, session, config, pc, offset, batch>>
    BY <1>1 DEF Send, ReadInv, bridge
  <2>2. PICK last \in 0..sent : batch = (At + 1)..last
    BY DEF ReadInv
  <2>3. last \in 0..sent' /\ batch' = (At' + 1)..last
    BY <2>1, <2>2 DEF ReadInv, At
  <2> QED
    BY <2>1, <2>3, SMTT(20) DEF ReadInv, At
<1>2. CASE Start
  BY <1>2 DEF Start, ReadInv, At, telegram
<1>3. CASE Crash
  BY <1>3, <1>down DEF Crash, telegram
<1>4. CASE Poll
  <2>1. /\ confirmed' = Confirmed /\ batch' = (confirmed' + 1)..sent
        /\ pc' = "take" /\ UNCHANGED <<sent, session, config, offset>>
    BY <1>4 DEF Poll
  <2>2. confirmed' \in Nat /\ At' = confirmed' /\ At' = At
    BY <2>1 DEF ReadInv, At, Confirmed
  <2> QED
    BY <2>1, <2>2 DEF ReadInv, At
<1>5. CASE FailPoll
  <2>1. /\ confirmed' \in {confirmed, Confirmed} /\ AfterFailedPoll
        /\ pc = "poll" /\ UNCHANGED sent
    BY <1>5 DEF FailPoll
  <2>2. CASE config.once
    BY <1>down, <2>1, <2>2
    DEF AfterFailedPoll, PollAgain, ReadInv, Confirmed
  <2>3. CASE ~config.once
    <3>1. /\ pc' = "poll"
          /\ UNCHANGED <<sent, session, config, offset, batch>>
      BY <2>1, <2>3 DEF AfterFailedPoll, PollAgain
    <3>2. /\ confirmed' \in Nat /\ At' = At
          /\ offset # 0 => confirmed' < offset
      BY <2>1, <3>1 DEF ReadInv, At, Confirmed
    <3> QED
      BY <2>3, <3>1, <3>2 DEF ReadInv
  <2> QED
    BY <2>2, <2>3
<1>6. CASE EndBatch
  <2>1. CASE config.once
    BY <1>6, <1>down, <2>1 DEF EndBatch, PollAgain, telegram
  <2>2. CASE ~config.once
    BY <1>6, <2>2 DEF EndBatch, PollAgain, ReadInv, At, telegram
  <2> QED
    BY <2>1, <2>2
<1>7. CASE Take
  <2>1. PICK id \in batch :
          /\ \A other \in batch : id <= other
          /\ batch' = batch \ {id} /\ offset' = id + 1
          /\ pc' \in {"take", "login"}
          /\ UNCHANGED <<sent, confirmed, session, config>>
    BY <1>7 DEF Take, Return, NextOffset, telegram
  <2>2. /\ id = At + 1 /\ id <= sent
        /\ \E last \in 0..sent : batch' = (id + 1)..last
    BY <2>1, NextInLine
  <2>3. At' = id /\ id \in Nat /\ confirmed < offset'
    BY <2>1, <2>2 DEF ReadInv, At
  <2> QED
    BY <2>1, <2>2, <2>3 DEF ReadInv
<1>8. CASE Login \/ Created \/ Ran \/ Fail \/ ServeCreate \/ ServeRun
  <2>1. /\ UNCHANGED <<sent, confirmed, session, config, offset, batch>>
        /\ pc' \in {pc, "create", "run", "take"}
    BY <1>8 DEF Login, Created, Ran, Fail, ServeCreate, ServeRun, Return,
                telegram, bridge
  <2> QED
    BY <2>1 DEF ReadInv, At
<1>9. CASE UNCHANGED vars
  BY <1>9 DEF vars, telegram, bridge, ReadInv, At
<1> QED
  BY <1>1, <1>2, <1>3, <1>4, <1>5, <1>6, <1>7, <1>8, <1>9 DEF Next, Handle

LEMMA Reading == Spec => []ReadInv
BY ReadInit, ReadStep, PTL DEF Spec

-----------------------------------------------------------------------------
LEMMA MapsInit == Init => InboxView!Init
BY DEF Init, InboxView!Init, InboxView!Updates, Updates

LEMMA MapsStep ==
    ReadInv /\ ReadInv' /\ [Next]_vars => [InboxView!Next]_(InboxView!vars)
<1> SUFFICES ASSUME ReadInv, ReadInv', [Next]_vars
             PROVE  InboxView!Next \/ UNCHANGED InboxView!vars
  OBVIOUS
<1> USE DEF InboxView!Next, InboxView!vars
<1>down. ASSUME Down, UNCHANGED <<sent, confirmed, attempts>>
         PROVE  InboxView!Restart
  BY <1>down DEF Down, InboxView!Restart
<1>ack. ASSUME UNCHANGED <<sent, session, offset, attempts>>,
               confirmed' \in {confirmed, Confirmed}
        PROVE  InboxView!Ack \/ UNCHANGED InboxView!vars
  <2>1. CASE confirmed' = confirmed
    BY <1>ack, <2>1
  <2>2. CASE confirmed' # confirmed
    <3>1. offset > confirmed + 1 /\ confirmed' = offset - 1 /\ offset # 0
      BY <1>ack, <2>2 DEF Confirmed, ReadInv
    <3> QED
      BY <1>ack, <3>1 DEF InboxView!Ack, ReadInv
  <2> QED
    BY <2>1, <2>2
<1>1. CASE Send
  BY <1>1 DEF Send, InboxView!Send, bridge
<1>2. CASE Crash
  BY <1>2, <1>down DEF Crash, telegram
<1>3. CASE Poll
  BY <1>3, <1>ack DEF Poll
<1>4. CASE FailPoll
  <2>1. CASE config.once
    <3>1. UNCHANGED <<sent, confirmed, attempts>> /\ Down
      BY <1>4, <2>1 DEF FailPoll, AfterFailedPoll, PollAgain, ReadInv, Confirmed
    <3> QED
      BY <1>down, <3>1
  <2>2. CASE ~config.once
    BY <1>4, <1>ack, <2>2 DEF FailPoll, AfterFailedPoll, PollAgain
  <2> QED
    BY <2>1, <2>2
<1>5. CASE EndBatch
  <2>1. CASE config.once
    BY <1>5, <1>down, <2>1 DEF EndBatch, PollAgain, telegram
  <2>2. CASE ~config.once
    BY <1>5, <2>2 DEF EndBatch, PollAgain, telegram
  <2> QED
    BY <2>1, <2>2
<1>6. CASE Take
  <2>1. PICK id \in batch :
          /\ \A other \in batch : id <= other
          /\ offset' = id + 1
          /\ attempts' = [attempts EXCEPT ![id] = @ + 1]
          /\ UNCHANGED <<sent, confirmed, session>>
    BY <1>6 DEF Take, NextOffset, telegram
  <2>2. id = At + 1 /\ id <= sent
    BY <2>1, NextInLine
  <2>3. At \in Nat /\ sent \in Nat
    BY DEF ReadInv, At
  <2>4. At < sent /\ At' = At + 1
    BY <2>1, <2>2, <2>3 DEF At
  <2>5. attempts' = [attempts EXCEPT ![At + 1] = @ + 1]
    BY <2>1, <2>2
  <2>6. InboxView!Try
    BY <2>1, <2>4, <2>5 DEF InboxView!Try, At
  <2> QED
    BY <2>6
<1>7. CASE \/ Start \/ Login \/ Created \/ Ran \/ Fail
           \/ ServeCreate \/ ServeRun \/ UNCHANGED vars
  BY <1>7 DEF Start, Login, Created, Ran, Fail, ServeCreate, ServeRun, Return,
              vars, telegram, bridge
<1> QED
  BY <1>1, <1>2, <1>3, <1>4, <1>5, <1>6, <1>7 DEF Next, Handle

\* main of telegram_inbound_bridge.py is a reader as Inbox describes it: it
\* tries the messages in order and acknowledges none it has not come to, through
\* crashes, failed polls and every answer or silence of the backend.
THEOREM BridgeImplementsInbox == Spec => ImplementsInbox
BY MapsInit, MapsStep, Reading, PTL DEF Spec, ImplementsInbox, InboxView!Spec

-----------------------------------------------------------------------------
(***************************************************************************)
(* What a reader is worth that implements Inbox.  NothingIsLost is not     *)
(* inductive: that an acknowledged message was tried needs that every      *)
(* message the session has come to was, and OncePerSession that one it has *)
(* not come to was only tried by the sessions before.                      *)
(***************************************************************************)

\* A session comes to messages that are there, and acknowledges those it has
\* come to.
InOrder ==
    /\ sent \in 0..MaxUpdates
    /\ confirmed \in Nat /\ At \in Nat /\ session \in Nat
    /\ confirmed <= At /\ At <= sent

\* What the session has come to was tried, and the rest not by this session.
Tried ==
    /\ attempts \in [Updates -> Nat]
    /\ \A m \in Updates :
          /\ m <= At => attempts[m] > 0 /\ attempts[m] <= session
          /\ m > At  => attempts[m] < session

ReaderInv == InOrder /\ Tried

\* The operations of Inbox, read as what they do to the bridge's variables.
LEMMA ReaderSteps ==
    ASSUME [InboxView!Next]_(InboxView!vars)
    PROVE  \/ /\ sent < MaxUpdates /\ sent' = sent + 1
              /\ UNCHANGED <<confirmed, session, attempts>> /\ At' = At
           \/ /\ session' = session + 1 /\ At' = confirmed
              /\ UNCHANGED <<sent, confirmed, attempts>>
           \/ /\ At < sent /\ At' = At + 1
              /\ attempts' = [attempts EXCEPT ![At + 1] = @ + 1]
              /\ UNCHANGED <<sent, confirmed, session>>
           \/ /\ confirmed < At /\ confirmed' = At /\ At' = At
              /\ UNCHANGED <<sent, session, attempts>>
           \/ UNCHANGED <<sent, confirmed, session, attempts>> /\ At' = At
BY DEF InboxView!Next, InboxView!vars, InboxView!Send, InboxView!Restart,
       InboxView!Try, InboxView!Ack, At

LEMMA ReaderInit == InboxView!Init => ReaderInv
BY BoundsAssumption
   DEF InboxView!Init, InboxView!Updates, ReaderInv, InOrder, Tried, At, Updates

LEMMA ReaderStep ==
    ReaderInv /\ [InboxView!Next]_(InboxView!vars) => ReaderInv'
<1> SUFFICES ASSUME ReaderInv, [InboxView!Next]_(InboxView!vars)
             PROVE  ReaderInv'
  OBVIOUS
<1> USE BoundsAssumption DEF ReaderInv, InOrder, Tried, Updates
<1> HIDE DEF At
<1>1. CASE /\ sent < MaxUpdates /\ sent' = sent + 1
           /\ UNCHANGED <<confirmed, session, attempts>> /\ At' = At
  BY <1>1
<1>2. CASE /\ session' = session + 1 /\ At' = confirmed
           /\ UNCHANGED <<sent, confirmed, attempts>>
  <2>1. \A m \in Updates : attempts[m] < session + 1
    OBVIOUS
  <2>2. \A m \in Updates : m <= confirmed => attempts[m] > 0
    OBVIOUS
  <2> QED
    BY <1>2, <2>1, <2>2
<1>3. CASE /\ At < sent /\ At' = At + 1
           /\ attempts' = [attempts EXCEPT ![At + 1] = @ + 1]
           /\ UNCHANGED <<sent, confirmed, session>>
  <2>1. At + 1 \in Updates /\ attempts[At + 1] < session
    BY <1>3
  <2>2. /\ attempts' \in [Updates -> Nat]
        /\ attempts'[At + 1] = attempts[At + 1] + 1
        /\ \A m \in Updates : m # At + 1 => attempts'[m] = attempts[m]
    BY <1>3, <2>1
  <2>3. ASSUME NEW m \in Updates
        PROVE  /\ m <= At' => attempts'[m] > 0 /\ attempts'[m] <= session'
               /\ m > At'  => attempts'[m] < session'
    <3>1. CASE m = At + 1
      BY <1>3, <2>1, <2>2, <3>1
    <3>2. CASE m # At + 1
      BY <1>3, <2>1, <2>2, <3>2
    <3> QED
      BY <3>1, <3>2
  <2>4. InOrder'
    BY <1>3, <2>1
  <2> QED
    BY <2>2, <2>3, <2>4
<1>4. CASE /\ confirmed < At /\ confirmed' = At /\ At' = At
           /\ UNCHANGED <<sent, session, attempts>>
  BY <1>4
<1>5. CASE UNCHANGED <<sent, confirmed, session, attempts>> /\ At' = At
  BY <1>5
<1> QED
  BY <1>1, <1>2, <1>3, <1>4, <1>5, ReaderSteps

LEMMA ReaderInvariant == InboxView!Spec => []ReaderInv
BY ReaderInit, ReaderStep, PTL DEF InboxView!Spec

\* Telegram forgets no message that the bridge has not tried, through crashes,
\* failed polls and whatever the backend answers: each was tried by the session
\* that confirmed it or by one before (main, telegram_get_updates).
THEOREM BridgeLosesNothing == Spec => []InboxView!NothingIsLost
<1>1. ReaderInv => InboxView!NothingIsLost
  BY DEF ReaderInv, InOrder, Tried, InboxView!NothingIsLost, InboxView!Updates,
         Updates
<1> QED
  BY <1>1, BridgeImplementsInbox, ReaderInvariant, PTL DEF ImplementsInbox

\* A message is tried as often as there were sessions at most: only a restart
\* of the bridge repeats it.
THEOREM BridgeTriesOnce == Spec => []InboxView!OncePerSession
<1>1. ReaderInv => InboxView!OncePerSession
  BY DEF ReaderInv, InOrder, Tried, InboxView!OncePerSession, InboxView!Updates,
         Updates
<1> QED
  BY <1>1, BridgeImplementsInbox, ReaderInvariant, PTL DEF ImplementsInbox

-----------------------------------------------------------------------------
Creates == {call \in calls : call.op = "create"}

\* What a create call and a workflow are made from, and by which session.
Same(x, y) == x.session = y.session /\ x.message = y.message

\* It is none of this session after the message it has come to.
NotAhead(x) ==
    /\ x.session \in Nat /\ x.message \in Nat
    /\ x.session <= session
    /\ x.session = session =>
          IF pc = "login" THEN x.message < At ELSE x.message <= At

Made == [message : Nat, session : Nat, status : {"CREATED", "WAITING_APPROVAL"},
         parsed : {"none", "llm", "deterministic", "fallback"}]

MadeInv ==
    /\ workflows \in Seq(Made)
    /\ parsed \in {"none", "llm", "deterministic", "fallback"}
    /\ \A call \in Creates :
          call.parsed \in {"none", "llm", "deterministic", "fallback"}
    /\ \A call \in Creates : NotAhead(call)
    /\ \A w \in DOMAIN workflows : NotAhead(workflows[w])
    /\ pc = "login" => current = At
    /\ \A c, d \in Creates : Same(c, d) => c = d
    /\ \A c \in Creates, w \in DOMAIN workflows : ~Same(c, workflows[w])
    /\ OneWorkflowPerSession

LEMMA Before == \A n \in Nat : n # 0 => n - 1 \in Nat
OBVIOUS

LEMMA MadeInit == Init => MadeInv
BY DEF Init, MadeInv, Creates, OneWorkflowPerSession

\* A step that makes nothing and leaves no message behind it.
LEMMA MadeFrame ==
    ASSUME MadeInv, ReadInv, ReadInv',
           workflows' = workflows, Creates' = Creates,
           parsed' \in {"none", "llm", "deterministic", "fallback"},
           \/ session' = session + 1
           \/ session' = session /\ At' = At
              /\ (pc' = "login" => pc = "login" /\ current' = current)
           \/ session' = session /\ At' = At + 1 /\ current' \in {0, At'},
           pc' = "login" => current' = At'
    PROVE  MadeInv'
<1>1. session \in Nat /\ At \in Nat /\ At' \in Nat
  <2>1. session \in Nat /\ At \in Nat
    BY DEF ReadInv, At
  <2>2. offset' \in Nat /\ confirmed' \in Nat
    BY DEF ReadInv
  <2>3. offset' = 0 => At' \in Nat
    BY <2>2 DEF At
  <2>4. offset' # 0 => At' \in Nat
    <3> SUFFICES ASSUME offset' # 0 PROVE At' \in Nat
      OBVIOUS
    <3>1. At' = offset' - 1
      BY DEF At
    <3> QED
      BY <2>2, <3>1, Before
  <2> QED
    BY <2>1, <2>3, <2>4
<1>2. ASSUME NEW x, NotAhead(x)
      PROVE  /\ x.session \in Nat /\ x.message \in Nat
             /\ x.session <= session'
             /\ x.session = session' =>
                   IF pc' = "login" THEN x.message < At' ELSE x.message <= At'
  BY <1>1, <1>2 DEF NotAhead
<1>3. \A call \in Creates' : NotAhead(call)'
  BY <1>2 DEF MadeInv, NotAhead
<1>4. \A w \in DOMAIN workflows' : NotAhead(workflows[w])'
  BY <1>2 DEF MadeInv, NotAhead
<1> QED
  BY <1>3, <1>4 DEF MadeInv, OneWorkflowPerSession, Same

LEMMA ExtractionModes ==
    ASSUME NEW kind, NEW llm \in LLMAnswers
    PROVE  /\ Extraction(kind, llm) \in
                  {"none", "llm", "deterministic", "fallback"}
           /\ Extraction(kind, llm) \in {"deterministic", "fallback"} =>
                  Parses(kind)
<1>1. llm \in {"nothing", "request", "error", "off"}
  BY DEF LLMAnswers, LLMFindings
<1>2. CASE llm = "request"
  BY <1>2 DEF Extraction
<1>3. CASE llm # "request" /\ ~Parses(kind)
  BY <1>3 DEF Extraction
<1>4. CASE llm = "off" /\ Parses(kind)
  BY <1>4 DEF Extraction
<1>5. CASE llm \in {"nothing", "error"} /\ Parses(kind)
  BY <1>5 DEF Extraction
<1> QED
  BY <1>1, <1>2, <1>3, <1>4, <1>5

\* A run changes the status of a workflow and nothing else of it.
LEMMA StatusOnly ==
    ASSUME workflows \in Seq(Made), NEW k,
           workflows' = [workflows EXCEPT ![k].status = "WAITING_APPROVAL"]
    PROVE  /\ workflows' \in Seq(Made) /\ DOMAIN workflows' = DOMAIN workflows
           /\ \A w \in DOMAIN workflows :
                 /\ workflows'[w].message = workflows[w].message
                 /\ workflows'[w].session = workflows[w].session
                 /\ workflows'[w].parsed = workflows[w].parsed
                 /\ workflows'[w].status = IF w = k THEN "WAITING_APPROVAL"
                                           ELSE workflows[w].status
<1> DEFINE ran == [workflows[k] EXCEPT !.status = "WAITING_APPROVAL"]
<1>1. Len(workflows) \in Nat /\ DOMAIN workflows = 1..Len(workflows)
  OBVIOUS
<1>2. workflows' = [workflows EXCEPT ![k] = ran]
  OBVIOUS
<1>3. ASSUME k \in DOMAIN workflows
      PROVE  /\ ran \in Made /\ ran.status = "WAITING_APPROVAL"
             /\ ran.message = workflows[k].message
             /\ ran.session = workflows[k].session
             /\ ran.parsed = workflows[k].parsed
  <2>1. workflows[k] \in Made
    BY <1>3
  <2> QED
    BY <2>1 DEF Made
<1> HIDE DEF ran
<1>4. /\ DOMAIN workflows' = DOMAIN workflows
      /\ \A w \in DOMAIN workflows :
            workflows'[w] = IF w = k THEN ran ELSE workflows[w]
  BY <1>2
<1>5. \A w \in 1..Len(workflows) : workflows'[w] \in Made
  <2> TAKE w \in 1..Len(workflows)
  <2>1. CASE w = k
    BY <1>1, <1>3, <1>4, <2>1
  <2>2. CASE w # k
    BY <1>1, <1>4, <2>2
  <2> QED
    BY <2>1, <2>2
<1>6. workflows' = [w \in 1..Len(workflows) |-> workflows'[w]]
  BY <1>1, <1>2
<1>7. \A s \in [1..Len(workflows) -> Made] : s \in Seq(Made)
  BY <1>1
<1>8. workflows' \in [1..Len(workflows) -> Made]
  BY <1>5, <1>6
<1>9. workflows' \in Seq(Made)
  BY <1>7, <1>8
<1> QED
  BY <1>3, <1>4, <1>9

LEMMA MadeStep == MadeInv /\ ReadInv /\ ReadInv' /\ [Next]_vars => MadeInv'
<1> SUFFICES ASSUME MadeInv, ReadInv, ReadInv', [Next]_vars PROVE MadeInv'
  OBVIOUS
<1>at. /\ session \in Nat /\ At \in Nat /\ confirmed \in Nat
       /\ offset \in Nat /\ offset # 0 => confirmed < offset
  BY DEF ReadInv, At
<1>down. ASSUME Down, UNCHANGED backend PROVE MadeInv'
  <2>1. /\ session' = session + 1 /\ pc' = "down" /\ parsed' = "none"
        /\ workflows' = workflows /\ Creates' = Creates
    BY <1>down DEF Down, backend, Creates
  <2> QED
    BY <2>1, MadeFrame
<1>stay. ASSUME UNCHANGED <<backend, session, parsed>>, At' = At,
                pc' = "login" => pc = "login" /\ current' = current
         PROVE  MadeInv'
  <2>1. workflows' = workflows /\ Creates' = Creates
    BY <1>stay DEF backend, Creates
  <2>2. parsed' \in {"none", "llm", "deterministic", "fallback"}
    BY <1>stay DEF MadeInv
  <2>3. pc' = "login" => current' = At'
    BY <1>stay DEF MadeInv
  <2> QED
    BY <1>stay, <2>1, <2>2, <2>3, MadeFrame
<1>1. CASE Send
  BY <1>1, <1>stay DEF Send, bridge, At
<1>2. CASE Start
  BY <1>2, <1>stay DEF Start, telegram, At
<1>3. CASE Crash
  BY <1>3, <1>down DEF Crash
<1>4. CASE Poll
  <2>1. At' = At
    BY <1>4, <1>at DEF Poll, At, Confirmed
  <2> QED
    BY <1>4, <1>stay, <2>1 DEF Poll
<1>5. CASE FailPoll
  <2>1. CASE config.once
    BY <1>5, <1>down, <2>1 DEF FailPoll, AfterFailedPoll, PollAgain
  <2>2. CASE ~config.once
    <3>1. At' = At
      BY <1>5, <1>at, <2>2 DEF FailPoll, AfterFailedPoll, PollAgain, At,
                               Confirmed
    <3> QED
      BY <1>5, <1>stay, <2>2, <3>1 DEF FailPoll, AfterFailedPoll, PollAgain
  <2> QED
    BY <2>1, <2>2
<1>6. CASE EndBatch
  <2>1. CASE config.once
    BY <1>6, <1>down, <2>1 DEF EndBatch, PollAgain
  <2>2. CASE ~config.once
    BY <1>6, <1>stay, <2>2 DEF EndBatch, PollAgain, telegram, At
  <2> QED
    BY <2>1, <2>2
<1>7. CASE Take
  <2>1. PICK id \in batch, llm \in LLMAnswers :
          /\ \A other \in batch : id <= other
          /\ offset' = id + 1
          /\ \/ Return(NoReply)
             \/ /\ pc' = "login" /\ current' = id
                /\ parsed' = Extraction(kinds[id], llm)
          /\ UNCHANGED <<confirmed, session, backend>>
    BY <1>7 DEF Take, NextOffset, telegram
  <2>2. id = At + 1
    BY <2>1, NextInLine
  <2>3. At' = At + 1
    BY <1>at, <2>1, <2>2 DEF At
  <2>4. workflows' = workflows /\ Creates' = Creates
    BY <2>1 DEF backend, Creates
  <2>5. parsed' \in {"none", "llm", "deterministic", "fallback"}
    BY <2>1, ExtractionModes DEF Return
  <2>6. current' \in {0, At'} /\ (pc' = "login" => current' = At')
    BY <2>1, <2>2, <2>3 DEF Return
  <2> QED
    BY <2>1, <2>3, <2>4, <2>5, <2>6, MadeFrame
<1>8. CASE Login
  <2> DEFINE new == Call("create", 0)
  <2>1. /\ pc = "login" /\ pc' = "create" /\ calls' = calls \cup {new}
        /\ UNCHANGED <<session, parsed, current, workflows>> /\ At' = At
    BY <1>8 DEF Login, telegram, At
  <2>2. /\ new.op = "create" /\ new.session = session /\ new.message = At
        /\ new.parsed = parsed
    BY <2>1 DEF Call, MadeInv
  <2>3. Creates' = Creates \cup {new}
    BY <2>1, <2>2 DEF Creates
  <2>4. /\ \A c \in Creates : ~Same(c, new)
        /\ \A w \in DOMAIN workflows : ~Same(new, workflows[w])
    BY <1>at, <2>1, <2>2 DEF MadeInv, NotAhead, Same
  <2>5. /\ \A call \in Creates' : NotAhead(call)'
        /\ \A w \in DOMAIN workflows' : NotAhead(workflows[w])'
    BY <1>at, <2>1, <2>2, <2>3 DEF MadeInv, NotAhead
  <2>6. \A c, d \in Creates' : Same(c, d) => c = d
    BY <2>3, <2>4 DEF MadeInv, Same
  <2> HIDE DEF new
  <2> QED
    BY <2>1, <2>2, <2>3, <2>4, <2>5, <2>6
    DEF MadeInv, OneWorkflowPerSession, Same
<1>9. CASE Created
  <2>1. /\ pc' \in {"run", "take"} /\ parsed' \in {parsed, "none"}
        /\ calls' \in {calls, calls \cup {Call("run", answer.workflow)}}
        /\ UNCHANGED <<session, workflows>> /\ At' = At
    BY <1>9 DEF Created, Return, telegram, At
  <2>2. Call("run", answer.workflow).op = "run"
    BY DEF Call
  <2>3. Creates' = Creates
    BY <2>1, <2>2 DEF Creates
  <2> QED
    BY <2>1, <2>3, MadeFrame DEF MadeInv
<1>10. CASE Ran \/ Fail
  <2>1. /\ pc' = "take" /\ parsed' = "none"
        /\ UNCHANGED <<session, workflows, calls>> /\ At' = At
    BY <1>10 DEF Ran, Fail, Return, backend, telegram, At
  <2>2. Creates' = Creates
    BY <2>1 DEF Creates
  <2> QED
    BY <2>1, <2>2, MadeFrame
<1>11. CASE ServeCreate
  <2>1. PICK call \in calls :
          /\ call.op = "create"
          /\ calls' = calls \ {call}
          /\ workflows' = Append(workflows,
                 [message |-> call.message, session |-> call.session,
                  parsed |-> call.parsed, status |-> "CREATED"])
          /\ UNCHANGED bridge
    BY <1>11 DEF ServeCreate
  <2> DEFINE new == [message |-> call.message, session |-> call.session,
                     parsed |-> call.parsed, status |-> "CREATED"]
  <2>2. /\ call \in Creates /\ Creates' = Creates \ {call}
        /\ UNCHANGED <<session, pc, current, parsed>> /\ At' = At
    BY <1>11, <2>1 DEF ServeCreate, Creates, bridge, telegram, At
  <2>3. /\ new \in Made /\ NotAhead(new) /\ Same(new, call)
    BY <2>2 DEF MadeInv, NotAhead, Made, Same
  <2> HIDE DEF new
  <2>4. workflows \in Seq(Made) /\ workflows' = Append(workflows, new)
    BY <2>1 DEF MadeInv, new
  <2>5. /\ workflows' \in Seq(Made) /\ Len(workflows) \in Nat
        /\ DOMAIN workflows' = DOMAIN workflows \cup {Len(workflows) + 1}
        /\ workflows'[Len(workflows) + 1] = new
        /\ \A w \in DOMAIN workflows : /\ workflows'[w] = workflows[w]
                                      /\ w # Len(workflows) + 1
    BY <2>3, <2>4
  <2>6. /\ \A c \in Creates' : ~Same(c, new)
        /\ \A w \in DOMAIN workflows : ~Same(new, workflows[w])
    BY <2>2, <2>3 DEF MadeInv, Same
  <2>7. \A w \in DOMAIN workflows' : NotAhead(workflows'[w])
    BY <2>3, <2>5 DEF MadeInv
  <2>8. \A w \in DOMAIN workflows' : NotAhead(workflows[w])'
    BY <2>2, <2>7 DEF NotAhead
  <2>9. \A c \in Creates' : NotAhead(c)'
    BY <2>2 DEF MadeInv, NotAhead
  <2>10. \A c \in Creates', w \in DOMAIN workflows' : ~Same(c, workflows'[w])
    BY <2>2, <2>5, <2>6 DEF MadeInv
  <2>11. \A v, w \in DOMAIN workflows' :
            Same(workflows'[v], workflows'[w]) => v = w
    BY <2>5, <2>6 DEF MadeInv, OneWorkflowPerSession, Same
  <2> QED
    BY <2>2, <2>5, <2>8, <2>9, <2>10, <2>11
    DEF MadeInv, OneWorkflowPerSession, Same
<1>12. CASE ServeRun
  <2>1. PICK call \in calls :
          /\ call.op = "run" /\ calls' = calls \ {call}
          /\ workflows' =
                [workflows EXCEPT ![call.workflow].status = "WAITING_APPROVAL"]
    BY <1>12 DEF ServeRun
  <2>2. /\ Creates' = Creates
        /\ UNCHANGED <<session, pc, current, parsed>> /\ At' = At
    BY <1>12, <2>1 DEF ServeRun, Creates, bridge, telegram, At
  <2>3. /\ workflows' \in Seq(Made) /\ DOMAIN workflows' = DOMAIN workflows
        /\ \A w \in DOMAIN workflows :
              /\ workflows'[w].message = workflows[w].message
              /\ workflows'[w].session = workflows[w].session
    BY <2>1, StatusOnly DEF MadeInv
  <2>4. \A w \in DOMAIN workflows' : NotAhead(workflows[w])'
    BY <2>2, <2>3 DEF MadeInv, NotAhead
  <2>5. \A c \in Creates' : NotAhead(c)'
    BY <2>2 DEF MadeInv, NotAhead
  <2> QED
    BY <2>2, <2>3, <2>4, <2>5 DEF MadeInv, OneWorkflowPerSession, Same
<1>13. CASE UNCHANGED vars
  BY <1>13, <1>stay DEF vars, telegram, bridge, At
<1> QED
  BY <1>1, <1>2, <1>3, <1>4, <1>5, <1>6, <1>7, <1>8, <1>9, <1>10, <1>11,
     <1>12, <1>13 DEF Next, Handle

LEMMA Making == Spec => [](ReadInv /\ MadeInv)
BY Reading, MadeInit, MadeStep, PTL DEF Spec

\* The backend knows no request that repeats another (create_workflow of
\* api/v1/workflows.py), and the bridge does not wait for it; yet a session
\* makes one workflow of a message at most.
THEOREM SessionsMakeOneWorkflow == Spec => []OneWorkflowPerSession
BY Making, PTL DEF MadeInv
-----------------------------------------------------------------------------
\* The text allows for a request, found the way how says.
Asks(message, how) ==
    /\ kinds[message] # "chatter" /\ ~NamesPrinter(kinds[message])
    /\ how # "llm" => Parses(kinds[message])

\* It holds on from the extraction to the workflow.
FoundInv ==
    /\ kinds \in [Updates -> Kinds]
    /\ pc = "login" => Asks(current, parsed)
    /\ \A call \in Creates : Asks(call.message, call.parsed)
    /\ \A w \in DOMAIN workflows :
          Asks(workflows[w].message, workflows[w].parsed)

LEMMA FoundInit == Init => FoundInv
BY DEF Init, FoundInv, Creates

\* A step that extracts nothing.
LEMMA FoundFrame ==
    ASSUME FoundInv, kinds' = kinds, workflows' = workflows,
           Creates' = Creates,
           pc' = "login" => /\ pc = "login" /\ current' = current
                            /\ parsed' = parsed
    PROVE  FoundInv'
BY DEF FoundInv, Asks

LEMMA FoundStep == MadeInv /\ ReadInv /\ FoundInv /\ [Next]_vars => FoundInv'
<1> SUFFICES ASSUME MadeInv, ReadInv, FoundInv, [Next]_vars PROVE FoundInv'
  OBVIOUS
<1>1. CASE Send
  BY <1>1, FoundFrame DEF Send, bridge, backend, Creates
<1>2. CASE Start
  BY <1>2, FoundFrame DEF Start, telegram, backend, Creates
<1>3. CASE Crash
  BY <1>3, FoundFrame DEF Crash, Down, telegram, backend, Creates
<1>4. CASE Poll
  BY <1>4, FoundFrame DEF Poll, backend, Creates
<1>5. CASE FailPoll
  BY <1>5, FoundFrame
  DEF FailPoll, AfterFailedPoll, PollAgain, Down, backend, Creates
<1>6. CASE EndBatch
  BY <1>6, FoundFrame DEF EndBatch, PollAgain, Down, telegram, backend, Creates
<1>7. CASE Take
  <2>1. PICK id \in batch, llm \in LLMAnswers :
          /\ \A other \in batch : id <= other
          /\ LET how == Extraction(kinds[id], llm)
             IN  IF \/ IsChatter(kinds[id]) \/ how = "none"
                    \/ Guarded(kinds[id], how) \/ config.dry_run
                 THEN Return(NoReply)
                 ELSE pc' = "login" /\ current' = id /\ parsed' = how
    BY <1>7 DEF Take
  <2>2. UNCHANGED <<kinds, backend>>
    BY <1>7 DEF Take, telegram
  <2> DEFINE how == Extraction(kinds[id], llm)
  <2>3. how # "none" /\ how # "llm" => Parses(kinds[id])
    BY DEF Extraction
  <2>4. pc' = "login" => /\ ~IsChatter(kinds[id]) /\ how # "none"
                         /\ ~Guarded(kinds[id], how)
                         /\ current' = id /\ parsed' = how
    BY <2>1 DEF Return
  <2>5. pc' = "login" => Asks(id, how) /\ current' = id /\ parsed' = how
    BY <2>3, <2>4 DEF Asks, IsChatter, Guarded
  <2> QED
    BY <2>2, <2>5 DEF FoundInv, Asks, backend, Creates
<1>8. CASE Login
  <2> DEFINE new == Call("create", 0)
  <2>1. /\ pc = "login" /\ pc' = "create" /\ calls' = calls \cup {new}
        /\ UNCHANGED <<kinds, workflows>>
    BY <1>8 DEF Login, telegram
  <2>2. Asks(new.message, new.parsed) /\ Creates' \subseteq Creates \cup {new}
    BY <2>1 DEF Call, Creates, FoundInv
  <2> QED
    BY <2>1, <2>2 DEF FoundInv, Asks
<1>9. CASE Created
  <2>1. Call("run", answer.workflow).op = "run"
    BY DEF Call
  <2>2. Creates' = Creates
    BY <1>9, <2>1 DEF Created, Creates
  <2> QED
    BY <1>9, <2>2, FoundFrame DEF Created, Return, telegram
<1>10. CASE Ran \/ Fail
  BY <1>10, FoundFrame DEF Ran, Fail, Return, telegram, backend, Creates
<1>11. CASE ServeCreate
  <2>1. PICK call \in calls :
          /\ call.op = "create"
          /\ calls' = calls \ {call}
          /\ workflows' = Append(workflows,
                 [message |-> call.message, session |-> call.session,
                  parsed |-> call.parsed, status |-> "CREATED"])
          /\ UNCHANGED <<telegram, bridge>>
    BY <1>11 DEF ServeCreate
  <2> DEFINE new == [message |-> call.message, session |-> call.session,
                     parsed |-> call.parsed, status |-> "CREATED"]
  <2>2. Asks(new.message, new.parsed) /\ Creates' \subseteq Creates
    BY <2>1 DEF FoundInv, Creates
  <2> HIDE DEF new
  <2>3. workflows \in Seq(Made) /\ workflows' = Append(workflows, new)
    BY <2>1 DEF MadeInv, new
  <2>4. \A w \in DOMAIN workflows' :
           workflows'[w] = IF w \in DOMAIN workflows THEN workflows[w] ELSE new
    BY <2>3
  <2>5. \A w \in DOMAIN workflows' :
           Asks(workflows'[w].message, workflows'[w].parsed)
    BY <2>2, <2>4 DEF FoundInv
  <2> QED
    BY <2>1, <2>2, <2>5 DEF FoundInv, Asks, telegram, bridge
<1>12. CASE ServeRun
  <2>1. PICK call \in calls :
          /\ call.op = "run" /\ calls' = calls \ {call}
          /\ workflows' =
                [workflows EXCEPT ![call.workflow].status = "WAITING_APPROVAL"]
          /\ UNCHANGED <<telegram, bridge>>
    BY <1>12 DEF ServeRun
  <2>2. /\ DOMAIN workflows' = DOMAIN workflows
        /\ \A w \in DOMAIN workflows :
              /\ workflows'[w].message = workflows[w].message
              /\ workflows'[w].parsed = workflows[w].parsed
    BY <2>1, StatusOnly DEF MadeInv
  <2>3. Creates' \subseteq Creates
    BY <2>1 DEF Creates
  <2> QED
    BY <2>1, <2>2, <2>3 DEF FoundInv, Asks, telegram, bridge
<1>13. CASE UNCHANGED vars
  BY <1>13, FoundFrame DEF vars, telegram, bridge, backend, Creates
<1> QED
  BY <1>1, <1>2, <1>3, <1>4, <1>5, <1>6, <1>7, <1>8, <1>9, <1>10, <1>11,
     <1>12, <1>13 DEF Next, Handle

\* The text has the last word over the language model on every path and in any
\* interleaving with late answers and restarts: no workflow is made of chatter
\* or of a text that names a printer, and without a finding of the model only of
\* a text of the parser's form (extract_customer_request,
\* apply_unsupported_item_guard).
THEOREM WorkflowsComeFromRequests == Spec => []OnlyRequestsBecomeWorkflows
<1>1. FoundInv => OnlyRequestsBecomeWorkflows
  BY DEF FoundInv, Asks, OnlyRequestsBecomeWorkflows
<1> QED
  BY <1>1, FoundInit, FoundStep, Making, PTL DEF Spec
-----------------------------------------------------------------------------
\* The workflow is the one this session made of the message.
MadeOf(w, message) ==
    /\ w \in DOMAIN workflows
    /\ workflows[w].message = message /\ workflows[w].session = session

\* An answer, and a call of run, are about the workflow they say.
TrueInv ==
    /\ \A call \in calls : call.op = "run" =>
          /\ call.workflow \in DOMAIN workflows
          /\ workflows[call.workflow].message = call.message
          /\ workflows[call.workflow].session = call.session
    /\ pc = "run" => MadeOf(made, current)
    /\ answer.op = "create" => /\ pc = "create" /\ answer.status = "CREATED"
                               /\ MadeOf(answer.workflow, current)
    /\ answer.op = "run" => /\ pc = "run" /\ answer.status = "WAITING_APPROVAL"
                            /\ workflows[made].status = "WAITING_APPROVAL"
    /\ RepliesAreTrue

LEMMA TrueInit == Init => TrueInv
BY DEF Init, TrueInv, RepliesAreTrue, NoAnswer, NoReply

\* A step after which no call is waited for.
LEMMA TrueFrame ==
    ASSUME TrueInv, UNCHANGED backend, pc' # "run",
           \/ answer' = NoAnswer
           \/ answer' = answer /\ pc \notin {"create", "run"},
           \/ said'.kind = "none"
           \/ UNCHANGED <<said, session>>
           \/ RepliesAreTrue'
    PROVE  TrueInv'
<1>1. answer'.op \notin {"create", "run"}
  BY DEF TrueInv, NoAnswer
<1>2. RepliesAreTrue'
  BY DEF TrueInv, RepliesAreTrue, backend
<1> QED
  BY <1>1, <1>2 DEF TrueInv, backend

\* The backend keeps what it has of a workflow, but for the status of a new one.
Kept ==
    \A w \in DOMAIN workflows :
       /\ w \in DOMAIN workflows'
       /\ workflows'[w].message = workflows[w].message
       /\ workflows'[w].session = workflows[w].session
       /\ \/ workflows'[w].status = workflows[w].status
          \/ /\ workflows[w].status = "CREATED"
             /\ workflows'[w].status = "WAITING_APPROVAL"

\* A step of the backend, up to its answer.
LEMMA TrueServed ==
    ASSUME TrueInv, Kept, UNCHANGED bridge, calls' \subseteq calls,
           \/ answer' = answer
           \/ /\ answer'.op = "create" /\ pc = "create"
              /\ answer'.status = "CREATED"
              /\ MadeOf(answer.workflow, current)'
           \/ /\ answer'.op = "run" /\ pc = "run"
              /\ answer'.status = "WAITING_APPROVAL"
              /\ workflows'[made].status = "WAITING_APPROVAL"
    PROVE  TrueInv'
<1>1. UNCHANGED <<pc, session, current, made, said>>
  BY DEF bridge
<1>2. \A call \in calls' : call.op = "run" =>
         /\ call.workflow \in DOMAIN workflows'
         /\ workflows'[call.workflow].message = call.message
         /\ workflows'[call.workflow].session = call.session
  BY DEF TrueInv, Kept
<1>3. \A w, m : MadeOf(w, m) => MadeOf(w, m)'
  BY <1>1 DEF MadeOf, Kept
<1>4. RepliesAreTrue'
  BY <1>1 DEF TrueInv, RepliesAreTrue, Kept
<1>5. pc' = "run" => MadeOf(made, current)'
  BY <1>1, <1>3 DEF TrueInv
<1>6. answer'.op = "create" =>
         /\ pc' = "create" /\ answer'.status = "CREATED"
         /\ MadeOf(answer.workflow, current)'
  BY <1>1, <1>3 DEF TrueInv, MadeOf
<1>7. answer'.op = "run" =>
         /\ pc' = "run" /\ answer'.status = "WAITING_APPROVAL"
         /\ workflows'[made'].status = "WAITING_APPROVAL"
  BY <1>1 DEF TrueInv, MadeOf, Kept
<1> QED
  BY <1>2, <1>4, <1>5, <1>6, <1>7 DEF TrueInv

LEMMA TrueStep == MadeInv /\ TrueInv /\ [Next]_vars => TrueInv'
<1> SUFFICES ASSUME MadeInv, TrueInv, [Next]_vars PROVE TrueInv'
  OBVIOUS
<1>1. CASE Send \/ UNCHANGED vars
  BY <1>1 DEF Send, vars, bridge, backend, TrueInv, MadeOf, RepliesAreTrue
<1>2. CASE Start
  BY <1>2, TrueFrame DEF Start
<1>3. CASE Crash
  BY <1>3, TrueFrame DEF Crash, Down, NoReply
<1>4. CASE Poll
  BY <1>4, TrueFrame DEF Poll
<1>5. CASE FailPoll
  BY <1>5, TrueFrame DEF FailPoll, AfterFailedPoll, PollAgain, Down, NoReply
<1>6. CASE EndBatch
  BY <1>6, TrueFrame DEF EndBatch, PollAgain, Down, NoReply
<1>7. CASE Take
  <2>1. /\ pc = "take" /\ said' = NoReply /\ UNCHANGED backend
        /\ \/ pc' = "take" /\ answer' = NoAnswer
           \/ pc' = "login" /\ answer' = answer
    BY <1>7 DEF Take, Return
  <2> QED
    BY <2>1, TrueFrame DEF NoReply
<1>8. CASE Login
  <2>1. /\ pc = "login" /\ pc' = "create"
        /\ calls' = calls \cup {Call("create", 0)}
        /\ UNCHANGED <<session, answer, said, workflows>>
    BY <1>8 DEF Login
  <2>2. Call("create", 0).op = "create"
    BY DEF Call
  <2> QED
    BY <2>1, <2>2 DEF TrueInv, RepliesAreTrue
<1>9. CASE Created
  <2>1. /\ answer.status = "CREATED" /\ MadeOf(answer.workflow, current)
        /\ UNCHANGED <<session, workflows>>
    BY <1>9 DEF Created, TrueInv
  <2>2. CASE config.auto_run
    <3> DEFINE new == Call("run", answer.workflow)
    <3>1. /\ pc' = "run" /\ calls' = calls \cup {new}
          /\ made' = answer.workflow /\ answer' = NoAnswer
          /\ UNCHANGED <<current, said>>
      BY <1>9, <2>2 DEF Created
    <3>2. /\ new.workflow = answer.workflow /\ new.message = current
          /\ new.session = session
      BY DEF Call
    <3> HIDE DEF new
    <3> QED
      BY <2>1, <3>1, <3>2 DEF TrueInv, MadeOf, RepliesAreTrue, NoAnswer
  <2>3. CASE ~config.auto_run
    <3>1. /\ said' = Reply("created", current, answer.workflow, "CREATED")
          /\ pc' = "take" /\ answer' = NoAnswer /\ UNCHANGED backend
      BY <1>9, <2>1, <2>3 DEF Created, Return, backend
    <3>2. RepliesAreTrue'
      BY <2>1, <3>1 DEF RepliesAreTrue, Reply, MadeOf
    <3> QED
      BY <3>1, <3>2, TrueFrame
  <2> QED
    BY <2>2, <2>3
<1>10. CASE Ran
  <2>1. /\ pc = "run" /\ answer.op = "run"
        /\ said' = Reply("ran", current, made, answer.status)
        /\ pc' = "take" /\ answer' = NoAnswer
        /\ UNCHANGED <<session, backend>>
    BY <1>10 DEF Ran, Return
  <2>2. RepliesAreTrue'
    BY <2>1 DEF TrueInv, RepliesAreTrue, Reply, MadeOf, backend
  <2> QED
    BY <2>1, <2>2, TrueFrame
<1>11. CASE Fail
  <2>1. /\ said' = FailureReply /\ pc' = "take" /\ answer' = NoAnswer
        /\ UNCHANGED <<session, backend>>
    BY <1>11 DEF Fail, Return
  <2>2. RepliesAreTrue'
    BY <2>1
    DEF TrueInv, RepliesAreTrue, FailureReply, Reply, MadeOf, backend
  <2> QED
    BY <2>1, <2>2, TrueFrame
<1>12. CASE ServeCreate
  <2>1. PICK call \in calls :
          /\ call.op = "create"
          /\ calls' = calls \ {call}
          /\ workflows' = Append(workflows,
                 [message |-> call.message, session |-> call.session,
                  parsed |-> call.parsed, status |-> "CREATED"])
          /\ answer' = AnswerTo(call, Len(workflows'), "CREATED")
          /\ UNCHANGED bridge
    BY <1>12 DEF ServeCreate
  <2> DEFINE new == [message |-> call.message, session |-> call.session,
                     parsed |-> call.parsed, status |-> "CREATED"]
  <2>2. new.message = call.message /\ new.session = call.session
    OBVIOUS
  <2> HIDE DEF new
  <2>3. workflows \in Seq(Made) /\ workflows' = Append(workflows, new)
    BY <2>1 DEF MadeInv, new
  <2>4. /\ Len(workflows') \in DOMAIN workflows'
        /\ workflows'[Len(workflows')] = new
    BY <2>3
  <2>5. Kept
    BY <2>3 DEF Kept
  <2>6. CASE ~Awaited(call)
    BY <2>1, <2>5, <2>6, TrueServed DEF AnswerTo
  <2>7. CASE Awaited(call)
    <3>1. /\ answer'.op = "create" /\ answer'.workflow = Len(workflows')
          /\ answer'.status = "CREATED" /\ pc = "create"
      BY <2>1, <2>7 DEF AnswerTo, Awaited
    <3>2. current' = current /\ session' = session
      BY <2>1 DEF bridge
    <3>3. MadeOf(answer.workflow, current)'
      BY <2>2, <2>4, <2>7, <3>1, <3>2 DEF MadeOf, Awaited
    <3> QED
      BY <2>1, <2>5, <3>1, <3>3, TrueServed
  <2> QED
    BY <2>6, <2>7
<1>13. CASE ServeRun
  <2>1. PICK call \in calls :
          /\ call.op = "run" /\ calls' = calls \ {call}
          /\ workflows[call.workflow].status = "CREATED"
          /\ workflows' =
                [workflows EXCEPT ![call.workflow].status = "WAITING_APPROVAL"]
          /\ answer' = AnswerTo(call, call.workflow, "WAITING_APPROVAL")
          /\ UNCHANGED bridge
    BY <1>13 DEF ServeRun
  <2>2. /\ DOMAIN workflows' = DOMAIN workflows
        /\ \A w \in DOMAIN workflows :
              /\ workflows'[w].message = workflows[w].message
              /\ workflows'[w].session = workflows[w].session
              /\ workflows'[w].status = IF w = call.workflow
                                        THEN "WAITING_APPROVAL"
                                        ELSE workflows[w].status
    BY <2>1, StatusOnly DEF MadeInv
  <2>3. Kept
    BY <2>1, <2>2 DEF Kept
  <2>4. CASE ~Awaited(call)
    BY <2>1, <2>3, <2>4, TrueServed DEF AnswerTo
  <2>5. CASE Awaited(call)
    \* What is awaited is the run of the one workflow there is of the message.
    <3>1. /\ pc = "run" /\ call.workflow \in DOMAIN workflows
          /\ call.workflow = made
      BY <2>1, <2>5
      DEF Awaited, TrueInv, MadeOf, MadeInv, OneWorkflowPerSession
    <3>2. answer'.op = "run" /\ answer'.status = "WAITING_APPROVAL"
      BY <2>1, <2>5 DEF AnswerTo
    <3>3. workflows'[made].status = "WAITING_APPROVAL"
      BY <2>2, <3>1
    <3> QED
      BY <2>1, <2>3, <3>1, <3>2, <3>3, TrueServed
  <2> QED
    BY <2>4, <2>5
<1> QED
  BY <1>1, <1>2, <1>3, <1>4, <1>5, <1>6, <1>7, <1>8, <1>9, <1>10, <1>11,
     <1>12, <1>13 DEF Next, Handle

\* What the bridge tells a customer of a workflow is so (the replies of
\* handle_update), however late the backend answered calls it gave up before.
THEOREM TheBridgeTellsTheTruth == Spec => []RepliesAreTrue
<1>1. TrueInv => RepliesAreTrue
  BY DEF TrueInv
<1> QED
  BY <1>1, TrueInit, TrueStep, Making, PTL DEF Spec
==============================================================================

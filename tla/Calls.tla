------------------------------- MODULE Calls -------------------------------
(***************************************************************************)
(* Function calls: mitogen.parent.CallChain in the callers and             *)
(* mitogen.core.Dispatcher in the target, whose main thread runs the calls *)
(* of every chain, one at a time, in the order they arrive.  A pipelined   *)
(* chain's first exception is recorded under its chain ID and answers the  *)
(* chain's later calls, which do not run, until the chain is reset.        *)
(*                                                                         *)
(* A stream carries messages in order both ways until it disconnects,      *)
(* which gives the callers behind it a dead message for every call still   *)
(* unanswered (Handles.tla).                                               *)
(***************************************************************************)
EXTENDS Naturals, Sequences, FiniteSets

CONSTANTS
    Chains,     \* CallChain objects, each used by one thread
    Pipelined,  \* chains that have a chain ID
    Sources,    \* contexts the chains belong to, with a stream each
    SourceOf,   \* [Chains -> Sources]
    Script      \* [Chains -> Seq(Call)]: the calls each thread makes, in order

\* What a call does in the target: return, raise, fail in _parse_request() (a module
\* that cannot be imported, a name that is missing), or be CallChain.reset()'s
\* forget_chain(); and the method it is made with: call_no_reply(), call_async()
\* or call(), which waits for the answer.
Call == [does : {"return", "raise", "unparsable"}, by : {"no_reply", "async", "call"}]
            \cup [does : {"reset"}, by : {"no_reply"}]

ASSUME CallsAssumption ==
    /\ Pipelined \subseteq Chains
    /\ SourceOf \in [Chains -> Sources]
    /\ Script \in [Chains -> Seq(Call)]
    \* reset() sends nothing for a chain without a chain ID.
    /\ \A c \in Chains \ Pipelined : \A i \in DOMAIN Script[c] : Script[c][i].does # "reset"

\* The i-th call of chain c.
Ids == UNION {{c} \X DOMAIN Script[c] : c \in Chains}
CallOf(id) == Script[id[1]][id[2]]

\* Chain IDs: a chain's own, or None for what is called outside any chain.
NoChain == "none"
ChainIds == Pipelined \cup {NoChain}
ASSUME ChainIdAssumption == NoChain \notin Chains

VARIABLES
    next,       \* [Chains -> index of the next call its thread makes]
    sent,       \* [Sources -> messages on their way to the target]
    inbox,      \* Dispatcher.recv's queue
    open,       \* Dispatcher.recv is not closed
    current,    \* the call the main thread executes and its outcome, or <<>>
    error,      \* [ChainIds -> the call whose exception is recorded]
    replies,    \* [Sources -> replies on their way back]
    up,         \* sources whose stream is connected
    answer,     \* [Ids -> what the Receiver of the call was passed]
    ran         \* history: calls whose function was called, in order

vars == <<next, sent, inbox, open, current, error, replies, up, answer, ran>>

\* A value, the exception of the chain's j-th call, or a dead message.
Answers == {<<"value">>, <<"dead">>} \cup {<<"error", id>> : id \in Ids}
NoAnswer == <<>>
NoError == <<>>
Reply == {<<id, a>> : id \in Ids, a \in Answers}

TypeOK ==
    /\ next \in [Chains -> Nat]
    /\ \A c \in Chains : next[c] \in 1..(Len(Script[c]) + 1)
    /\ sent \in [Sources -> Seq(Ids)]
    /\ inbox \in Seq(Ids)
    /\ open \in BOOLEAN
    /\ current \in {<<>>} \cup Reply
    /\ error \in [ChainIds -> Ids \cup {NoError}]
    /\ replies \in [Sources -> Seq(Reply)]
    /\ up \subseteq Sources
    /\ answer \in [Ids -> Answers \cup {NoAnswer}]
    /\ \A id \in Ids : CallOf(id).by = "no_reply" => answer[id] = NoAnswer
    /\ ran \in Seq(Ids)

Init ==
    /\ next = [c \in Chains |-> 1]
    /\ sent = [s \in Sources |-> <<>>]
    /\ inbox = <<>> /\ open = TRUE /\ current = <<>>
    /\ error = [k \in ChainIds |-> NoError]
    /\ replies = [s \in Sources |-> <<>>]
    /\ up = Sources
    /\ answer = [id \in Ids |-> NoAnswer]
    /\ ran = <<>>

----------------------------------------------------------------------------
(* The callers.                                                            *)

\* call() returns when its Receiver has a message.
Waiting(c) ==
    /\ next[c] > 1
    /\ Script[c][next[c] - 1].by = "call"
    /\ answer[<<c, next[c] - 1>>] = NoAnswer

WantsReply(id) == CallOf(id).by # "no_reply"

\* Without a route the caller gets a dead message at once.
MakeCall(c) ==
    LET id == <<c, next[c]>>
        s == SourceOf[c]
    IN  /\ next[c] <= Len(Script[c]) /\ ~Waiting(c)
        /\ next' = [next EXCEPT ![c] = @ + 1]
        /\ IF s \in up
           THEN sent' = [sent EXCEPT ![s] = Append(@, id)] /\ UNCHANGED answer
           ELSE /\ answer' = IF WantsReply(id) THEN [answer EXCEPT ![id] = <<"dead">>] ELSE answer
                /\ UNCHANGED sent
        /\ UNCHANGED <<inbox, open, current, error, replies, up, ran>>

ReceiveReply(s) ==
    LET r == Head(replies[s])
    IN  /\ replies[s] # <<>>
        /\ replies' = [replies EXCEPT ![s] = Tail(@)]
        /\ answer' = [answer EXCEPT ![r[1]] = r[2]]
        /\ UNCHANGED <<next, sent, inbox, open, current, error, up, ran>>

----------------------------------------------------------------------------
(* The target: its broker thread, then its main thread.                    *)

\* msg.reply(): nothing is sent where no reply is wanted or the stream is gone.
Respond(id, a) ==
    LET s == SourceOf[id[1]]
    IN  replies' = IF WantsReply(id) /\ s \in up
                   THEN [replies EXCEPT ![s] = Append(@, <<id, a>>)] ELSE replies

\* Once the Receiver is closed its handle is unknown: a dead reply.
Arrive(s) ==
    LET id == Head(sent[s])
    IN  /\ sent[s] # <<>>
        /\ sent' = [sent EXCEPT ![s] = Tail(@)]
        /\ IF open
           THEN inbox' = Append(inbox, id) /\ UNCHANGED replies
           ELSE Respond(id, <<"dead">>) /\ UNCHANGED inbox
        /\ UNCHANGED <<next, open, current, error, up, answer, ran>>

\* Dispatcher._on_broker_shutdown(): recv.close().  What is queued is lost.
Shutdown ==
    /\ open
    /\ open' = FALSE /\ inbox' = <<>>
    /\ UNCHANGED <<next, sent, current, error, replies, up, answer, ran>>

\* Calls that still have a Receiver waiting.
Unanswered ==
    {id \in Ids : id[2] < next[id[1]] /\ WantsReply(id) /\ answer[id] = NoAnswer}

\* Mutant: only calls that were not delivered are given up.
Undelivered(s) ==
    {id \in Unanswered : SourceOf[id[1]] = s /\ \E i \in DOMAIN sent[s] : sent[s][i] = id}

\* The handlers the disconnecting stream's context was to answer.
GivenUp(s) == {id \in Unanswered : SourceOf[id[1]] = s}

\* A stream disconnects: what it carried is lost, and the callers are told.
Disconnect(s) ==
    /\ s \in up
    /\ up' = up \ {s}
    /\ sent' = [sent EXCEPT ![s] = <<>>]
    /\ replies' = [replies EXCEPT ![s] = <<>>]
    /\ answer' = [id \in Ids |-> IF id \in GivenUp(s) THEN <<"dead">> ELSE answer[id]]
    /\ UNCHANGED <<next, inbox, open, current, error, ran>>

\* The message's chain ID: forget_chain() itself is called outside the chain.
ChainId(id) ==
    IF id[1] \in Pipelined /\ CallOf(id).does # "reset" THEN id[1] ELSE NoChain

\* Mutant: an exception is recorded although the call has no chain ID.
RecordsAlways(id) == TRUE

Records(id) == ChainId(id) # NoChain

Earlier(id) == error[ChainId(id)]

Raise(id) ==
    /\ current' = <<id, <<"error", id>>>>
    /\ error' = IF Records(id) THEN [error EXCEPT ![ChainId(id)] = id] ELSE error

Forget(id) ==
    /\ current' = <<id, <<"value">>>>
    /\ error' = [error EXCEPT ![id[1]] = NoError]

\* _dispatch_one(): parse, then look for an earlier exception, then call.
Take(id) ==
    LET does == CallOf(id).does
    IN  \/ /\ does = "unparsable"
           /\ current' = <<id, <<"error", id>>>>
           /\ UNCHANGED <<error, ran>>
        \/ /\ does # "unparsable" /\ Earlier(id) # NoError
           /\ current' = <<id, <<"error", Earlier(id)>>>>
           /\ UNCHANGED <<error, ran>>
        \/ /\ does # "unparsable" /\ Earlier(id) = NoError
           /\ ran' = Append(ran, id)
           /\ \/ does = "return" /\ current' = <<id, <<"value">>>> /\ UNCHANGED error
              \/ does = "raise" /\ Raise(id)
              \/ does = "reset" /\ Forget(id)

Dispatch ==
    /\ current = <<>> /\ inbox # <<>>
    /\ Take(Head(inbox))
    /\ inbox' = Tail(inbox)
    /\ UNCHANGED <<next, sent, open, replies, up, answer>>

Finish ==
    /\ current # <<>>
    /\ Respond(current[1], current[2])
    /\ current' = <<>>
    /\ UNCHANGED <<next, sent, inbox, open, error, up, answer, ran>>

----------------------------------------------------------------------------
Next ==
    \/ \E c \in Chains : MakeCall(c)
    \/ \E s \in Sources : ReceiveReply(s) \/ Arrive(s) \/ Disconnect(s)
    \/ Shutdown \/ Dispatch \/ Finish

\* Threads run and streams deliver; a target that shuts down disconnects.
Fairness ==
    /\ \A c \in Chains : WF_vars(MakeCall(c))
    /\ \A s \in Sources : WF_vars(ReceiveReply(s) \/ Arrive(s) \/ (~open /\ Disconnect(s)))
    /\ WF_vars(Dispatch \/ Finish)

Spec == Init /\ [][Next]_vars
FairSpec == Spec /\ Fairness

----------------------------------------------------------------------------
(* Properties.                                                             *)

\* A chain considered alone: call j is in effect at call i of the same chain
\* unless a reset separates them.
InEffect(j, i, c) ==
    j < i /\ \A k \in (j + 1)..(i - 1) : Script[c][k].does # "reset"

\* The first call of those that "fails" is the culprit that answers call i.
FailedBefore(c, i, fails) ==
    IF c \in Pipelined
    THEN {j \in DOMAIN Script[c] : Script[c][j].does \in fails /\ InEffect(j, i, c)} ELSE {}
First(S) == CHOOSE j \in S : \A k \in S : j <= k

Expected(c, i, fails) ==
    LET before == FailedBefore(c, i, fails)
    IN  CASE Script[c][i].does = "unparsable" -> <<"error", <<c, i>>>>
          [] Script[c][i].does # "unparsable" /\ before # {} -> <<"error", <<c, First(before)>>>>
          [] Script[c][i].does = "raise" /\ before = {} -> <<"error", <<c, i>>>>
          [] OTHER -> <<"value">>

\* Chains "may overlap concurrently at a target context without interference":
\* an answer that is not a dead message is the one the chain would get alone.
AnsweredAsIfAlone ==
    \A id \in Ids :
        answer[id] \in {NoAnswer, <<"dead">>, Expected(id[1], id[2], {"raise"})}

\* A call is due to run unless it cannot be parsed or an exception is in effect,
\* which does not stop reset().
Due(c, i) ==
    /\ Script[c][i].does # "unparsable"
    /\ Script[c][i].does = "reset" \/ FailedBefore(c, i, {"raise"}) = {}

\* The calls of a chain run in the order they were made, none of them after a
\* recorded exception or with an earlier one left out.
InOrder(calls) ==
    \A m, n \in DOMAIN calls :
        m < n /\ calls[m][1] = calls[n][1] => calls[m][2] < calls[n][2]

RanAsIfAlone ==
    /\ InOrder(ran)
    /\ \A n \in DOMAIN ran :
        LET c == ran[n][1]  i == ran[n][2]
        IN  /\ Due(c, i)
            /\ \A j \in 1..(i - 1) : Due(c, j) => \E m \in DOMAIN ran : ran[m] = <<c, j>>

\* reset() is carried out even on a chain that failed: once the target has
\* nothing left to do, a chain whose thread ended with reset() leaves no
\* exception behind.
EndsWithReset(c) == Script[c] # <<>> /\ Script[c][Len(Script[c])].does = "reset"

NothingRemembered ==
    /\ open /\ current = <<>> /\ inbox = <<>>
    /\ \A s \in Sources : s \in up /\ sent[s] = <<>>
    => \A c \in Pipelined : EndsWithReset(c) /\ next[c] > Len(Script[c]) => error[c] = NoError

\* A chain, its answers, what it runs and its reset() alike, is none of the others'
\* business, although all share one thread and one table of exceptions.
ChainsAreIndependent == AnsweredAsIfAlone /\ RanAsIfAlone /\ NothingRemembered

\* Every call that wants an answer gets one: again and again no call is left
\* without (there are finitely many).
CallsSettle == []<>(Unanswered = {})

\* Dispatcher: "any exception that occurs is recorded, and causes all subsequent
\* calls with the same `chain_id` to fail with the same exception".
AnyExceptionCancels ==
    \A id \in Ids :
        answer[id] \in {NoAnswer, <<"dead">>, Expected(id[1], id[2], {"raise", "unparsable"})}
=============================================================================

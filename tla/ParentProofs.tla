---------------------------- MODULE ParentProofs ----------------------------
(***************************************************************************)
(* Theorems about Calls and Connecting, of a parent and its children: for  *)
(* any chains, callers and scripts, and for any attempts at connecting.    *)
(***************************************************************************)
EXTENDS Calls, Connecting, FiniteSetTheorems, TLAPS

(***************************************************************************)
(* Calls.                                                                  *)
(*                                                                         *)
(* The calls of a chain are, in the order it made them: those the main     *)
(* thread has taken, those on the Dispatcher's queue, those on their way   *)
(* on its stream.  The invariant says so of every chain, and that what was *)
(* taken, the exception recorded and the calls that ran are what that many *)
(* calls of the chain alone would lead to.                                 *)
(***************************************************************************)

On(s) == {s[n] : n \in 1..Len(s)}

\* What is on a queue that takes, or loses, an element.
LEMMA OnAppend ==
    ASSUME NEW S, NEW s \in Seq(S), NEW x \in S
    PROVE  Append(s, x) \in Seq(S) /\ On(Append(s, x)) = On(s) \cup {x}
<1>1. PICK t : t = Append(s, x)
  OBVIOUS
<1>2. Len(s) \in Nat /\ Len(t) = Len(s) + 1 /\ t[Len(s) + 1] = x /\ \A j \in 1..Len(s) : t[j] = s[j]
  BY <1>1
<1>3. \A n \in 1..Len(t) : n \in 1..Len(s) \/ n = Len(s) + 1
  BY <1>2
<1>4. On(t) \subseteq On(s) \cup {x}
  BY <1>2, <1>3 DEF On
<1>5. On(s) \cup {x} \subseteq On(t)
  BY <1>2 DEF On
<1> QED
  BY <1>1, <1>4, <1>5

\* What is on a queue, by its first element and the rest.
LEMMA OnTail ==
    ASSUME NEW S, NEW s \in Seq(S), s # <<>>
    PROVE  Tail(s) \in Seq(S) /\ Head(s) \in S /\ On(s) = {Head(s)} \cup On(Tail(s))
<1>1. PICK t : t = Tail(s)
  OBVIOUS
<1>2. /\ Len(s) \in Nat /\ Len(s) >= 1 /\ Len(t) = Len(s) - 1 /\ \A j \in 1..Len(t) : t[j] = s[j + 1]
      /\ Head(s) = s[1] /\ \A j \in 1..Len(t) : j + 1 \in 1..Len(s)
  BY <1>1
<1>3. \A n \in 1..Len(s) : n = 1 \/ (n - 1 \in 1..Len(t) /\ t[n - 1] = s[n])
  BY <1>2
<1>4. On(s) \subseteq {Head(s)} \cup On(t)
  BY <1>2, <1>3 DEF On
<1>5. {Head(s)} \cup On(t) \subseteq On(s)
  BY <1>2 DEF On
<1> QED
  BY <1>1, <1>2, <1>4, <1>5

\* What is on a queue is of its type.
LEMMA OnType == ASSUME NEW S, NEW s \in Seq(S) PROVE On(s) \subseteq S
BY DEF On

\* Nothing is on an empty queue.
LEMMA OnEmpty == On(<<>>) = {}
BY DEF On

\* A call later than those of its chain on a queue joins it in order.
LEMMA OrderAppend ==
    ASSUME NEW S, NEW s \in Seq(S), NEW x \in S, InOrder(s),
           \A y \in On(s) : y[1] = x[1] => y[2] < x[2]
    PROVE  InOrder(Append(s, x))
<1>1. PICK t : t = Append(s, x)
  OBVIOUS
<1>2. /\ Len(s) \in Nat /\ DOMAIN t = 1..(Len(s) + 1) /\ t[Len(s) + 1] = x
      /\ DOMAIN s = 1..Len(s) /\ \A j \in 1..Len(s) : t[j] = s[j]
  BY <1>1
<1>3. SUFFICES ASSUME NEW m \in 1..(Len(s) + 1), NEW n \in 1..(Len(s) + 1), m < n, t[m][1] = t[n][1]
               PROVE  t[m][2] < t[n][2]
  BY <1>1, <1>2 DEF InOrder
<1>4. m \in 1..Len(s)
  BY <1>2, <1>3
<1>5. CASE n \in 1..Len(s)
  BY <1>2, <1>3, <1>4, <1>5 DEF InOrder
<1>6. CASE n = Len(s) + 1
  <2>1. t[m] \in On(s)
    BY <1>2, <1>4 DEF On
  <2> QED
    BY <1>2, <1>3, <1>6, <2>1
<1> QED
  BY <1>2, <1>5, <1>6

\* The first call of a chain on a queue is its earliest.
LEMMA OrderTail ==
    ASSUME NEW S, NEW s \in Seq(S), s # <<>>, InOrder(s)
    PROVE  /\ InOrder(Tail(s))
           /\ \A y \in On(Tail(s)) : y[1] = Head(s)[1] => Head(s)[2] < y[2]
<1>1. PICK t : t = Tail(s)
  OBVIOUS
<1>2. /\ Len(s) \in Nat /\ Len(s) >= 1 /\ Len(t) = Len(s) - 1 /\ \A j \in 1..Len(t) : t[j] = s[j + 1]
      /\ Head(s) = s[1] /\ \A j \in 1..Len(t) : j + 1 \in 1..Len(s)
      /\ DOMAIN s = 1..Len(s) /\ DOMAIN t = 1..Len(t)
  BY <1>1
<1>3. InOrder(t)
  <2> SUFFICES ASSUME NEW m \in 1..Len(t), NEW n \in 1..Len(t), m < n, t[m][1] = t[n][1]
               PROVE  t[m][2] < t[n][2]
    BY <1>2 DEF InOrder
  <2>1. m + 1 \in 1..Len(s) /\ n + 1 \in 1..Len(s) /\ m + 1 < n + 1
    BY <1>2
  <2>2. s[m + 1][1] = s[n + 1][1]
    BY <1>2
  <2>3. s[m + 1][2] < s[n + 1][2]
    BY <1>2, <2>1, <2>2 DEF InOrder
  <2> QED
    BY <1>2, <2>3
<1>4. \A n \in 1..Len(t) : t[n][1] = s[1][1] => s[1][2] < t[n][2]
  BY <1>2 DEF InOrder
<1> QED
  BY <1>1, <1>2, <1>3, <1>4 DEF On

\* The calls of the scripts.
LEMMA IdLemma ==
    ASSUME NEW id \in Ids
    PROVE  /\ id = <<id[1], id[2]>> /\ id[1] \in Chains /\ id[2] \in 1..Len(Script[id[1]])
           /\ id[2] \in Nat /\ CallOf(id) \in Call /\ SourceOf[id[1]] \in Sources
<1>1. PICK c \in Chains : id \in {c} \X DOMAIN Script[c]
  BY DEF Ids
<1>2. Script[c] \in Seq(Call) /\ DOMAIN Script[c] = 1..Len(Script[c]) /\ Len(Script[c]) \in Nat
  BY CallsAssumption
<1> QED
  BY <1>1, <1>2, CallsAssumption DEF CallOf

\* A call of a script has an identifier.
LEMMA IdMade ==
    ASSUME NEW c \in Chains, NEW i \in 1..Len(Script[c])
    PROVE  <<c, i>> \in Ids /\ Script[c][i] \in Call /\ Script[c] \in Seq(Call)
<1>1. Script[c] \in Seq(Call) /\ DOMAIN Script[c] = 1..Len(Script[c])
  BY CallsAssumption
<1>2. <<c, i>> \in {c} \X DOMAIN Script[c]
  BY <1>1
<1> QED
  BY <1>1, <1>2 DEF Ids

----------------------------------------------------------------------------
(* Types.                                                                  *)

Shapes ==
    /\ next \in [Chains -> Nat]
    /\ \A c \in Chains : next[c] \in 1..(Len(Script[c]) + 1)
    /\ sent \in [Sources -> Seq(Ids)]
    /\ inbox \in Seq(Ids)
    /\ open \in BOOLEAN
    /\ current \in {<<>>} \cup Reply
    /\ error \in [ChainIds -> Ids \cup {NoError}]
    /\ replies \in [Sources -> Seq(Reply)]
    /\ up \subseteq Sources
    /\ answer \in [Ids -> Answers \cup {NoAnswer}]
    /\ ran \in Seq(Ids)

\* No reply to a call that asked for none is on its way, or arrives.
Silent ==
    /\ \A id \in Ids : CallOf(id).by = "no_reply" => answer[id] = NoAnswer
    /\ \A s \in Sources : \A x \in On(replies[s]) : WantsReply(x[1])

\* A reply is a call and its answer.
LEMMA ReplyLemma ==
    ASSUME NEW x \in Reply
    PROVE  x = <<x[1], x[2]>> /\ x[1] \in Ids /\ x[2] \in Answers
BY DEF Reply

\* msg.reply() adds at most one reply, to a call that wants it.
LEMMA RespondTypes ==
    ASSUME Shapes, Silent, NEW id \in Ids, NEW a \in Answers, Respond(id, a)
    PROVE  /\ replies' \in [Sources -> Seq(Reply)]
           /\ \A s \in Sources : \A x \in On(replies'[s]) :
                x \in On(replies[s]) \/ (x = <<id, a>> /\ WantsReply(id))
<1>1. PICK s \in Sources : s = SourceOf[id[1]]
  BY IdLemma
<1>2. PICK r \in Reply : r = <<id, a>>
  <2>1. <<id, a>> \in Reply
    BY DEF Reply
  <2> QED
    BY <2>1
<1>3. replies[s] \in Seq(Reply)
  BY DEF Shapes
<1>4. CASE WantsReply(id) /\ s \in up
  <2>1. replies' = [replies EXCEPT ![s] = Append(replies[s], r)]
    BY <1>1, <1>2, <1>4 DEF Respond
  <2>2. Append(replies[s], r) \in Seq(Reply) /\ On(Append(replies[s], r)) = On(replies[s]) \cup {r}
    BY <1>3, OnAppend
  <2>3. replies'[s] = Append(replies[s], r) /\ \A u \in Sources : u # s => replies'[u] = replies[u]
    BY <2>1 DEF Shapes
  <2>4. replies' \in [Sources -> Seq(Reply)]
    BY <2>1, <2>2 DEF Shapes
  <2> QED
    BY <1>2, <1>4, <2>2, <2>3, <2>4
<1>5. CASE ~(WantsReply(id) /\ s \in up)
  BY <1>1, <1>5 DEF Respond, Shapes
<1> QED
  BY <1>4, <1>5

\* Every step keeps the types, and call_no_reply() unanswered.
LEMMA TypesStep == ASSUME Shapes, Silent, [Next]_vars PROVE Shapes' /\ Silent'
<1>1. ASSUME NEW c \in Chains, MakeCall(c) PROVE Shapes' /\ Silent'
  <2>1. PICK i : i = next[c] /\ i \in 1..Len(Script[c]) /\ i \in Nat
    <3>1. Len(Script[c]) \in Nat
      BY CallsAssumption
    <3> QED
      BY <1>1, <3>1 DEF MakeCall, Shapes
  <2>2. PICK id \in Ids : id = <<c, i>>
    BY <2>1, IdMade
  <2>3. PICK s \in Sources : s = SourceOf[c]
    BY CallsAssumption
  <2>4. /\ next' = [next EXCEPT ![c] = i + 1]
        /\ UNCHANGED <<inbox, open, current, error, replies, up, ran>>
    BY <1>1, <2>1 DEF MakeCall
  <2>5. next' \in [Chains -> Nat] /\ \A d \in Chains : next'[d] \in 1..(Len(Script[d]) + 1)
    <3>1. i + 1 \in 1..(Len(Script[c]) + 1)
      BY <2>1, CallsAssumption
    <3> QED
      BY <2>1, <2>4, <3>1 DEF Shapes
  <2>6. CASE s \in up
    <3>1. sent' = [sent EXCEPT ![s] = Append(sent[s], id)] /\ UNCHANGED answer
      BY <1>1, <2>1, <2>2, <2>3, <2>6 DEF MakeCall
    <3>2. Append(sent[s], id) \in Seq(Ids)
      BY DEF Shapes
    <3> QED
      BY <2>4, <2>5, <3>1, <3>2 DEF Shapes, Silent
  <2>7. CASE s \notin up
    <3>1. UNCHANGED sent
      BY <1>1, <2>3, <2>7 DEF MakeCall
    <3>2. answer' = IF WantsReply(id) THEN [answer EXCEPT ![id] = <<"dead">>] ELSE answer
      BY <1>1, <2>1, <2>2, <2>3, <2>7 DEF MakeCall
    <3>3. <<"dead">> \in Answers
      BY DEF Answers
    <3>4. answer' \in [Ids -> Answers \cup {NoAnswer}]
      BY <3>2, <3>3 DEF Shapes
    <3>5. \A x \in Ids : CallOf(x).by = "no_reply" => answer'[x] = NoAnswer
      BY <3>2 DEF Shapes, Silent, WantsReply
    <3> QED
      BY <2>4, <2>5, <3>1, <3>4, <3>5 DEF Shapes, Silent
  <2> QED
    BY <2>6, <2>7
<1>2. ASSUME NEW s \in Sources, ReceiveReply(s) PROVE Shapes' /\ Silent'
  <2>1. /\ replies[s] # <<>> /\ replies' = [replies EXCEPT ![s] = Tail(replies[s])]
        /\ answer' = [answer EXCEPT ![Head(replies[s])[1]] = Head(replies[s])[2]]
        /\ UNCHANGED <<next, sent, inbox, open, current, error, up, ran>>
    BY <1>2 DEF ReceiveReply
  <2>2. replies[s] \in Seq(Reply)
    BY DEF Shapes
  <2>3. PICK r \in Reply : r = Head(replies[s]) /\ r \in On(replies[s])
    BY <2>1, <2>2, OnTail
  <2>4. r[1] \in Ids /\ r[2] \in Answers /\ WantsReply(r[1])
    BY <2>3, ReplyLemma DEF Silent
  <2>5. Tail(replies[s]) \in Seq(Reply) /\ On(Tail(replies[s])) \subseteq On(replies[s])
    BY <2>1, <2>2, OnTail
  <2>6. replies'[s] = Tail(replies[s]) /\ \A u \in Sources : u # s => replies'[u] = replies[u]
    BY <2>1 DEF Shapes
  <2>7. Shapes'
    BY <2>1, <2>3, <2>4, <2>5 DEF Shapes
  <2>8. \A x \in Ids : CallOf(x).by = "no_reply" => answer'[x] = NoAnswer
    BY <2>1, <2>3, <2>4 DEF Shapes, Silent, WantsReply
  <2> QED
    BY <2>5, <2>6, <2>7, <2>8 DEF Silent
<1>3. ASSUME NEW s \in Sources, Arrive(s) PROVE Shapes' /\ Silent'
  <2>1. /\ sent[s] # <<>> /\ sent' = [sent EXCEPT ![s] = Tail(sent[s])]
        /\ UNCHANGED <<next, open, current, error, up, answer, ran>>
    BY <1>3 DEF Arrive
  <2>2. PICK id \in Ids : id = Head(sent[s])
    BY <2>1, OnTail DEF Shapes
  <2>3. Tail(sent[s]) \in Seq(Ids)
    BY <2>1, OnTail DEF Shapes
  <2>4. CASE open
    <3>1. inbox' = Append(inbox, id) /\ UNCHANGED replies
      BY <1>3, <2>2, <2>4 DEF Arrive
    <3> QED
      BY <2>1, <2>3, <3>1 DEF Shapes, Silent
  <2>5. CASE ~open
    <3>1. Respond(id, <<"dead">>) /\ UNCHANGED inbox
      BY <1>3, <2>2, <2>5 DEF Arrive
    <3>2. <<"dead">> \in Answers
      BY DEF Answers
    <3>3. /\ replies' \in [Sources -> Seq(Reply)]
          /\ \A u \in Sources : \A x \in On(replies'[u]) :
               x \in On(replies[u]) \/ (x = <<id, <<"dead">>>> /\ WantsReply(id))
      BY <3>1, <3>2, RespondTypes
    <3>4. \A u \in Sources : \A x \in On(replies'[u]) : WantsReply(x[1])
      BY <3>3 DEF Silent
    <3> QED
      BY <2>1, <2>3, <3>1, <3>3, <3>4 DEF Shapes, Silent
  <2> QED
    BY <2>4, <2>5
<1>4. ASSUME NEW s \in Sources, Disconnect(s) PROVE Shapes' /\ Silent'
  <2>1. <<"dead">> \in Answers
    BY DEF Answers
  <2>2. \A id \in GivenUp(s) : WantsReply(id)
    BY DEF GivenUp, Unanswered
  <2>3. Shapes'
    BY <1>4, <2>1 DEF Disconnect, Shapes
  <2>4. \A x \in Ids : CallOf(x).by = "no_reply" => answer'[x] = NoAnswer
    BY <1>4, <2>2 DEF Disconnect, Silent, WantsReply
  <2>5. \A u \in Sources : On(replies'[u]) \subseteq On(replies[u])
    BY <1>4, OnEmpty DEF Disconnect, Shapes
  <2> QED
    BY <2>3, <2>4, <2>5 DEF Silent
<1>5. CASE Shutdown
  <2>1. inbox' \in Seq(Ids)
    BY <1>5 DEF Shutdown
  <2>2. open' \in BOOLEAN
    BY <1>5 DEF Shutdown
  <2> QED
    BY <1>5, <2>1, <2>2 DEF Shutdown, Shapes, Silent
<1>6. CASE Dispatch
  <2>1. /\ current = <<>> /\ inbox # <<>> /\ Take(Head(inbox)) /\ inbox' = Tail(inbox)
        /\ UNCHANGED <<next, sent, open, replies, up, answer>>
    BY <1>6 DEF Dispatch
  <2>2. PICK id \in Ids : id = Head(inbox)
    BY <2>1, OnTail DEF Shapes
  <2>3. Tail(inbox) \in Seq(Ids)
    BY <2>1, OnTail DEF Shapes
  <2>4. ChainId(id) \in ChainIds
    BY DEF ChainId, ChainIds
  <2>5. <<"value">> \in Answers /\ <<"error", id>> \in Answers
    BY DEF Answers
  <2>6. Earlier(id) # NoError => <<"error", Earlier(id)>> \in Answers
    BY <2>4 DEF Answers, Earlier, Shapes
  <2>7. Append(ran, id) \in Seq(Ids)
    BY DEF Shapes
  <2>8. CallOf(id).does = "reset" => id[1] \in ChainIds
    <3>1. id[1] \in Chains /\ id[2] \in DOMAIN Script[id[1]]
      BY IdLemma, CallsAssumption
    <3> QED
      BY <3>1, CallsAssumption DEF CallOf, ChainIds
  <2>9. ran' \in Seq(Ids)
    BY <2>1, <2>2, <2>7 DEF Take, Shapes
  <2>10. error' \in [ChainIds -> Ids \cup {NoError}]
    BY <2>1, <2>2, <2>4, <2>8 DEF Take, Raise, Forget, Shapes
  <2>11. current' \in Reply
    <3>1. \E a \in Answers : current' = <<id, a>>
      BY <2>1, <2>2, <2>5, <2>6 DEF Take, Raise, Forget
    <3> QED
      BY <3>1 DEF Reply
  <2> QED
    BY <2>1, <2>3, <2>9, <2>10, <2>11 DEF Shapes, Silent
<1>7. CASE Finish
  <2>1. /\ current # <<>> /\ Respond(current[1], current[2]) /\ current' = <<>>
        /\ UNCHANGED <<next, sent, inbox, open, error, up, answer, ran>>
    BY <1>7 DEF Finish
  <2>2. PICK id \in Ids, a \in Answers : id = current[1] /\ a = current[2]
    BY <2>1, ReplyLemma DEF Shapes
  <2>3. /\ replies' \in [Sources -> Seq(Reply)]
        /\ \A s \in Sources : \A x \in On(replies'[s]) :
             x \in On(replies[s]) \/ (x = <<id, a>> /\ WantsReply(id))
    BY <2>1, <2>2, RespondTypes
  <2>4. \A s \in Sources : \A x \in On(replies'[s]) : WantsReply(x[1])
    BY <2>3 DEF Silent
  <2> QED
    BY <2>1, <2>3, <2>4 DEF Shapes, Silent
<1>8. CASE UNCHANGED vars
  BY <1>8 DEF vars, Shapes, Silent
<1> QED
  BY <1>1, <1>2, <1>3, <1>4, <1>5, <1>6, <1>7, <1>8 DEF Next

\* Every variable keeps its type, whoever calls, answers, disconnects or shuts
\* down, in any order; and a call made with call_no_reply() is never answered.
THEOREM CallsTypeCorrect == Spec => []TypeOK
<1>1. Init => Shapes /\ Silent
  <2>1. \A S : <<>> \in Seq(S)
    OBVIOUS
  <2>2. \A c \in Chains : 1 \in 1..(Len(Script[c]) + 1)
    BY CallsAssumption
  <2> QED
    BY <2>1, <2>2, OnEmpty DEF Init, Shapes, Silent
<1>2. Shapes /\ Silent => TypeOK
  BY DEF Shapes, Silent, TypeOK
<1> QED
  BY <1>1, <1>2, TypesStep, PTL DEF Spec

----------------------------------------------------------------------------
(* A chain alone: the exception in effect at each of its calls.            *)

Raised(c, i) == FailedBefore(c, i, {"raise"})
LeastOf(j, S) == j \in S /\ \A k \in S : j <= k

\* Nothing is in effect at a chain's first call.
LEMMA RaisedFirst == ASSUME NEW c \in Chains PROVE Raised(c, 1) = {}
<1>1. DOMAIN Script[c] = 1..Len(Script[c])
  BY CallsAssumption
<1> QED
  BY <1>1 DEF Raised, FailedBefore, InEffect

\* One call more: a reset ends what was in effect, an exception adds to it.
LEMMA RaisedNext ==
    ASSUME NEW c \in Chains, NEW i \in 1..Len(Script[c])
    PROVE  /\ Raised(c, i) \subseteq 1..(i - 1)
           /\ Raised(c, i + 1) =
                IF Script[c][i].does = "reset" THEN {}
                ELSE IF c \in Pipelined /\ Script[c][i].does = "raise" THEN Raised(c, i) \cup {i}
                ELSE Raised(c, i)
<1>1. DOMAIN Script[c] = 1..Len(Script[c]) /\ Len(Script[c]) \in Nat /\ i \in Nat
  BY CallsAssumption
<1>2. Raised(c, i) \subseteq 1..(i - 1)
  BY <1>1 DEF Raised, FailedBefore, InEffect
<1>3. ASSUME NEW j \in Nat, j < i
      PROVE  InEffect(j, i + 1, c) <=> InEffect(j, i, c) /\ Script[c][i].does # "reset"
  <2>1. (j + 1)..((i + 1) - 1) = ((j + 1)..(i - 1)) \cup {i}
    BY <1>1, <1>3
  <2>2. j < i + 1
    BY <1>1, <1>3
  <2> QED
    BY <1>3, <2>1, <2>2 DEF InEffect
<1>4. InEffect(i, i + 1, c)
  BY <1>1 DEF InEffect
<1>5. \A j \in 1..Len(Script[c]) : InEffect(j, i + 1, c) => j = i \/ j < i
  BY <1>1 DEF InEffect
<1>6. CASE c \notin Pipelined
  BY <1>2, <1>6 DEF Raised, FailedBefore
<1>7. CASE c \in Pipelined
  <2>1. \A k : Raised(c, k) = {j \in 1..Len(Script[c]) : Script[c][j].does = "raise" /\ InEffect(j, k, c)}
    BY <1>1, <1>7 DEF Raised, FailedBefore
  <2>2. \A j \in 1..Len(Script[c]) : j \in Nat /\ (InEffect(j, i, c) => j < i)
    BY <1>1 DEF InEffect
  <2>3. CASE Script[c][i].does = "reset"
    <3>1. ASSUME NEW j \in Raised(c, i + 1) PROVE FALSE
      BY <1>3, <1>5, <2>1, <2>2, <2>3, <3>1
    <3> QED
      BY <1>2, <2>3, <3>1
  <2>4. CASE Script[c][i].does # "reset"
    <3>1. \A j \in 1..Len(Script[c]) : InEffect(j, i + 1, c) <=> j = i \/ InEffect(j, i, c)
      BY <1>1, <1>3, <1>4, <1>5, <2>2, <2>4
    <3>2. Raised(c, i + 1) = Raised(c, i) \cup {j \in {i} : Script[c][j].does = "raise"}
      BY <2>1, <3>1
    <3> QED
      BY <1>2, <1>7, <2>4, <3>2
  <2> QED
    BY <2>3, <2>4
<1> QED
  BY <1>6, <1>7

\* The least element is the one First chooses.
LEMMA FirstIs == ASSUME NEW S \in SUBSET Nat, NEW j, LeastOf(j, S) PROVE First(S) = j
<1>1. \A x : (x \in S /\ \A k \in S : x <= k) => x = j
  BY DEF LeastOf
<1> QED
  BY <1>1 DEF First, LeastOf

\* What becomes of the i-th call, by the exceptions in effect.
LEMMA ExpectedIs ==
    ASSUME NEW c \in Chains, NEW i \in 1..Len(Script[c])
    PROVE  /\ Script[c][i].does = "unparsable" =>
                Expected(c, i, {"raise"}) = <<"error", <<c, i>>>>
           /\ \A j : Script[c][i].does # "unparsable" /\ LeastOf(j, Raised(c, i)) =>
                Expected(c, i, {"raise"}) = <<"error", <<c, j>>>>
           /\ Script[c][i].does = "raise" /\ Raised(c, i) = {} =>
                Expected(c, i, {"raise"}) = <<"error", <<c, i>>>>
           /\ Script[c][i].does \in {"return", "reset"} /\ Raised(c, i) = {} =>
                Expected(c, i, {"raise"}) = <<"value">>
<1>1. Raised(c, i) \in SUBSET Nat
  <2>1. Raised(c, i) \subseteq 1..(i - 1)
    BY RaisedNext
  <2>2. 1..(i - 1) \subseteq Nat
    BY CallsAssumption
  <2> QED
    BY <2>1, <2>2
<1>2. \A j : LeastOf(j, Raised(c, i)) => First(Raised(c, i)) = j /\ Raised(c, i) # {}
  BY <1>1, FirstIs DEF LeastOf
<1> QED
  BY <1>2 DEF Expected, Raised

----------------------------------------------------------------------------
(* The invariant.                                                          *)

\* The p first calls of c were taken: the exception they left, and those that ran.
ErrorAt(c, p) ==
    c \in Pipelined =>
        \/ Raised(c, p + 1) = {} /\ error[c] = NoError
        \/ \E j \in Nat : LeastOf(j, Raised(c, p + 1)) /\ error[c] = <<c, j>>

RanAt(c, p) == \A k \in Nat : <<c, k>> \in On(ran) <=> k \in 1..p /\ Due(c, k)

\* Those up to the m-th arrived, and the others made so far are on their way.
LineAt(c, p, m) ==
    open => /\ p <= m /\ m < next[c]
            /\ \A k \in Nat : <<c, k>> \in On(inbox) <=> p < k /\ k <= m
            /\ SourceOf[c] \in up =>
                 \A k \in Nat : <<c, k>> \in On(sent[SourceOf[c]]) <=> m < k /\ k < next[c]

ChainInv(c) == \E p, m \in Nat : ErrorAt(c, p) /\ RanAt(c, p) /\ LineAt(c, p, m)

Channels ==
    /\ open => InOrder(inbox) /\ \A s \in Sources : InOrder(sent[s])
    /\ ~open => inbox = <<>>
    /\ \A s \in Sources : /\ \A id \in On(sent[s]) : SourceOf[id[1]] = s
                          /\ s \notin up => sent[s] = <<>>

LineInv == Channels /\ error[NoChain] = NoError /\ InOrder(ran) /\ \A c \in Chains : ChainInv(c)

\* A caller makes a call.
LEMMA MakeCallKeepsLines == ASSUME Shapes, LineInv, NEW d \in Chains, MakeCall(d) PROVE LineInv'
<1>1. PICK i : i = next[d] /\ i \in 1..Len(Script[d]) /\ i \in Nat
  <2>1. Len(Script[d]) \in Nat
    BY CallsAssumption
  <2> QED
    BY <2>1 DEF MakeCall, Shapes
<1>2. PICK id \in Ids : id = <<d, i>>
  BY <1>1, IdMade
<1>3. PICK s \in Sources : s = SourceOf[d]
  BY CallsAssumption
<1>4. UNCHANGED <<inbox, open, current, error, replies, up, ran>>
  BY DEF MakeCall
<1>5. next'[d] = i + 1 /\ \A c \in Chains : c # d => next'[c] = next[c]
  BY <1>1 DEF MakeCall, Shapes
<1>6. CASE s \in up
  <2>1. sent'[s] = Append(sent[s], id) /\ \A u \in Sources : u # s => sent'[u] = sent[u]
    BY <1>1, <1>2, <1>3, <1>6 DEF MakeCall, Shapes
  <2>2. sent[s] \in Seq(Ids)
    BY DEF Shapes
  <2>3. On(sent'[s]) = On(sent[s]) \cup {id}
    BY <2>1, <2>2, OnAppend
  <2>4. ASSUME NEW c \in Chains PROVE ChainInv(c)'
    <3>1. PICK p, m \in Nat : ErrorAt(c, p) /\ RanAt(c, p) /\ LineAt(c, p, m)
      BY DEF LineInv, ChainInv
    <3>2. ErrorAt(c, p)' /\ RanAt(c, p)'
      BY <1>4, <3>1 DEF ErrorAt, RanAt
    <3>3. LineAt(c, p, m)'
      <4>1. CASE c = d
        BY <1>1, <1>2, <1>3, <1>4, <1>5, <1>6, <2>3, <3>1, <4>1 DEF LineAt
      <4>2. CASE c # d
        <5>1. \A k : <<c, k>> # id
          BY <1>2, <4>2
        <5>2. SourceOf[c] \in Sources
          BY CallsAssumption
        <5>3. PICK u \in Sources : u = SourceOf[c]
          BY <5>2
        <5>4. \A k : <<c, k>> \in On(sent'[u]) <=> <<c, k>> \in On(sent[u])
          <6>1. CASE u = s
            BY <2>3, <5>1, <6>1
          <6>2. CASE u # s
            BY <2>1, <6>2
          <6> QED
            BY <6>1, <6>2
        <5> QED
          BY <1>4, <1>5, <3>1, <4>2, <5>3, <5>4 DEF LineAt
      <4> QED
        BY <4>1, <4>2
    <3> QED
      BY <3>2, <3>3 DEF ChainInv
  <2>5. ASSUME open PROVE InOrder(sent'[s])
    <3>1. PICK p, m \in Nat : LineAt(d, p, m)
      BY DEF LineInv, ChainInv
    <3>2. ASSUME NEW y \in On(sent[s]), y[1] = id[1] PROVE y[2] < id[2]
      <4>1. y \in Ids
        BY <2>2, OnType
      <4>2. y = <<d, y[2]>> /\ y[2] \in Nat
        BY <1>2, <3>2, <4>1, IdLemma
      <4>3. y[2] < next[d]
        BY <1>3, <1>6, <2>5, <3>1, <4>2 DEF LineAt
      <4> QED
        BY <1>1, <1>2, <4>3
    <3>3. InOrder(sent[s])
      BY <2>5 DEF LineInv, Channels
    <3> QED
      BY <2>1, <2>2, <3>2, <3>3, OrderAppend
  <2>6. Channels'
    <3>1. open' => InOrder(inbox') /\ \A u \in Sources : InOrder(sent'[u])
      BY <1>4, <2>1, <2>5 DEF LineInv, Channels
    <3>2. ~open' => inbox' = <<>>
      BY <1>4 DEF LineInv, Channels
    <3>3. id[1] = d
      BY <1>2
    <3>4. \A x \in On(sent'[s]) : SourceOf[x[1]] = s
      BY <1>3, <2>3, <3>3 DEF LineInv, Channels
    <3>5. \A u \in Sources : /\ \A x \in On(sent'[u]) : SourceOf[x[1]] = u
                             /\ u \notin up' => sent'[u] = <<>>
      BY <1>4, <1>6, <2>1, <3>4 DEF LineInv, Channels
    <3> QED
      BY <3>1, <3>2, <3>5 DEF Channels
  <2> QED
    BY <1>4, <2>4, <2>6 DEF LineInv
<1>7. CASE s \notin up
  <2>1. UNCHANGED sent
    BY <1>3, <1>7 DEF MakeCall
  <2>2. ASSUME NEW c \in Chains PROVE ChainInv(c)'
    <3>1. PICK p, m \in Nat : ErrorAt(c, p) /\ RanAt(c, p) /\ LineAt(c, p, m)
      BY DEF LineInv, ChainInv
    <3>2. ErrorAt(c, p)' /\ RanAt(c, p)'
      BY <1>4, <3>1 DEF ErrorAt, RanAt
    <3>3. LineAt(c, p, m)'
      <4>1. CASE c = d
        BY <1>1, <1>3, <1>4, <1>5, <1>7, <3>1, <4>1 DEF LineAt
      <4>2. CASE c # d
        BY <1>4, <1>5, <2>1, <3>1, <4>2 DEF LineAt
      <4> QED
        BY <4>1, <4>2
    <3> QED
      BY <3>2, <3>3 DEF ChainInv
  <2>3. Channels'
    BY <1>4, <2>1 DEF LineInv, Channels
  <2> QED
    BY <1>4, <2>2, <2>3 DEF LineInv
<1> QED
  BY <1>6, <1>7

\* Of chain d, the queue q holds the calls after the p-th, up to the m-th.
Covers(q, d, p, m) == \A k \in Nat : <<d, k>> \in On(q) <=> p < k /\ k <= m

\* The queue r holds what q holds of the other chains.
SameBut(d, q, r) == \A c, k : c # d => (<<c, k>> \in On(r) <=> <<c, k>> \in On(q))

\* The first of a chain's calls on a queue that holds those after the p-th.
LEMMA HeadIsNext ==
    ASSUME NEW q \in Seq(Ids), q # <<>>, InOrder(q), NEW p \in Nat, NEW m \in Nat,
           NEW d, d = Head(q)[1],
           Covers(q, d, p, m)
    PROVE  /\ Head(q) = <<d, p + 1>> /\ p + 1 <= m /\ Head(q) \in Ids
           /\ Covers(Tail(q), d, p + 1, m) /\ SameBut(d, q, Tail(q))
<1>1. PICK id \in Ids : id = Head(q) /\ On(q) = {id} \cup On(Tail(q))
  BY OnTail
<1>2. PICK i \in Nat : id = <<d, i>>
  BY <1>1, IdLemma
<1>3. p < i /\ i <= m
  BY <1>1, <1>2 DEF Covers
<1>4. \A k \in Nat : <<d, k>> \in On(Tail(q)) => i < k
  BY <1>1, <1>2, OrderTail
<1>5. i = p + 1
  <2>1. p + 1 \in Nat /\ p < p + 1 /\ p + 1 <= m
    BY <1>3
  <2>2. <<d, p + 1>> \in On(q)
    BY <2>1 DEF Covers
  <2>3. <<d, p + 1>> = id \/ i < p + 1
    BY <1>1, <1>4, <2>1, <2>2
  <2> QED
    BY <1>2, <1>3, <2>3
<1>6. \A k \in Nat : <<d, k>> \in On(Tail(q)) <=> p + 1 < k /\ k <= m
  <2> SUFFICES ASSUME NEW k \in Nat PROVE <<d, k>> \in On(Tail(q)) <=> p + 1 < k /\ k <= m
    OBVIOUS
  <2>1. <<d, k>> \in On(Tail(q)) => p + 1 < k /\ k <= m
    BY <1>1, <1>4, <1>5 DEF Covers
  <2>2. ASSUME p + 1 < k, k <= m PROVE <<d, k>> \in On(Tail(q))
    <3>1. <<d, k>> \in On(q)
      BY <2>2 DEF Covers
    <3>2. <<d, k>> # id
      BY <1>2, <1>5, <2>2
    <3> QED
      BY <1>1, <3>1, <3>2
  <2> QED
    BY <2>1, <2>2
<1>7. \A c, k : c # d => <<c, k>> # id
  BY <1>2
<1> QED
  BY <1>1, <1>2, <1>3, <1>5, <1>6, <1>7 DEF Covers, SameBut

\* The broker thread queues what arrives.
LEMMA ArriveKeepsLines == ASSUME Shapes, LineInv, NEW s \in Sources, Arrive(s) PROVE LineInv'
<1>1. /\ sent[s] # <<>> /\ sent[s] \in Seq(Ids) /\ s \in up
      /\ UNCHANGED <<next, open, current, error, up, answer, ran>>
  BY DEF Arrive, Shapes, LineInv, Channels
<1>2. sent'[s] = Tail(sent[s]) /\ \A u \in Sources : u # s => sent'[u] = sent[u]
  BY DEF Arrive, Shapes
<1>3. PICK id \in Ids : id = Head(sent[s]) /\ On(sent[s]) = {id} \cup On(Tail(sent[s]))
  BY <1>1, OnTail
<1>4. CASE ~open
  <2>1. UNCHANGED inbox
    BY <1>4 DEF Arrive
  <2>2. ASSUME NEW c \in Chains PROVE ChainInv(c)'
    <3>1. PICK p, m \in Nat : ErrorAt(c, p) /\ RanAt(c, p)
      BY DEF LineInv, ChainInv
    <3>2. ErrorAt(c, p)' /\ RanAt(c, p)' /\ LineAt(c, p, m)'
      BY <1>1, <1>4, <3>1 DEF ErrorAt, RanAt, LineAt
    <3> QED
      BY <3>2 DEF ChainInv
  <2>3. Channels'
    BY <1>1, <1>2, <1>3, <1>4, <2>1 DEF LineInv, Channels
  <2> QED
    BY <1>1, <2>2, <2>3 DEF LineInv
<1>5. CASE open
  <2>1. inbox' = Append(inbox, id) /\ inbox \in Seq(Ids)
    BY <1>3, <1>5 DEF Arrive, Shapes
  <2>2. On(inbox') = On(inbox) \cup {id}
    BY <2>1, OnAppend
  <2>3. PICK d \in Chains : d = id[1] /\ SourceOf[d] = s
    BY <1>3, IdLemma DEF LineInv, Channels
  <2>4. PICK p, m \in Nat : ErrorAt(d, p) /\ RanAt(d, p) /\ LineAt(d, p, m)
    BY DEF LineInv, ChainInv
  <2>5. PICK n \in Nat : next[d] = n + 1
    <3>1. next[d] \in Nat /\ next[d] >= 1
      BY DEF Shapes
    <3>2. next[d] - 1 \in Nat /\ next[d] = (next[d] - 1) + 1
      BY <3>1
    <3> QED
      BY <3>2
  <2>6. Covers(sent[s], d, m, n)
    BY <1>1, <1>5, <2>3, <2>4, <2>5 DEF LineAt, Covers
  <2>7. InOrder(sent[s]) /\ InOrder(inbox)
    BY <1>5 DEF LineInv, Channels
  <2>8. /\ id = <<d, m + 1>> /\ m + 1 <= n
        /\ Covers(Tail(sent[s]), d, m + 1, n) /\ SameBut(d, sent[s], Tail(sent[s]))
    BY <1>1, <1>3, <2>3, <2>6, <2>7, HeadIsNext
  <2>9. LineAt(d, p, m + 1)'
    <3>1. m + 1 \in Nat /\ p <= m + 1 /\ m + 1 < next'[d]
      BY <1>1, <1>5, <2>4, <2>5, <2>8 DEF LineAt
    <3>2. \A k \in Nat : <<d, k>> \in On(inbox') <=> p < k /\ k <= m + 1
      <4>1. \A k : <<d, k>> = id <=> k = m + 1
        BY <2>8
      <4>2. \A k \in Nat : <<d, k>> \in On(inbox) <=> p < k /\ k <= m
        BY <1>5, <2>4 DEF LineAt
      <4>3. p <= m
        BY <1>5, <2>4 DEF LineAt
      <4> QED
        BY <2>2, <4>1, <4>2, <4>3
    <3>3. \A k \in Nat : <<d, k>> \in On(sent'[s]) <=> m + 1 < k /\ k < next'[d]
      BY <1>1, <1>2, <2>5, <2>8 DEF Covers
    <3> QED
      BY <2>3, <3>1, <3>2, <3>3 DEF LineAt
  <2>10. ASSUME NEW c \in Chains PROVE ChainInv(c)'
    <3>1. CASE c = d
      <4>1. ErrorAt(d, p)' /\ RanAt(d, p)' /\ m + 1 \in Nat
        BY <1>1, <2>4 DEF ErrorAt, RanAt
      <4> QED
        BY <2>9, <3>1, <4>1 DEF ChainInv
    <3>2. CASE c # d
      <4>1. PICK a, b \in Nat : ErrorAt(c, a) /\ RanAt(c, a) /\ LineAt(c, a, b)
        BY DEF LineInv, ChainInv
      <4>2. ErrorAt(c, a)' /\ RanAt(c, a)'
        BY <1>1, <4>1 DEF ErrorAt, RanAt
      <4>3. SourceOf[c] \in Sources
        BY CallsAssumption
      <4>4. \A k : <<c, k>> \in On(sent'[SourceOf[c]]) <=> <<c, k>> \in On(sent[SourceOf[c]])
        <5>1. PICK u \in Sources : u = SourceOf[c]
          BY <4>3
        <5>2. CASE u = s
          BY <1>2, <2>8, <3>2, <5>1, <5>2 DEF SameBut
        <5>3. CASE u # s
          BY <1>2, <5>1, <5>3
        <5> QED
          BY <5>2, <5>3
      <4>5. \A k : <<c, k>> \in On(inbox') <=> <<c, k>> \in On(inbox)
        BY <2>2, <2>8, <3>2
      <4>6. LineAt(c, a, b)'
        BY <1>1, <4>1, <4>4, <4>5 DEF LineAt
      <4> QED
        BY <4>2, <4>6 DEF ChainInv
    <3> QED
      BY <3>1, <3>2
  <2>11. InOrder(inbox')
    <3>1. ASSUME NEW y \in On(inbox), y[1] = id[1] PROVE y[2] < id[2]
      <4>1. y \in Ids
        BY <2>1, OnType
      <4>2. y = <<d, y[2]>> /\ y[2] \in Nat
        BY <2>3, <3>1, <4>1, IdLemma
      <4>3. y[2] <= m
        BY <1>5, <2>4, <4>2 DEF LineAt
      <4> QED
        BY <2>8, <4>2, <4>3
    <3> QED
      BY <2>1, <2>7, <3>1, OrderAppend
  <2>12. InOrder(sent'[s])
    BY <1>1, <1>2, <2>7, OrderTail
  <2>13. Channels'
    BY <1>1, <1>2, <1>3, <1>5, <2>11, <2>12 DEF LineInv, Channels
  <2> QED
    BY <1>1, <2>10, <2>13 DEF LineInv
<1> QED
  BY <1>4, <1>5

\* What the main thread makes of a call, by the exception its chain recorded.
LEMMA TakeLemma ==
    ASSUME Shapes, error[NoChain] = NoError,
           NEW d \in Chains, NEW p \in Nat, NEW i \in 1..Len(Script[d]), i = p + 1,
           ErrorAt(d, p), Take(<<d, i>>)
    PROVE  /\ error'[NoChain] = NoError
           /\ \A c \in Pipelined : c # d => error'[c] = error[c]
           /\ ErrorAt(d, p + 1)'
           /\ ran' = IF Due(d, i) THEN Append(ran, <<d, i>>) ELSE ran
           /\ current'[1] = <<d, i>>
           /\ WantsReply(<<d, i>>) => current'[2] = Expected(d, i, {"raise"})
<1>1. PICK id \in Ids : id = <<d, i>>
  BY IdMade
<1>2. PICK does : does = Script[d][i].does /\ does = CallOf(id).does
  BY <1>1 DEF CallOf
<1>3. does \in {"return", "raise", "unparsable", "reset"}
  BY <1>2, IdMade DEF Call
<1>4. PICK R \in SUBSET Nat : R = Raised(d, i) /\ R \subseteq 1..(i - 1)
  <2>1. Raised(d, i) \subseteq 1..(i - 1)
    BY RaisedNext
  <2>2. 1..(i - 1) \subseteq Nat
    BY CallsAssumption
  <2> QED
    BY <2>1, <2>2
<1>5. PICK N : N = Raised(d, i + 1)
  OBVIOUS
<1>6. N = IF does = "reset" THEN {} ELSE IF d \in Pipelined /\ does = "raise" THEN R \cup {i} ELSE R
  BY <1>2, <1>4, <1>5, RaisedNext
<1>7. Due(d, i) <=> does # "unparsable" /\ (does = "reset" \/ R = {})
  BY <1>2, <1>4 DEF Due, Raised
<1>8. /\ does = "unparsable" => Expected(d, i, {"raise"}) = <<"error", id>>
      /\ \A j : does # "unparsable" /\ LeastOf(j, R) => Expected(d, i, {"raise"}) = <<"error", <<d, j>>>>
      /\ does = "raise" /\ R = {} => Expected(d, i, {"raise"}) = <<"error", id>>
      /\ does \in {"return", "reset"} /\ R = {} => Expected(d, i, {"raise"}) = <<"value">>
  BY <1>1, <1>2, <1>4, ExpectedIs
<1>9. d \in Pipelined => \/ R = {} /\ error[d] = NoError
                        \/ \E j \in Nat : LeastOf(j, R) /\ error[d] = <<d, j>>
  BY <1>4 DEF ErrorAt
<1>10. \A j : <<d, j>> # NoError
  BY DEF NoError
<1>11. d \notin Pipelined => R = {} /\ N = {} /\ does # "reset"
  <2>1. d \notin Pipelined => R = {} /\ N = {}
    BY <1>4, <1>5 DEF Raised, FailedBefore
  <2>2. i \in DOMAIN Script[d]
    BY CallsAssumption
  <2>3. d \notin Pipelined => does # "reset"
    BY <1>2, <2>2, CallsAssumption
  <2> QED
    BY <2>1, <2>3
<1>12. /\ d \in Pipelined /\ does # "reset" => ChainId(id) = d
       /\ ~(d \in Pipelined /\ does # "reset") => ChainId(id) = NoChain
  BY <1>1, <1>2 DEF ChainId
<1>13. d # NoChain /\ NoChain \notin Pipelined
  BY CallsAssumption, ChainIdAssumption
<1>14. DOMAIN error = Pipelined \cup {NoChain}
  BY DEF Shapes, ChainIds
<1>15. Records(id) <=> ChainId(id) # NoChain
  BY DEF Records
<1>16. Earlier(id) = error[ChainId(id)]
  BY DEF Earlier
<1>17. Take(id)
  BY <1>1
<1>18. CASE does = "unparsable"
  <2>1. current' = <<id, <<"error", id>>>> /\ UNCHANGED <<error, ran>>
    BY <1>2, <1>17, <1>18 DEF Take
  <2>2. ~Due(d, i) /\ N = R
    BY <1>6, <1>7, <1>18
  <2>3. ErrorAt(d, p + 1)'
    BY <1>5, <1>9, <2>1, <2>2 DEF ErrorAt
  <2> QED
    BY <1>1, <1>8, <1>18, <2>1, <2>2, <2>3
<1>19. CASE does # "unparsable" /\ Earlier(id) # NoError
  <2>1. current' = <<id, <<"error", Earlier(id)>>>> /\ UNCHANGED <<error, ran>>
    BY <1>2, <1>17, <1>19 DEF Take
  <2>2. d \in Pipelined /\ does # "reset" /\ Earlier(id) = error[d]
    BY <1>12, <1>16, <1>19
  <2>3. PICK j \in Nat : LeastOf(j, R) /\ error[d] = <<d, j>>
    BY <1>9, <1>19, <2>2
  <2>4. ~Due(d, i)
    BY <1>7, <2>2, <2>3 DEF LeastOf
  <2>5. LeastOf(j, N)
    <3>1. j <= i
      BY <1>4, <2>3 DEF LeastOf
    <3> QED
      BY <1>6, <2>2, <2>3, <3>1 DEF LeastOf
  <2>6. ErrorAt(d, p + 1)'
    BY <1>5, <2>1, <2>3, <2>5 DEF ErrorAt
  <2> QED
    BY <1>1, <1>8, <1>19, <2>1, <2>2, <2>3, <2>4, <2>6
<1>20. CASE does # "unparsable" /\ Earlier(id) = NoError
  <2>1. /\ ran' = Append(ran, id)
        /\ \/ does = "return" /\ current' = <<id, <<"value">>>> /\ UNCHANGED error
           \/ does = "raise" /\ Raise(id)
           \/ does = "reset" /\ Forget(id)
    BY <1>2, <1>17, <1>20 DEF Take
  <2>2. does # "reset" => R = {} /\ (d \in Pipelined => error[d] = NoError)
    <3>1. CASE d \in Pipelined /\ does # "reset"
      BY <1>9, <1>10, <1>12, <1>16, <1>20, <3>1
    <3>2. CASE d \notin Pipelined
      BY <1>11, <3>2
    <3> QED
      BY <3>1, <3>2
  <2>3. Due(d, i)
    BY <1>7, <1>20, <2>2
  <2>4. CASE does = "return"
    <3>1. current' = <<id, <<"value">>>> /\ UNCHANGED error
      BY <2>1, <2>4
    <3>2. N = R
      BY <1>6, <2>4
    <3>3. ErrorAt(d, p + 1)'
      BY <1>5, <1>9, <3>1, <3>2 DEF ErrorAt
    <3> QED
      BY <1>1, <1>8, <2>1, <2>2, <2>3, <2>4, <3>1, <3>3
  <2>5. CASE does = "raise"
    <3>1. /\ current' = <<id, <<"error", id>>>>
          /\ error' = IF d \in Pipelined THEN [error EXCEPT ![d] = id] ELSE error
      BY <1>12, <1>13, <1>15, <2>1, <2>5 DEF Raise
    <3>2. d \in Pipelined => N = {i}
      BY <1>6, <2>2, <2>5
    <3>3. d \in Pipelined => LeastOf(i, N) /\ i \in Nat /\ error'[d] = <<d, i>>
      BY <1>1, <1>14, <3>1, <3>2 DEF LeastOf
    <3>4. ErrorAt(d, p + 1)'
      BY <1>5, <3>3 DEF ErrorAt
    <3>5. error'[NoChain] = NoError /\ \A c \in Pipelined : c # d => error'[c] = error[c]
      BY <1>13, <1>14, <3>1
    <3> QED
      BY <1>1, <1>8, <2>1, <2>2, <2>3, <2>5, <3>1, <3>4, <3>5
  <2>6. CASE does = "reset"
    <3>1. current' = <<id, <<"value">>>> /\ error' = [error EXCEPT ![d] = NoError]
      BY <1>1, <2>1, <2>6 DEF Forget
    <3>2. N = {} /\ d \in Pipelined
      BY <1>6, <1>11, <2>6
    <3>3. ErrorAt(d, p + 1)'
      BY <1>5, <1>14, <3>1, <3>2 DEF ErrorAt
    <3>4. error'[NoChain] = NoError /\ \A c \in Pipelined : c # d => error'[c] = error[c]
      BY <1>13, <1>14, <3>1
    <3>5. ~WantsReply(id)
      BY <1>1, <1>2, <2>6, IdMade DEF Call, CallOf, WantsReply
    <3> QED
      BY <1>1, <2>1, <2>3, <3>1, <3>3, <3>4, <3>5
  <2> QED
    BY <1>3, <1>20, <2>4, <2>5, <2>6
<1> QED
  BY <1>18, <1>19, <1>20

\* A target that shuts down, or a stream that disconnects.
LEMMA CloseKeepsLines ==
    ASSUME Shapes, LineInv, Shutdown \/ \E s \in Sources : Disconnect(s)
    PROVE  LineInv'
<1>1. UNCHANGED <<next, error, ran>> /\ up' \subseteq up /\ (open' => open /\ UNCHANGED inbox)
  <2>1. CASE Shutdown
    BY <2>1 DEF Shutdown
  <2>2. CASE \E s \in Sources : Disconnect(s)
    BY <2>2 DEF Disconnect
  <2> QED
    BY <2>1, <2>2
<1>2. \A u \in Sources : \/ sent'[u] = sent[u]
                         \/ sent'[u] = <<>> /\ u \notin up'
  <2>1. CASE Shutdown
    BY <2>1 DEF Shutdown
  <2>2. CASE \E s \in Sources : Disconnect(s)
    BY <2>2 DEF Disconnect, Shapes
  <2> QED
    BY <2>1, <2>2
<1>3. ASSUME NEW u \in Sources, u \notin up' PROVE sent'[u] = <<>>
  <2>1. CASE Shutdown
    BY <1>3, <2>1 DEF Shutdown, LineInv, Channels
  <2>2. CASE \E s \in Sources : Disconnect(s)
    <3>1. PICK s \in Sources : Disconnect(s)
      BY <2>2
    <3>2. u = s \/ u \notin up
      BY <1>3, <3>1 DEF Disconnect
    <3> QED
      BY <3>1, <3>2 DEF Disconnect, Shapes, LineInv, Channels
  <2> QED
    BY <2>1, <2>2
<1>4. ASSUME NEW c \in Chains PROVE ChainInv(c)'
  <2>1. PICK p, m \in Nat : ErrorAt(c, p) /\ RanAt(c, p) /\ LineAt(c, p, m)
    BY DEF LineInv, ChainInv
  <2>2. ErrorAt(c, p)' /\ RanAt(c, p)'
    BY <1>1, <2>1 DEF ErrorAt, RanAt
  <2>3. PICK u \in Sources : u = SourceOf[c]
    BY CallsAssumption
  <2>4. LineAt(c, p, m)'
    BY <1>1, <1>2, <2>1, <2>3 DEF LineAt
  <2> QED
    BY <2>2, <2>4 DEF ChainInv
<1>5. Channels'
  <2>1. ~open' => inbox' = <<>>
    <3>1. CASE Shutdown
      BY <3>1 DEF Shutdown
    <3>2. CASE \E s \in Sources : Disconnect(s)
      BY <3>2 DEF Disconnect, LineInv, Channels
    <3> QED
      BY <3>1, <3>2
  <2>2. InOrder(<<>>) /\ On(<<>>) = {}
    BY OnEmpty DEF InOrder
  <2>3. open' => InOrder(inbox') /\ \A u \in Sources : InOrder(sent'[u])
    BY <1>1, <1>2, <2>2 DEF LineInv, Channels
  <2>4. \A u \in Sources : \A id \in On(sent'[u]) : SourceOf[id[1]] = u
    BY <1>2, <2>2 DEF LineInv, Channels
  <2> QED
    BY <1>3, <2>1, <2>3, <2>4 DEF Channels
<1> QED
  BY <1>1, <1>4, <1>5 DEF LineInv

\* The main thread takes the next call of the chain at the head of the queue.
LEMMA DispatchTakes ==
    ASSUME Shapes, LineInv, Dispatch
    PROVE  \E d \in Chains : \E p, m \in Nat :
             /\ open /\ p + 1 \in 1..Len(Script[d]) /\ p + 1 <= m
             /\ Head(inbox) = <<d, p + 1>>
             /\ ErrorAt(d, p) /\ RanAt(d, p) /\ LineAt(d, p, m)
             /\ Covers(Tail(inbox), d, p + 1, m) /\ SameBut(d, inbox, Tail(inbox))
<1>1. inbox # <<>> /\ inbox \in Seq(Ids) /\ open /\ InOrder(inbox)
  BY DEF Dispatch, Shapes, LineInv, Channels
<1>2. PICK id \in Ids : id = Head(inbox)
  BY <1>1, OnTail
<1>3. PICK d \in Chains : d = id[1] /\ id[2] \in 1..Len(Script[d])
  BY IdLemma
<1>4. PICK p, m \in Nat : ErrorAt(d, p) /\ RanAt(d, p) /\ LineAt(d, p, m)
  BY DEF LineInv, ChainInv
<1>5. Covers(inbox, d, p, m)
  BY <1>1, <1>4 DEF LineAt, Covers
<1>6. /\ Head(inbox) = <<d, p + 1>> /\ p + 1 <= m
      /\ Covers(Tail(inbox), d, p + 1, m) /\ SameBut(d, inbox, Tail(inbox))
  BY <1>1, <1>2, <1>3, <1>5, HeadIsNext
<1>7. p + 1 \in 1..Len(Script[d])
  BY <1>2, <1>3, <1>6
<1> QED
  BY <1>1, <1>4, <1>6, <1>7

\* The main thread takes a call.
LEMMA DispatchKeepsLines == ASSUME Shapes, LineInv, Dispatch PROVE LineInv'
<1>1. PICK d \in Chains : \E p, m \in Nat :
             /\ open /\ p + 1 \in 1..Len(Script[d]) /\ p + 1 <= m
             /\ Head(inbox) = <<d, p + 1>>
             /\ ErrorAt(d, p) /\ RanAt(d, p) /\ LineAt(d, p, m)
             /\ Covers(Tail(inbox), d, p + 1, m) /\ SameBut(d, inbox, Tail(inbox))
  BY DispatchTakes
<1>2. PICK p, m \in Nat :
             /\ open /\ p + 1 \in 1..Len(Script[d]) /\ p + 1 <= m
             /\ Head(inbox) = <<d, p + 1>>
             /\ ErrorAt(d, p) /\ RanAt(d, p) /\ LineAt(d, p, m)
             /\ Covers(Tail(inbox), d, p + 1, m) /\ SameBut(d, inbox, Tail(inbox))
  BY <1>1
<1>3. PICK i \in 1..Len(Script[d]) : i = p + 1
  BY <1>2
<1>4. /\ inbox # <<>> /\ inbox \in Seq(Ids) /\ Take(<<d, i>>) /\ inbox' = Tail(inbox)
      /\ UNCHANGED <<next, sent, open, up>>
  BY <1>2, <1>3 DEF Dispatch, Shapes
<1>5. /\ error'[NoChain] = NoError
      /\ \A c \in Pipelined : c # d => error'[c] = error[c]
      /\ ErrorAt(d, p + 1)'
      /\ ran' = IF Due(d, i) THEN Append(ran, <<d, i>>) ELSE ran
  BY <1>2, <1>3, <1>4, TakeLemma DEF LineInv
<1>6. PICK id \in Ids : id = <<d, i>> /\ id[1] = d /\ id[2] = i
  <2>1. <<d, i>> \in Ids
    BY IdMade
  <2> QED
    BY <2>1
<1>7. ran \in Seq(Ids) /\ InOrder(ran)
  BY DEF Shapes, LineInv
<1>8. On(ran') = IF Due(d, i) THEN On(ran) \cup {id} ELSE On(ran)
  <2>1. CASE Due(d, i)
    BY <1>5, <1>6, <1>7, <2>1, OnAppend
  <2>2. CASE ~Due(d, i)
    BY <1>5, <2>2
  <2> QED
    BY <2>1, <2>2
<1>9. InOrder(ran')
  <2>1. CASE Due(d, i)
    <3>1. ASSUME NEW y \in On(ran), y[1] = id[1] PROVE y[2] < id[2]
      <4>1. y \in Ids
        BY <1>7, OnType
      <4>2. y = <<d, y[2]>> /\ y[2] \in Nat
        BY <1>6, <3>1, <4>1, IdLemma
      <4>3. y[2] \in 1..p
        BY <1>2, <4>2 DEF RanAt
      <4> QED
        BY <1>3, <1>6, <4>3
    <3>2. InOrder(Append(ran, id))
      BY <1>7, <3>1, OrderAppend
    <3> QED
      BY <1>5, <1>6, <2>1, <3>2
  <2>2. CASE ~Due(d, i)
    BY <1>5, <1>7, <2>2
  <2> QED
    BY <2>1, <2>2
<1>10. ChainInv(d)'
  <2>1. RanAt(d, p + 1)'
    <3> SUFFICES ASSUME NEW k \in Nat PROVE <<d, k>> \in On(ran') <=> k \in 1..(p + 1) /\ Due(d, k)
      BY DEF RanAt
    <3>1. <<d, k>> \in On(ran) <=> k \in 1..p /\ Due(d, k)
      BY <1>2 DEF RanAt
    <3>2. k \in 1..(p + 1) <=> k \in 1..p \/ k = i
      BY <1>3
    <3>3. <<d, k>> = id <=> k = i
      BY <1>6
    <3>4. CASE Due(d, i)
      BY <1>8, <3>1, <3>2, <3>3, <3>4
    <3>5. CASE ~Due(d, i)
      BY <1>8, <3>1, <3>2, <3>3, <3>5
    <3> QED
      BY <3>4, <3>5
  <2>2. LineAt(d, p + 1, m)'
    BY <1>2, <1>4 DEF LineAt, Covers
  <2> QED
    BY <1>5, <2>1, <2>2 DEF ChainInv
<1>11. ASSUME NEW c \in Chains, c # d PROVE ChainInv(c)'
  <2>1. PICK a, b \in Nat : ErrorAt(c, a) /\ RanAt(c, a) /\ LineAt(c, a, b)
    BY DEF LineInv, ChainInv
  <2>2. ErrorAt(c, a)'
    BY <1>5, <1>11, <2>1 DEF ErrorAt
  <2>3. \A k : <<c, k>> \in On(ran') <=> <<c, k>> \in On(ran)
    <3>1. \A k : <<c, k>> # id
      BY <1>6, <1>11
    <3> QED
      BY <1>8, <3>1
  <2>4. RanAt(c, a)'
    BY <2>1, <2>3 DEF RanAt
  <2>5. \A k : <<c, k>> \in On(inbox') <=> <<c, k>> \in On(inbox)
    BY <1>2, <1>4, <1>11 DEF SameBut
  <2>6. LineAt(c, a, b)'
    BY <1>4, <2>1, <2>5 DEF LineAt
  <2> QED
    BY <2>2, <2>4, <2>6 DEF ChainInv
<1>12. Channels'
  <2>1. InOrder(inbox')
    BY <1>2, <1>4, OrderTail DEF LineInv, Channels
  <2> QED
    BY <1>2, <1>4, <2>1 DEF LineInv, Channels
<1> QED
  BY <1>5, <1>9, <1>10, <1>11, <1>12 DEF LineInv

\* Every step keeps the chains' lines.
LEMMA LinesStep == ASSUME Shapes, LineInv, [Next]_vars PROVE LineInv'
<1>1. ASSUME UNCHANGED <<next, sent, inbox, open, error, up, ran>> PROVE LineInv'
  <2>1. ASSUME NEW c \in Chains PROVE ChainInv(c)'
    <3>1. PICK p, m \in Nat : ErrorAt(c, p) /\ RanAt(c, p) /\ LineAt(c, p, m)
      BY DEF LineInv, ChainInv
    <3>2. ErrorAt(c, p)' /\ RanAt(c, p)' /\ LineAt(c, p, m)'
      BY <1>1, <3>1 DEF ErrorAt, RanAt, LineAt
    <3> QED
      BY <3>2 DEF ChainInv
  <2>2. Channels'
    BY <1>1 DEF LineInv, Channels
  <2> QED
    BY <1>1, <2>1, <2>2 DEF LineInv
<1>2. CASE \E c \in Chains : MakeCall(c)
  BY <1>2, MakeCallKeepsLines
<1>3. CASE \E s \in Sources : ReceiveReply(s)
  BY <1>1, <1>3 DEF ReceiveReply
<1>4. CASE \E s \in Sources : Arrive(s)
  BY <1>4, ArriveKeepsLines
<1>5. CASE Shutdown \/ \E s \in Sources : Disconnect(s)
  BY <1>5, CloseKeepsLines
<1>6. CASE Dispatch
  BY <1>6, DispatchKeepsLines
<1>7. CASE Finish
  BY <1>1, <1>7 DEF Finish
<1>8. CASE UNCHANGED vars
  BY <1>1, <1>8 DEF vars
<1> QED
  BY <1>2, <1>3, <1>4, <1>5, <1>6, <1>7, <1>8 DEF Next

----------------------------------------------------------------------------
(* The answers.                                                            *)

Right(id, a) == WantsReply(id) => a \in {<<"dead">>, Expected(id[1], id[2], {"raise"})}

\* The answer made, on its way or received is a dead message or that of the chain alone.
AnswersRight ==
    /\ current # <<>> => Right(current[1], current[2])
    /\ \A s \in Sources : \A x \in On(replies[s]) : Right(x[1], x[2])
    /\ \A id \in Ids : answer[id] # NoAnswer => Right(id, answer[id])

\* Every step keeps the answers right.
LEMMA AnswersStep ==
    ASSUME Shapes, Silent, LineInv, AnswersRight, [Next]_vars
    PROVE  AnswersRight'
<1>1. ASSUME NEW c \in Chains, MakeCall(c) PROVE AnswersRight'
  <2>1. UNCHANGED <<current, replies>>
    BY <1>1 DEF MakeCall
  <2>2. \A id \in Ids : answer'[id] \in {answer[id], <<"dead">>}
    BY <1>1 DEF MakeCall, Shapes
  <2> QED
    BY <2>1, <2>2 DEF AnswersRight, Right
<1>2. ASSUME NEW s \in Sources, ReceiveReply(s) PROVE AnswersRight'
  <2>1. /\ replies[s] # <<>> /\ replies' = [replies EXCEPT ![s] = Tail(replies[s])]
        /\ answer' = [answer EXCEPT ![Head(replies[s])[1]] = Head(replies[s])[2]]
        /\ UNCHANGED current
    BY <1>2 DEF ReceiveReply
  <2>2. replies[s] \in Seq(Reply)
    BY DEF Shapes
  <2>3. PICK r \in Reply : r = Head(replies[s]) /\ r \in On(replies[s])
    BY <2>1, <2>2, OnTail
  <2>4. On(Tail(replies[s])) \subseteq On(replies[s])
    BY <2>1, <2>2, OnTail
  <2>5. \A u \in Sources : On(replies'[u]) \subseteq On(replies[u])
    BY <2>1, <2>4 DEF Shapes
  <2>6. Right(r[1], r[2])
    BY <2>3 DEF AnswersRight
  <2>7. \A id \in Ids : answer'[id] # NoAnswer => Right(id, answer'[id])
    <3> SUFFICES ASSUME NEW id \in Ids, answer'[id] # NoAnswer PROVE Right(id, answer'[id])
      OBVIOUS
    <3>1. CASE id = r[1]
      BY <2>1, <2>3, <2>6, <3>1 DEF Shapes
    <3>2. CASE id # r[1]
      BY <2>1, <2>3, <3>2 DEF Shapes, AnswersRight
    <3> QED
      BY <3>1, <3>2
  <2> QED
    BY <2>1, <2>5, <2>7 DEF AnswersRight, Right
<1>3. ASSUME NEW s \in Sources, Arrive(s) PROVE AnswersRight'
  <2>1. sent[s] # <<>> /\ UNCHANGED <<current, answer>>
    BY <1>3 DEF Arrive
  <2>2. PICK id \in Ids : id = Head(sent[s])
    BY <2>1, OnTail DEF Shapes
  <2>3. CASE open
    BY <1>3, <2>1, <2>3 DEF Arrive, AnswersRight, Right
  <2>4. CASE ~open
    <3>1. Respond(id, <<"dead">>)
      BY <1>3, <2>2, <2>4 DEF Arrive
    <3>2. <<"dead">> \in Answers
      BY DEF Answers
    <3>3. \A u \in Sources : \A x \in On(replies'[u]) :
             x \in On(replies[u]) \/ (x = <<id, <<"dead">>>> /\ WantsReply(id))
      BY <3>1, <3>2, RespondTypes
    <3>4. Right(id, <<"dead">>)
      BY DEF Right
    <3>5. \A u \in Sources : \A x \in On(replies'[u]) : Right(x[1], x[2])
      BY <3>3, <3>4 DEF AnswersRight
    <3> QED
      BY <2>1, <3>5 DEF AnswersRight, Right
  <2> QED
    BY <2>3, <2>4
<1>4. ASSUME NEW s \in Sources, Disconnect(s) PROVE AnswersRight'
  <2>1. UNCHANGED current /\ \A u \in Sources : On(replies'[u]) \subseteq On(replies[u])
    BY <1>4, OnEmpty DEF Disconnect, Shapes
  <2>2. \A id \in Ids : answer'[id] \in {answer[id], <<"dead">>}
    BY <1>4 DEF Disconnect
  <2> QED
    BY <2>1, <2>2 DEF AnswersRight, Right
<1>5. CASE Shutdown
  BY <1>5 DEF Shutdown, AnswersRight, Right
<1>6. CASE Dispatch
  <2>1. PICK d \in Chains, p \in Nat : /\ p + 1 \in 1..Len(Script[d]) /\ Head(inbox) = <<d, p + 1>>
                                       /\ ErrorAt(d, p)
    BY <1>6, DispatchTakes
  <2>2. PICK i \in 1..Len(Script[d]) : i = p + 1
    BY <2>1
  <2>3. Take(<<d, i>>) /\ UNCHANGED <<replies, answer>>
    BY <1>6, <2>1, <2>2 DEF Dispatch
  <2>4. current'[1] = <<d, i>> /\ (WantsReply(<<d, i>>) => current'[2] = Expected(d, i, {"raise"}))
    BY <2>1, <2>2, <2>3, TakeLemma DEF LineInv
  <2>5. Right(<<d, i>>, current'[2])
    <3>1. <<d, i>>[1] = d /\ <<d, i>>[2] = i
      OBVIOUS
    <3> QED
      BY <2>4, <3>1 DEF Right
  <2> QED
    BY <2>3, <2>4, <2>5 DEF AnswersRight, Right
<1>7. CASE Finish
  <2>1. current # <<>> /\ Respond(current[1], current[2]) /\ current' = <<>> /\ UNCHANGED answer
    BY <1>7 DEF Finish
  <2>2. PICK id \in Ids, a \in Answers : id = current[1] /\ a = current[2]
    BY <2>1, ReplyLemma DEF Shapes
  <2>3. \A s \in Sources : \A x \in On(replies'[s]) :
           x \in On(replies[s]) \/ (x = <<id, a>> /\ WantsReply(id))
    BY <2>1, <2>2, RespondTypes
  <2>4. Right(id, a)
    BY <2>1, <2>2 DEF AnswersRight
  <2>5. \A s \in Sources : \A x \in On(replies'[s]) : Right(x[1], x[2])
    BY <2>3, <2>4 DEF AnswersRight
  <2> QED
    BY <2>1, <2>5 DEF AnswersRight, Right
<1>8. CASE UNCHANGED vars
  BY <1>8 DEF vars, AnswersRight, Right
<1> QED
  BY <1>1, <1>2, <1>3, <1>4, <1>5, <1>6, <1>7, <1>8 DEF Next

----------------------------------------------------------------------------
(* What follows.                                                           *)

\* The answers of every chain are those it would get alone.
LEMMA AnsweredLemma == ASSUME Silent, AnswersRight PROVE AnsweredAsIfAlone
<1> SUFFICES ASSUME NEW id \in Ids, answer[id] # NoAnswer
             PROVE  answer[id] \in {<<"dead">>, Expected(id[1], id[2], {"raise"})}
  BY DEF AnsweredAsIfAlone
<1>1. WantsReply(id)
  BY DEF Silent, WantsReply
<1> QED
  BY <1>1 DEF AnswersRight, Right

\* The calls that ran are, of every chain, those it would run alone.
LEMMA RanLemma == ASSUME Shapes, LineInv PROVE RanAsIfAlone
<1>1. InOrder(ran) /\ ran \in Seq(Ids) /\ DOMAIN ran = 1..Len(ran)
  BY DEF LineInv, Shapes
<1>2. ASSUME NEW n \in DOMAIN ran, NEW c, NEW i, c = ran[n][1], i = ran[n][2]
      PROVE  Due(c, i) /\ \A j \in 1..(i - 1) : Due(c, j) => \E m \in DOMAIN ran : ran[m] = <<c, j>>
  <2>1. ran[n] \in Ids /\ ran[n] \in On(ran)
    BY <1>1 DEF On
  <2>2. ran[n] = <<c, i>> /\ c \in Chains /\ i \in Nat
    BY <1>2, <2>1, IdLemma
  <2>3. PICK p \in Nat : RanAt(c, p)
    BY <2>2 DEF LineInv, ChainInv
  <2>4. i \in 1..p /\ Due(c, i)
    BY <2>1, <2>2, <2>3 DEF RanAt
  <2>5. ASSUME NEW j \in 1..(i - 1), Due(c, j) PROVE \E m \in DOMAIN ran : ran[m] = <<c, j>>
    <3>1. j \in Nat /\ j \in 1..p
      BY <2>2, <2>4
    <3>2. <<c, j>> \in On(ran)
      BY <2>3, <2>5, <3>1 DEF RanAt
    <3> QED
      BY <1>1, <3>2 DEF On
  <2> QED
    BY <2>4, <2>5
<1> QED
  BY <1>1, <1>2 DEF RanAsIfAlone

\* A chain that ended with reset(), all of it executed, leaves no exception.
LEMMA ForgottenLemma == ASSUME Shapes, LineInv PROVE NothingRemembered
<1> SUFFICES ASSUME open, inbox = <<>>, \A s \in Sources : s \in up /\ sent[s] = <<>>,
                    NEW c \in Pipelined, EndsWithReset(c), next[c] > Len(Script[c])
             PROVE  error[c] = NoError
  BY DEF NothingRemembered
<1>1. c \in Chains /\ Script[c] \in Seq(Call) /\ Len(Script[c]) \in Nat
  BY CallsAssumption
<1>2. PICK L \in Nat : L = Len(Script[c]) /\ L \in 1..Len(Script[c]) /\ Script[c][L].does = "reset"
  <2>1. Len(Script[c]) \in 1..Len(Script[c])
    BY <1>1 DEF EndsWithReset
  <2> QED
    BY <1>1, <2>1 DEF EndsWithReset
<1>3. next[c] = L + 1
  BY <1>1, <1>2 DEF Shapes
<1>4. PICK p, m \in Nat : ErrorAt(c, p) /\ LineAt(c, p, m)
  BY <1>1 DEF LineInv, ChainInv
<1>5. PICK s \in Sources : s = SourceOf[c]
  BY <1>1, CallsAssumption
<1>6. /\ p <= m /\ m < L + 1
      /\ \A k \in Nat : <<c, k>> \in On(inbox) <=> p < k /\ k <= m
      /\ \A k \in Nat : <<c, k>> \in On(sent[s]) <=> m < k /\ k < L + 1
  BY <1>3, <1>4, <1>5 DEF LineAt
<1>7. \A k \in Nat : ~(p < k /\ k <= m) /\ ~(m < k /\ k < L + 1)
  BY <1>6, OnEmpty
<1>8. p = L
  BY <1>6, <1>7
<1>9. Raised(c, p + 1) = {}
  BY <1>1, <1>2, <1>8, RaisedNext
<1> QED
  BY <1>4, <1>9 DEF ErrorAt, LeastOf

\* Chains "may overlap concurrently at a target context without interference": with
\* one thread and one table of exceptions for all of them, every chain is answered,
\* runs its calls and is reset as if it were the only one.
THEOREM ChainsNeverInterfere == Spec => []ChainsAreIndependent
<1>1. Init => Shapes /\ Silent /\ LineInv /\ AnswersRight
  <2> SUFFICES ASSUME Init PROVE Shapes /\ Silent /\ LineInv /\ AnswersRight
    OBVIOUS
  <2>1. Shapes /\ Silent
    <3>1. \A S : <<>> \in Seq(S)
      OBVIOUS
    <3>2. \A c \in Chains : 1 \in 1..(Len(Script[c]) + 1)
      BY CallsAssumption
    <3> QED
      BY <3>1, <3>2, OnEmpty DEF Init, Shapes, Silent
  <2>2. AnswersRight
    BY OnEmpty DEF Init, AnswersRight
  <2>3. InOrder(<<>>) /\ On(<<>>) = {}
    BY OnEmpty DEF InOrder
  <2>4. Channels
    BY <2>3 DEF Init, Channels
  <2>5. ASSUME NEW c \in Chains PROVE ChainInv(c)
    <3>1. PICK p \in Nat : p = 0
      OBVIOUS
    <3>2. c \in Pipelined => error[c] = NoError
      BY DEF Init, ChainIds
    <3>3. Raised(c, p + 1) = {}
      BY <3>1, RaisedFirst
    <3>4. ErrorAt(c, p)
      BY <3>2, <3>3 DEF ErrorAt
    <3>5. next[c] = 1 /\ ran = <<>> /\ inbox = <<>> /\ sent[SourceOf[c]] = <<>>
      BY CallsAssumption DEF Init
    <3>6. RanAt(c, p)
      BY <2>3, <3>1, <3>5 DEF RanAt
    <3>7. LineAt(c, p, p)
      BY <2>3, <3>1, <3>5 DEF LineAt
    <3> QED
      BY <3>4, <3>6, <3>7 DEF ChainInv
  <2>6. error[NoChain] = NoError /\ ran = <<>>
    BY DEF Init, ChainIds
  <2> QED
    BY <2>1, <2>2, <2>3, <2>4, <2>5, <2>6 DEF LineInv
<1>2. Shapes /\ Silent /\ LineInv /\ AnswersRight /\ [Next]_vars
        => Shapes' /\ Silent' /\ LineInv' /\ AnswersRight'
  BY TypesStep, LinesStep, AnswersStep
<1>3. Shapes /\ Silent /\ LineInv /\ AnswersRight => ChainsAreIndependent
  BY AnsweredLemma, RanLemma, ForgottenLemma DEF ChainsAreIndependent
<1> QED
  BY <1>1, <1>2, <1>3, PTL DEF Spec

(***************************************************************************)
(* Connecting.                                                             *)
(*                                                                         *)
(* A record of an attempt is touched by the broker thread's handlers, one  *)
(* at a time, and by its child's exit.  Every handler is made of the same  *)
(* few steps: a cause set, a stream disconnected, an answer given, a poll; *)
(* each has a lemma, and the invariant says of a record what all of them   *)
(* keep.  What was read from the child and not yet handled is the rest of  *)
(* it: a line may not be handled on behalf of what the child no longer is. *)
(***************************************************************************)

----------------------------------------------------------------------------
(* The inductive invariant.                                                *)

Noone(r) == \A s \in Sides : ~Open(r, s)

\* What is always true of the record of an attempt: how far it is, its timer, its
\* streams and its Reaper fit.
Core(r) ==
    /\ r \in ConnectionRecords
    /\ r.stage # "started" => r = [New EXCEPT !.stage = r.stage]
    /\ r.done => ~r.timer /\ r.put
    /\ r.detached => r.done
    /\ r.tick => r.reaper /\ r.tries \in 1..MaxTries
    /\ ~r.reaper => r.tries = 0
    /\ r.proc # "none" => r.side["stdio"] # "none"
    /\ r.proc # "none" /\ Noone(r) => r.reaper
    /\ r.reaper /\ ~r.detached => r.tick \/ GaveUp(r) \/ r.proc = "reaped"

\* What is so between two handlers: an answer comes with its cause or a
\* connection, and a failure with its streams closed.
Settled(r) ==
    /\ r.put => r.done \/ r.cause # None
    /\ r.cause # None /\ ~r.done => Noone(r)
    /\ r.cause # None /\ r.done => ~Open(r, "diag")

\* The lines of a side are those its child wrote there, and what a child writes on
\* stdio ends with MITO002.
Talk(c) ==
    /\ \A s \in Sides : \A line \in On(pipe[c][s]) : line \in said[c] /\ SideOf(c, line) = s
    /\ conn[c].fed => "ec0" \in said[c]
    /\ "ec2" \in said[c] => "ec0" \in said[c]
    /\ conn[c].done => "ec2" \in said[c] /\ pipe[c]["stdio"] = <<>>

\* What the broker thread is handling comes from an attempt under way, or from the
\* diagnostics of an established connection.
Handling(h) ==
    /\ phase \in {"loop", "grace"}
    /\ h.lines # <<>>
    /\ conn[h.conn].stage = "started"
    /\ \A line \in On(h.lines) : line \in said[h.conn] /\ SideOf(h.conn, line) = h.side
    /\ h.side = "stdio" =>
          /\ ~conn[h.conn].done
          /\ "ec2" \in On(h.lines) => pipe[h.conn]["stdio"] = <<>>
    /\ h.side = "diag" => ~(conn[h.conn].done /\ conn[h.conn].cause # None)

Listeners == {"conn", "reaper"} \X Conns

Once(ls) == \A i, j \in 1..Len(ls) : ls[i] = ls[j] => i = j

\* A listener is there once, of an attempt that has begun; a Reaper's, once polled.
Listening(ls, cs) ==
    /\ ls \in Seq(Listeners)
    /\ Once(ls)
    /\ \A i \in 1..Len(ls) : /\ cs[ls[i][2]].stage = "started"
                             /\ ls[i][1] = "reaper" => cs[ls[i][2]].tries >= 1

ConnectingInv ==
    /\ ConnectingTypeOK
    /\ \A c \in Conns : Core(conn[c]) /\ Settled(conn[c]) /\ Talk(c)
    /\ \A c \in Conns : user[c] = "idle" => conn[c].stage = "none"
    /\ hand # Idle => Handling(hand)
    /\ Listening(listeners, conn)

----------------------------------------------------------------------------
(* Reaper.                                                                 *)

\* What no Reaper changes.
Alike(r, n) ==
    /\ n.stage = r.stage /\ n.timer = r.timer /\ n.cause = r.cause /\ n.done = r.done
    /\ n.put = r.put /\ n.side = r.side /\ n.sent = r.sent /\ n.fed = r.fed
    /\ n.detached = r.detached /\ n.reaper = r.reaper

\* After a poll, the process is reaped, given up, or polled again.
Attended(r) == r.tick \/ GaveUp(r) \/ r.proc = "reaped"

Polled(r, n) ==
    /\ n \in ConnectionRecords
    /\ Alike(r, n)
    /\ n.tick => n.tries \in 1..MaxTries
    /\ n.tries >= r.tries
    /\ n.proc # "none" => r.proc # "none"
    /\ Attended(n)

\* A signal is one of three.
LEMMA SignalIs ==
    ASSUME NEW r \in ConnectionRecords, NEW b
    PROVE  Signal(r, b) \in {"none", "term", "kill"}
BY DEF Signal, ConnectionRecords

\* A poll of a process that was not given up.
LEMMA ReapIs ==
    ASSUME NEW r \in ConnectionRecords, r.tries <= MaxTries, NEW b
    PROVE  Polled(r, Reap(r, b))
<1>1. MaxTries \in Nat /\ r.tries \in Nat
  BY ConnectingAssumption DEF ConnectionRecords
<1>2. PICK again : again = [r EXCEPT !.tries = @ + 1]
  OBVIOUS
<1>3. again \in ConnectionRecords /\ again.tries = r.tries + 1 /\ Alike(r, again) /\ again.proc = r.proc
  BY <1>1, <1>2 DEF ConnectionRecords, Alike
<1>4. PICK n : n = Reap(r, b)
  OBVIOUS
<1>5. CASE r.proc = "exited"
  <2>1. n = [r EXCEPT !.proc = "reaped", !.tick = FALSE]
    BY <1>4, <1>5 DEF Reap
  <2>8. n \in ConnectionRecords
    BY <1>1, <2>1 DEF ConnectionRecords
  <2>9. Alike(r, n)
    BY <1>1, <2>1 DEF Alike, ConnectionRecords
  <2> QED
    BY <1>1, <1>4, <2>1, <2>8, <2>9, <1>5 DEF Polled, Attended, ConnectionRecords
<1>6. CASE r.proc # "exited" /\ again.tries > MaxTries
  <2>1. n = [again EXCEPT !.tick = FALSE]
    BY <1>2, <1>4, <1>6 DEF Reap
  <2>8. n \in ConnectionRecords
    BY <1>1, <1>3, <2>1 DEF ConnectionRecords
  <2>9. Alike(r, n)
    BY <1>1, <1>3, <2>1 DEF Alike, ConnectionRecords
  <2>10. n.tries = r.tries + 1 /\ n.proc = r.proc /\ n.tick = FALSE /\ GaveUp(n)
    BY <1>3, <2>1, <1>6 DEF ConnectionRecords, GaveUp
  <2> QED
    BY <1>1, <1>4, <2>8, <2>9, <2>10 DEF Polled, Attended
<1>7. CASE r.proc # "exited" /\ ~(again.tries > MaxTries)
  <2>1. PICK g : g = Signal(again, b)
    OBVIOUS
  <2>2. g \in {"none", "term", "kill"}
    BY <2>1, <1>3, SignalIs
  <2>3. n = [again EXCEPT !.tick = TRUE, !.signal = g]
    BY <1>2, <1>4, <1>7, <2>1 DEF Reap
  <2>8. n \in ConnectionRecords
    BY <1>1, <1>3, <2>2, <2>3 DEF ConnectionRecords
  <2>9. Alike(r, n)
    BY <1>1, <1>3, <2>2, <2>3 DEF Alike, ConnectionRecords
  <2> QED
    BY <1>1, <1>4, <1>3, <2>2, <2>3, <2>8, <2>9, <1>7 DEF Polled, Attended, ConnectionRecords
<1> QED
  BY <1>5, <1>6, <1>7

----------------------------------------------------------------------------
(* Streams.                                                                *)

\* What a handler may change of the outcome: a first cause, a first answer.
Outcome(r, n) ==
    /\ n.stage = r.stage /\ n.done = r.done /\ n.fed = r.fed /\ n.detached = r.detached
    /\ r.cause # None => n.cause = r.cause
    /\ n.put => r.put \/ n.cause # None
    /\ r.put => n.put
    /\ n.timer => r.timer
    /\ r.tries >= 1 => n.tries >= 1
    /\ n.proc # "none" => r.proc # "none"

\* A change of outcome after another.
LEMMA OutcomeChain ==
    ASSUME NEW q, NEW r, NEW n, Outcome(q, r), Outcome(r, n), r.cause # None => n.cause # None
    PROVE  Outcome(q, n)
BY DEF Outcome

\* The first cause is kept.
LEMMA CauseIs ==
    ASSUME NEW r \in ConnectionRecords, NEW e \in Causes
    PROVE  LET n == Cause(r, e)
           IN  /\ n \in ConnectionRecords /\ Outcome(r, n) /\ n.cause # None /\ n.side = r.side
               /\ n.reaper = r.reaper /\ n.tick = r.tick /\ n.tries = r.tries /\ n.proc = r.proc
               /\ n.timer = r.timer /\ n.put = r.put
<1>1. e # None
  BY DEF Causes, None
<1>2. PICK n : n = [r EXCEPT !.cause = e]
  OBVIOUS
<1>3. n \in ConnectionRecords
  BY <1>2 DEF ConnectionRecords
<1>4. /\ n.cause = e /\ n.side = r.side /\ n.reaper = r.reaper /\ n.tick = r.tick /\ n.tries = r.tries
      /\ n.proc = r.proc /\ n.timer = r.timer /\ n.put = r.put /\ n.stage = r.stage /\ n.done = r.done
      /\ n.fed = r.fed /\ n.detached = r.detached
  BY <1>2 DEF ConnectionRecords
<1>5. CASE r.cause = None
  <2>1. Cause(r, e) = n
    BY <1>2, <1>5 DEF Cause
  <2> QED
    BY <1>1, <1>3, <1>4, <1>5, <2>1 DEF Outcome
<1>6. CASE r.cause # None
  <2>1. Cause(r, e) = r
    BY <1>6 DEF Cause
  <2> QED
    BY <1>6, <2>1 DEF Outcome
<1> QED
  BY <1>5, <1>6

\* Both streams are gone: an attempt under way has failed, and a Reaper is at work.
Ended(r, n) ==
    /\ n \in ConnectionRecords
    /\ Outcome(r, n)
    /\ n.side = r.side
    /\ n.reaper
    /\ n.tick => n.tries \in 1..MaxTries
    /\ ~n.detached => Attended(n)

\* _on_streams_disconnected()
LEMMA BothGoneIs ==
    ASSUME NEW r, Core(r), NEW c
    PROVE  Ended(r, BothGone(r, c))
<1>1. r \in ConnectionRecords
  BY DEF Core
<1>2. PICK q : q = Cause(r, "eof")
  OBVIOUS
<1>3. /\ q \in ConnectionRecords /\ Outcome(r, q) /\ q.cause # None /\ q.side = r.side
      /\ q.reaper = r.reaper /\ q.tick = r.tick /\ q.tries = r.tries /\ q.proc = r.proc
  <2>1. "eof" \in Causes
    BY DEF Causes
  <2> QED
    BY <1>1, <1>2, <2>1, CauseIs
<1>4. PICK f : f = IF r.timer THEN [q EXCEPT !.timer = FALSE, !.put = TRUE] ELSE r
  OBVIOUS
<1>5. /\ f \in ConnectionRecords /\ Outcome(r, f) /\ f.side = r.side
      /\ f.reaper = r.reaper /\ f.tick = r.tick /\ f.tries = r.tries /\ f.proc = r.proc
  <2>1. CASE r.timer
    <3>1. f = [q EXCEPT !.timer = FALSE, !.put = TRUE]
      BY <1>4, <2>1
    <3>2. f \in ConnectionRecords
      BY <1>3, <3>1 DEF ConnectionRecords
    <3>3. /\ f.cause = q.cause /\ f.side = q.side /\ f.reaper = q.reaper /\ f.tick = q.tick /\ f.tries = q.tries
          /\ f.proc = q.proc /\ f.timer = FALSE /\ f.put = TRUE /\ f.stage = q.stage /\ f.done = q.done
          /\ f.fed = q.fed /\ f.detached = q.detached
      BY <1>3, <3>1 DEF ConnectionRecords
    <3> QED
      BY <1>3, <3>2, <3>3 DEF Outcome
  <2>2. CASE ~r.timer
    BY <1>1, <1>4, <2>2 DEF Outcome
  <2> QED
    BY <2>1, <2>2
<1>6. PICK n : n = BothGone(r, c)
  OBVIOUS
<1>7. n = IF f.reaper THEN f ELSE Reap([f EXCEPT !.reaper = TRUE], Immediate(c))
  BY <1>2, <1>4, <1>6 DEF BothGone
<1>8. CASE f.reaper
  <2>1. n = f
    BY <1>7, <1>8
  <2>2. f.tick => f.tries \in 1..MaxTries
    BY <1>5 DEF Core
  <2>3. ~f.detached => Attended(f)
    BY <1>5, <1>8 DEF Core, Attended, Outcome, GaveUp
  <2> QED
    BY <1>5, <1>6, <1>8, <2>1, <2>2, <2>3 DEF Ended
<1>9. CASE ~f.reaper
  <2>1. PICK g : g = [f EXCEPT !.reaper = TRUE]
    OBVIOUS
  <2>2. g \in ConnectionRecords
    BY <1>5, <2>1 DEF ConnectionRecords
  <2>3. /\ g.cause = f.cause /\ g.side = f.side /\ g.reaper = TRUE /\ g.tick = f.tick /\ g.tries = f.tries
        /\ g.proc = f.proc /\ g.timer = f.timer /\ g.put = f.put /\ g.stage = f.stage /\ g.done = f.done
        /\ g.fed = f.fed /\ g.detached = f.detached
    BY <1>5, <2>1 DEF ConnectionRecords
  <2>4. g.tries = 0 /\ g.tries <= MaxTries
    BY <1>5, <1>9, <2>3, ConnectingAssumption DEF Core
  <2>5. PICK b : b = Immediate(c)
    OBVIOUS
  <2>6. n = Reap(g, b)
    BY <1>7, <1>9, <2>1, <2>5
  <2>7. Polled(g, n)
    BY <2>2, <2>4, <2>6, ReapIs
  <2>8. r.tries = 0
    BY <1>5, <1>9 DEF Core
  <2>9. Outcome(r, n)
    BY <1>5, <2>3, <2>7, <2>8 DEF Polled, Alike, Outcome
  <2> QED
    BY <1>5, <1>6, <2>3, <2>7, <2>9 DEF Polled, Alike, Ended
<1> QED
  BY <1>8, <1>9

\* A stream that is disconnected closes, nothing opens, and a cause that comes up so
\* leaves no stream open.
Shrinks(r, n) ==
    /\ Core(n)
    /\ Outcome(r, n)
    /\ \A s \in Sides : Open(n, s) => Open(r, s)
    /\ n.cause # r.cause => Noone(n)
    /\ r.cause # None => n.cause # None

\* Stream.on_disconnect()
LEMMA GoneIs ==
    ASSUME NEW r, Core(r), r.stage = "started", NEW c, NEW s \in Sides
    PROVE  LET n == Gone(r, c, s)
           IN  /\ Shrinks(r, n) /\ ~Open(n, s)
               /\ \A t \in Sides : t # s => n.side[t] = r.side[t]
<1>1. r \in ConnectionRecords
  BY DEF Core
<1>2. PICK f : f = IF OtherGone(r, s) THEN BothGone(r, c) ELSE r
  OBVIOUS
<1>3. OtherGone(r, s) => Ended(r, f)
  BY <1>2, BothGoneIs
<1>4. ~OtherGone(r, s) => f = r
  BY <1>2
<1>5. f \in ConnectionRecords /\ Outcome(r, f) /\ f.side = r.side
  <2>1. CASE OtherGone(r, s)
    BY <1>3, <2>1 DEF Ended
  <2>2. CASE ~OtherGone(r, s)
    BY <1>1, <1>4, <2>2 DEF Outcome
  <2> QED
    BY <2>1, <2>2
<1>6. PICK n : n = Gone(r, c, s)
  OBVIOUS
<1>7. n = [f EXCEPT !.side[s] = "closed"]
  BY <1>2, <1>6 DEF Gone
<1>8. PICK d : d = [f.side EXCEPT ![s] = "closed"]
  OBVIOUS
<1>9. f.side \in [Sides -> {"none", "open", "closed"}]
  BY <1>5 DEF ConnectionRecords
<1>10. d \in [Sides -> {"none", "open", "closed"}] /\ d[s] = "closed" /\ \A t \in Sides : t # s => d[t] = r.side[t]
  BY <1>5, <1>8, <1>9
<1>11. n = [f EXCEPT !.side = d]
  BY <1>7, <1>8
<1>12. n \in ConnectionRecords
  BY <1>5, <1>10, <1>11 DEF ConnectionRecords
<1>13. /\ n.cause = f.cause /\ n.side = d /\ n.reaper = f.reaper /\ n.tick = f.tick /\ n.tries = f.tries
       /\ n.proc = f.proc /\ n.timer = f.timer /\ n.put = f.put /\ n.stage = f.stage /\ n.done = f.done
       /\ n.fed = f.fed /\ n.detached = f.detached
  BY <1>5, <1>11 DEF ConnectionRecords
<1>14. Outcome(r, n)
  BY <1>5, <1>13 DEF Outcome
<1>15. ~Open(n, s) /\ \A t \in Sides : t # s => n.side[t] = r.side[t]
  BY <1>10, <1>13 DEF Open
<1>16. \A t \in Sides : Open(n, t) => Open(r, t)
  BY <1>15 DEF Open
<1>17. OtherGone(r, s) => Noone(n)
  BY <1>15 DEF OtherGone, Open, Noone, Sides
<1>18. n.cause # r.cause => Noone(n)
  BY <1>4, <1>13, <1>17
<1>19. r.cause # None => n.cause # None
  BY <1>14 DEF Outcome
<1>20. Core(n)
  <2>1. n.stage = "started"
    BY <1>14 DEF Outcome
  <2>2. n.done => ~n.timer /\ n.put
    BY <1>14 DEF Core, Outcome
  <2>3. n.detached => n.done
    BY <1>14 DEF Core, Outcome
  <2>4. n.tick => n.reaper /\ n.tries \in 1..MaxTries
    BY <1>3, <1>4, <1>13 DEF Core, Ended
  <2>5. ~n.reaper => n.tries = 0
    BY <1>3, <1>4, <1>13 DEF Core, Ended
  <2>6. n.proc # "none" => n.side["stdio"] # "none"
    <3>1. n.proc # "none" => r.side["stdio"] # "none"
      BY <1>14 DEF Core, Outcome
    <3> QED
      BY <1>10, <1>13, <3>1 DEF Sides
  <2>7. n.proc # "none" /\ Noone(n) => n.reaper
    <3>1. CASE OtherGone(r, s)
      BY <1>3, <1>13, <3>1 DEF Ended
    <3>2. CASE ~OtherGone(r, s) /\ s = "stdio"
      BY <1>15, <3>2 DEF OtherGone, Open, Noone, Sides
    <3>3. CASE ~OtherGone(r, s) /\ s = "diag"
      <4>1. n.proc # "none" => n.side["stdio"] = "open"
        BY <1>9, <1>5, <1>15, <2>6, <3>3 DEF OtherGone, Sides
      <4> QED
        BY <4>1 DEF Noone, Open, Sides
    <3> QED
      BY <3>1, <3>2, <3>3 DEF Sides
  <2>8. n.reaper /\ ~n.detached => n.tick \/ GaveUp(n) \/ n.proc = "reaped"
    <3>1. CASE OtherGone(r, s)
      BY <1>3, <1>13, <3>1 DEF Ended, Attended, GaveUp
    <3>2. CASE ~OtherGone(r, s)
      BY <1>4, <1>13, <3>2 DEF Core, GaveUp
    <3> QED
      BY <3>1, <3>2
  <2> QED
    BY <1>12, <2>1, <2>2, <2>3, <2>4, <2>5, <2>6, <2>7, <2>8 DEF Core
<1>21. Shrinks(r, n)
  BY <1>14, <1>16, <1>18, <1>19, <1>20 DEF Shrinks
<1> QED
  BY <1>6, <1>15, <1>21

\* Disconnections one after the other.
LEMMA ShrinksChain ==
    ASSUME NEW q, NEW r, NEW n, Shrinks(q, r), Shrinks(r, n)
    PROVE  Shrinks(q, n)
<1>1. Outcome(q, n)
  BY OutcomeChain DEF Shrinks
<1>2. \A s \in Sides : Open(n, s) => Open(q, s)
  BY DEF Shrinks
<1>3. Noone(r) => Noone(n)
  BY DEF Shrinks, Noone
<1>4. n.cause # q.cause => Noone(n)
  BY <1>3 DEF Shrinks
<1> QED
  BY <1>1, <1>2, <1>4 DEF Shrinks

\* Only an attempt that has begun has an open stream, a timer, or a poll to come.
LEMMA BegunIs ==
    ASSUME NEW r, Core(r), r.stage # "started"
    PROVE  /\ \A s \in Sides : ~Open(r, s)
           /\ ~r.timer /\ ~r.tick /\ ~r.done /\ ~r.put /\ ~r.fed /\ ~r.reaper /\ ~r.detached
           /\ r.tries = 0 /\ r.cause = None /\ r.proc = "none" /\ r.side = [s \in Sides |-> "none"]
<1>1. PICK n : n = [New EXCEPT !.stage = r.stage]
  OBVIOUS
<1>2. r = n
  BY <1>1 DEF Core
<1>3. /\ ~n.timer /\ ~n.tick /\ ~n.done /\ ~n.put /\ ~n.fed /\ ~n.reaper /\ ~n.detached
      /\ n.tries = 0 /\ n.cause = None /\ n.proc = "none" /\ n.side = [s \in Sides |-> "none"]
  BY <1>1 DEF New
<1>4. \A s \in Sides : n.side[s] = "none"
  BY <1>3
<1> QED
  BY <1>2, <1>3, <1>4 DEF Open

\* Nothing changes.
LEMMA SameShrinks == ASSUME NEW r, Core(r) PROVE Shrinks(r, r)
<1>1. Outcome(r, r)
  BY DEF Outcome
<1> QED
  BY <1>1 DEF Shrinks

\* A stream that may be closed already.
LEMMA GoneIfOpenIs ==
    ASSUME NEW r, Core(r), NEW c, NEW s \in Sides
    PROVE  LET n == GoneIfOpen(r, c, s)
           IN  Shrinks(r, n) /\ ~Open(n, s)
<1>1. CASE Open(r, s)
  <2>1. r.stage = "started"
    BY <1>1, BegunIs
  <2>2. Shrinks(r, Gone(r, c, s)) /\ ~Open(Gone(r, c, s), s)
    BY <2>1, GoneIs
  <2> QED
    BY <1>1, <2>2 DEF GoneIfOpen
<1>2. CASE ~Open(r, s)
  BY <1>2, SameShrinks DEF GoneIfOpen
<1> QED
  BY <1>1, <1>2

\* Both streams closed.
LEMMA CloseBothIs ==
    ASSUME NEW r, Core(r), NEW c
    PROVE  Shrinks(r, CloseBoth(r, c)) /\ Noone(CloseBoth(r, c))
<1>1. PICK q : q = GoneIfOpen(r, c, "stdio")
  OBVIOUS
<1>2. Shrinks(r, q) /\ ~Open(q, "stdio")
  BY <1>1, GoneIfOpenIs DEF Sides
<1>3. PICK n : n = GoneIfOpen(q, c, "diag")
  OBVIOUS
<1>4. Core(q)
  BY <1>2 DEF Shrinks
<1>5. Shrinks(q, n) /\ ~Open(n, "diag")
  BY <1>3, <1>4, GoneIfOpenIs DEF Sides
<1>6. Shrinks(r, n)
  BY <1>2, <1>5, ShrinksChain
<1>7. Noone(n)
  BY <1>2, <1>5 DEF Shrinks, Noone, Sides
<1> QED
  BY <1>1, <1>3, <1>6, <1>7 DEF CloseBoth

\* What a record that was settled becomes by disconnections is.
LEMMA ShrinksSettled ==
    ASSUME NEW r, NEW n, Settled(r), Shrinks(r, n)
    PROVE  Settled(n)
<1>1. n.cause # None /\ n.cause = r.cause /\ ~r.done => Noone(n)
  BY DEF Settled, Shrinks, Noone
<1>2. n.cause # None /\ ~n.done => Noone(n)
  BY <1>1 DEF Shrinks, Outcome
<1>3. n.cause # None /\ n.done => ~Open(n, "diag")
  BY DEF Settled, Shrinks, Outcome, Noone, Sides
<1>4. n.put => n.done \/ n.cause # None
  BY DEF Settled, Shrinks, Outcome
<1> QED
  BY <1>2, <1>3, <1>4 DEF Settled

\* _broker_shutdown() of the streams of an attempt.
LEMMA AskedIs ==
    ASSUME NEW c, Core(conn[c])
    PROVE  Shrinks(conn[c], AskedToClose(c))
<1>1. PICK r : r = conn[c]
  OBVIOUS
<1>2. PICK q : q = IF r.done THEN r ELSE GoneIfOpen(r, c, "stdio")
  OBVIOUS
<1>3. Shrinks(r, q)
  <2>1. Shrinks(r, r) /\ Shrinks(r, GoneIfOpen(r, c, "stdio"))
    BY <1>1, SameShrinks, GoneIfOpenIs DEF Sides
  <2> QED
    BY <1>2, <2>1
<1>4. Core(q)
  BY <1>3 DEF Shrinks
<1>5. Shrinks(q, GoneIfOpen(q, c, "diag"))
  BY <1>4, GoneIfOpenIs DEF Sides
<1>6. AskedToClose(c) = GoneIfOpen(q, c, "diag")
  BY <1>1, <1>2 DEF AskedToClose
<1> QED
  BY <1>1, <1>3, <1>5, <1>6, ShrinksChain

----------------------------------------------------------------------------
(* Outcomes.                                                               *)

\* The cause alone.
LEMMA CauseCore ==
    ASSUME NEW r, Core(r), r.stage = "started", NEW e \in Causes
    PROVE  LET n == Cause(r, e)
           IN  Core(n) /\ Outcome(r, n) /\ n.cause # None /\ n.side = r.side /\ n.put = r.put
<1>1. r \in ConnectionRecords
  BY DEF Core
<1>2. PICK n : n = Cause(r, e)
  OBVIOUS
<1>3. /\ n \in ConnectionRecords /\ Outcome(r, n) /\ n.cause # None /\ n.side = r.side
      /\ n.reaper = r.reaper /\ n.tick = r.tick /\ n.tries = r.tries /\ n.proc = r.proc
      /\ n.timer = r.timer /\ n.put = r.put
  BY <1>1, <1>2, CauseIs
<1>4. Core(n)
  BY <1>3 DEF Core, Outcome, Noone, Open, GaveUp
<1> QED
  BY <1>2, <1>3, <1>4

\* _complete_connection()
LEMMA CompleteIs ==
    ASSUME NEW r, Core(r), r.stage = "started"
    PROVE  LET n == Complete(r)
           IN  /\ Core(n) /\ n.put /\ n.done = (r.done \/ r.cause = None)
               /\ n.cause = r.cause /\ n.side = r.side /\ n.stage = r.stage /\ n.fed = r.fed
               /\ n.detached = r.detached /\ n.tries = r.tries
<1>1. r \in ConnectionRecords
  BY DEF Core
<1>2. PICK n : n = Complete(r)
  OBVIOUS
<1>3. n = [r EXCEPT !.timer = FALSE, !.put = TRUE, !.done = @ \/ r.cause = None]
  BY <1>2 DEF Complete
<1>4. n \in ConnectionRecords
  BY <1>1, <1>3 DEF ConnectionRecords
<1>5. /\ n.put /\ n.done = (r.done \/ r.cause = None) /\ n.timer = FALSE
      /\ n.cause = r.cause /\ n.side = r.side /\ n.stage = r.stage /\ n.fed = r.fed
      /\ n.detached = r.detached /\ n.tries = r.tries /\ n.tick = r.tick /\ n.reaper = r.reaper
      /\ n.proc = r.proc
  BY <1>1, <1>3 DEF ConnectionRecords
<1>6. Core(n)
  BY <1>4, <1>5 DEF Core, Noone, Open, GaveUp
<1> QED
  BY <1>2, <1>5, <1>6

\* What any handler keeps of an attempt.
Handled(r, n) ==
    /\ Core(n) /\ Settled(n)
    /\ n.stage = r.stage
    /\ n.detached = r.detached
    /\ r.cause # None => n.cause = r.cause
    /\ r.tries >= 1 => n.tries >= 1
    /\ r.done => n.done

\* _fail_connection()
LEMMA FailIs ==
    ASSUME NEW r, Core(r), r.stage = "started", NEW c, NEW e \in Causes
    PROVE  LET n == Fail(r, c, e)
           IN  Handled(r, n) /\ n.done = r.done /\ n.fed = r.fed /\ n.cause # None
<1>1. PICK q : q = Cause(r, e)
  OBVIOUS
<1>2. Core(q) /\ Outcome(r, q) /\ q.cause # None
  BY <1>1, CauseCore
<1>3. PICK f : f = CloseBoth(q, c)
  OBVIOUS
<1>4. Shrinks(q, f) /\ Noone(f)
  BY <1>2, <1>3, CloseBothIs
<1>5. Core(f) /\ Outcome(q, f) /\ f.cause # None /\ f.stage = "started"
  BY <1>2, <1>4 DEF Shrinks, Outcome
<1>6. PICK n : n = Complete(f)
  OBVIOUS
<1>7. /\ Core(n) /\ n.put /\ n.done = (f.done \/ f.cause = None)
      /\ n.cause = f.cause /\ n.side = f.side /\ n.stage = f.stage /\ n.fed = f.fed
      /\ n.detached = f.detached /\ n.tries = f.tries
  BY <1>5, <1>6, CompleteIs
<1>8. Noone(n)
  BY <1>4, <1>7 DEF Noone, Open
<1>9. Outcome(r, f)
  BY <1>2, <1>5, OutcomeChain
<1>10. n.done = r.done
  <2>1. n \in ConnectionRecords /\ f \in ConnectionRecords
    BY <1>5, <1>7 DEF Core
  <2>2. n.done \in BOOLEAN /\ f.done \in BOOLEAN
    BY <2>1 DEF ConnectionRecords
  <2>3. n.done = f.done
    BY <1>5, <1>7, <2>2
  <2> QED
    BY <1>9, <2>3 DEF Outcome
<1>11. Settled(n)
  BY <1>5, <1>7, <1>8 DEF Settled, Noone, Sides
<1>12. Handled(r, n)
  BY <1>5, <1>7, <1>9, <1>10, <1>11 DEF Handled, Outcome
<1>13. n = Fail(r, c, e)
  BY <1>1, <1>3, <1>6 DEF Fail
<1> QED
  BY <1>5, <1>7, <1>9, <1>10, <1>12, <1>13 DEF Outcome

----------------------------------------------------------------------------
(* Lines.                                                                  *)

\* What a line of diagnostics does: it connects nothing, and what is connected
\* keeps its stream.
Diagnosed(r, n) ==
    /\ Handled(r, n)
    /\ n.done = r.done /\ n.fed = r.fed
    /\ r.done => n.side["stdio"] = r.side["stdio"]

\* A failure from a line.
LEMMA FailHearingIs ==
    ASSUME NEW r, Core(r), Settled(r), r.stage = "started", r.done => r.cause = None,
           NEW c, NEW e \in Causes
    PROVE  Diagnosed(r, FailHearing(r, c, e))
<1>1. CASE r.done /\ r.cause = None
  <2>1. PICK q : q = Cause(r, e)
    OBVIOUS
  <2>2. Core(q) /\ Outcome(r, q) /\ q.cause # None /\ q.side = r.side /\ q.put = r.put
    BY <2>1, CauseCore
  <2>3. q.stage = "started"
    BY <2>2 DEF Outcome
  <2>4. PICK n : n = Gone(q, c, "diag")
    OBVIOUS
  <2>5. /\ Shrinks(q, n) /\ ~Open(n, "diag")
        /\ \A t \in Sides : t # "diag" => n.side[t] = q.side[t]
    BY <2>2, <2>3, <2>4, GoneIs DEF Sides
  <2>6. n.side["stdio"] = r.side["stdio"]
    BY <2>2, <2>5 DEF Sides
  <2>7. Outcome(r, n) /\ Core(n)
    BY <2>2, <2>5, OutcomeChain DEF Shrinks
  <2>8. Settled(n)
    BY <1>1, <2>5, <2>7 DEF Settled, Outcome
  <2>9. Diagnosed(r, n)
    BY <2>6, <2>7, <2>8 DEF Diagnosed, Handled, Outcome
  <2>10. FailHearing(r, c, e) = n
    BY <1>1, <2>1, <2>4 DEF FailHearing
  <2> QED
    BY <2>9, <2>10
<1>2. CASE ~(r.done /\ r.cause = None)
  <2>1. ~r.done
    BY <1>2
  <2>2. FailHearing(r, c, e) = Fail(r, c, e)
    BY <1>2 DEF FailHearing
  <2>3. PICK n : n = Fail(r, c, e)
    OBVIOUS
  <2>4. Handled(r, n) /\ n.done = r.done /\ n.fed = r.fed
    BY <2>3, FailIs
  <2> QED
    BY <2>1, <2>2, <2>3, <2>4 DEF Diagnosed
<1> QED
  BY <1>1, <1>2

\* Nothing but disconnections is a case of it.
LEMMA ShrinksTold ==
    ASSUME NEW r, NEW n, Settled(r), Shrinks(r, n), n.side["stdio"] = r.side["stdio"]
    PROVE  Diagnosed(r, n)
<1>1. Settled(n)
  BY ShrinksSettled
<1> QED
  BY <1>1 DEF Diagnosed, Handled, Shrinks, Outcome

\* A password sent.
LEMMA SentIs ==
    ASSUME NEW r, Core(r), Settled(r), r.stage = "started"
    PROVE  Diagnosed(r, [r EXCEPT !.sent = TRUE])
<1>1. r \in ConnectionRecords
  BY DEF Core
<1>2. PICK n : n = [r EXCEPT !.sent = TRUE]
  OBVIOUS
<1>3. n \in ConnectionRecords
  BY <1>1, <1>2 DEF ConnectionRecords
<1>4. /\ n.cause = r.cause /\ n.side = r.side /\ n.reaper = r.reaper /\ n.tick = r.tick /\ n.tries = r.tries
      /\ n.proc = r.proc /\ n.timer = r.timer /\ n.put = r.put /\ n.stage = r.stage /\ n.done = r.done
      /\ n.fed = r.fed /\ n.detached = r.detached
  BY <1>1, <1>2 DEF ConnectionRecords
<1>5. Core(n)
  BY <1>3, <1>4 DEF Core, Noone, Open, GaveUp
<1>6. Settled(n)
  BY <1>4 DEF Settled, Noone, Open
<1> QED
  BY <1>2, <1>4, <1>5, <1>6 DEF Diagnosed, Handled

\* The bootstrap fed.
LEMMA FedIs ==
    ASSUME NEW r, Core(r), Settled(r), r.stage = "started"
    PROVE  LET n == [r EXCEPT !.fed = TRUE] IN Handled(r, n) /\ n.done = r.done
<1>1. r \in ConnectionRecords
  BY DEF Core
<1>2. PICK n : n = [r EXCEPT !.fed = TRUE]
  OBVIOUS
<1>3. n \in ConnectionRecords
  BY <1>1, <1>2 DEF ConnectionRecords
<1>4. /\ n.cause = r.cause /\ n.side = r.side /\ n.reaper = r.reaper /\ n.tick = r.tick /\ n.tries = r.tries
      /\ n.proc = r.proc /\ n.timer = r.timer /\ n.put = r.put /\ n.stage = r.stage /\ n.done = r.done
      /\ n.detached = r.detached
  BY <1>1, <1>2 DEF ConnectionRecords
<1>5. Core(n)
  BY <1>3, <1>4 DEF Core, Noone, Open, GaveUp
<1>6. Settled(n)
  BY <1>4 DEF Settled, Noone, Open
<1> QED
  BY <1>2, <1>4, <1>5, <1>6 DEF Handled

\* A prompt, or a refusal.
LEMMA RefusedIs ==
    ASSUME NEW r, Core(r), Settled(r), r.stage = "started", r.done => r.cause = None, NEW c
    PROVE  /\ Diagnosed(r, Prompted(r, c)) /\ Diagnosed(r, SshPrompted(r, c)) /\ Diagnosed(r, Denied(r, c))
           /\ Diagnosed(r, FailHearing(r, c, "hostkey"))
<1>1. {"required", "incorrect", "auth", "hostkey"} \subseteq Causes
  BY DEF Causes
<1>2. \A e \in {"required", "incorrect", "auth", "hostkey"} : Diagnosed(r, FailHearing(r, c, e))
  BY <1>1, FailHearingIs
<1>3. Diagnosed(r, [r EXCEPT !.sent = TRUE])
  BY SentIs
<1>4. Diagnosed(r, r)
  BY SameShrinks, ShrinksTold
<1>5. Diagnosed(r, Gone(r, c, "diag"))
  <2>1. PICK n : n = Gone(r, c, "diag")
    OBVIOUS
  <2>2. Shrinks(r, n) /\ n.side["stdio"] = r.side["stdio"]
    BY <2>1, GoneIs DEF Sides
  <2> QED
    BY <2>1, <2>2, ShrinksTold
<1>6. Diagnosed(r, Prompted(r, c))
  BY <1>2, <1>3 DEF Prompted
<1>7. Diagnosed(r, SshPrompted(r, c))
  BY <1>3, <1>5 DEF SshPrompted
<1>8. Diagnosed(r, Denied(r, c))
  <2>1. PICK e : e = IF c \notin Passwords THEN "required" ELSE IF r.sent THEN "incorrect" ELSE "auth"
    OBVIOUS
  <2>2. Diagnosed(r, FailHearing(r, c, e))
    BY <1>2, <2>1
  <2>3. CASE Method[c] = "ssh"
    <3>1. Denied(r, c) = FailHearing(r, c, e)
      BY <2>1, <2>3 DEF Denied
    <3> QED
      BY <2>2, <3>1
  <2>4. CASE Method[c] # "ssh"
    <3>1. Denied(r, c) = r \/ Denied(r, c) = FailHearing(r, c, "incorrect")
      BY <2>4 DEF Denied
    <3> QED
      BY <1>2, <1>4, <3>1
  <2> QED
    BY <2>3, <2>4
<1> QED
  BY <1>2, <1>6, <1>7, <1>8

\* Any line.
LEMMA HeardIs ==
    ASSUME NEW r, Core(r), Settled(r), r.stage = "started", r.done => r.cause = None,
           NEW c, NEW line \in Lines
    PROVE  LET n == Heard(r, c, line)
           IN  /\ Handled(r, n)
               /\ line # "ec0" => n.fed = r.fed
               /\ line # "ec2" => n.done = r.done
               /\ line \notin {"ec0", "ec2"} /\ r.done => n.side["stdio"] = r.side["stdio"]
<1>1. CASE line = "ec0"
  <2>1. Heard(r, c, line) = [r EXCEPT !.fed = TRUE]
    BY <1>1 DEF Heard
  <2>2. PICK n : n = [r EXCEPT !.fed = TRUE]
    OBVIOUS
  <2>3. Handled(r, n) /\ n.done = r.done
    BY <2>2, FedIs
  <2> QED
    BY <1>1, <2>1, <2>2, <2>3
<1>2. CASE line = "ec2"
  <2>1. Heard(r, c, line) = Complete(r)
    BY <1>2 DEF Heard
  <2>2. PICK n : n = Complete(r)
    OBVIOUS
  <2>3. /\ Core(n) /\ n.put /\ n.done = (r.done \/ r.cause = None)
        /\ n.cause = r.cause /\ n.side = r.side /\ n.stage = r.stage /\ n.fed = r.fed
        /\ n.detached = r.detached /\ n.tries = r.tries
    BY <2>2, CompleteIs
  <2>4. Settled(n)
    BY <2>3 DEF Settled, Noone, Open
  <2>5. Handled(r, n)
    BY <2>3, <2>4 DEF Handled
  <2> QED
    BY <1>2, <2>1, <2>2, <2>3, <2>5
<1>3. CASE line \notin {"ec0", "ec2"}
  <2>1. line \in {"prompt", "reprompt", "denied", "hostkey"}
    BY <1>3 DEF Lines
  <2>2. /\ Diagnosed(r, Prompted(r, c)) /\ Diagnosed(r, SshPrompted(r, c)) /\ Diagnosed(r, Denied(r, c))
        /\ Diagnosed(r, FailHearing(r, c, "hostkey"))
    BY RefusedIs
  <2>3. PICK n : n = Heard(r, c, line)
    OBVIOUS
  <2>4. \/ n = Prompted(r, c) \/ n = SshPrompted(r, c) \/ n = Denied(r, c)
        \/ n = FailHearing(r, c, "hostkey")
    <3>1. CASE line \in {"prompt", "reprompt"}
      BY <2>3, <3>1 DEF Heard
    <3>2. CASE line = "denied"
      BY <2>3, <3>2 DEF Heard
    <3>3. CASE line = "hostkey"
      BY <2>3, <3>3 DEF Heard
    <3> QED
      BY <2>1, <3>1, <3>2, <3>3
  <2>5. Diagnosed(r, n)
    BY <2>2, <2>4
  <2> QED
    BY <2>3, <2>5 DEF Diagnosed
<1> QED
  BY <1>1, <1>2, <1>3

----------------------------------------------------------------------------
(* Listeners.                                                              *)

\* There are no more listeners than attempts, twice.
LEMMA ListenersBound ==
    ASSUME NEW ls \in Seq(Listeners), Once(ls)
    PROVE  Len(ls) <= 2 * Cardinality(Conns) /\ Cardinality(Conns) \in Nat
<1>1. IsFiniteSet({"conn", "reaper"}) /\ Cardinality({"conn", "reaper"}) = 2
  <2>1. IsFiniteSet({"conn"}) /\ Cardinality({"conn"}) = 1
    BY FS_Singleton
  <2>2. {"conn", "reaper"} = {"conn"} \cup {"reaper"} /\ "reaper" \notin {"conn"}
    OBVIOUS
  <2>3. /\ IsFiniteSet({"conn"} \cup {"reaper"})
        /\ Cardinality({"conn"} \cup {"reaper"}) = Cardinality({"conn"}) + 1
    BY <2>1, <2>2, FS_AddElement
  <2> QED
    BY <2>1, <2>2, <2>3
<1>2. Cardinality(Conns) \in Nat /\ IsFiniteSet(Conns)
  BY ConnectingAssumption, FS_CardinalityType
<1>3. IsFiniteSet(Listeners) /\ Cardinality(Listeners) = 2 * Cardinality(Conns)
  <2>1. PICK K : K = {"conn", "reaper"}
    OBVIOUS
  <2>2. IsFiniteSet(K \X Conns) /\ Cardinality(K \X Conns) = Cardinality(K) * Cardinality(Conns)
    BY <1>1, <1>2, <2>1, FS_Product
  <2> QED
    BY <1>1, <1>2, <2>1, <2>2 DEF Listeners
<1>4. Len(ls) \in Nat /\ ls \in [1..Len(ls) -> Listeners]
  OBVIOUS
<1>5. ls \in Injection(1..Len(ls), Listeners)
  BY <1>4 DEF Injection, Once, IsInjective
<1>6. Cardinality(1..Len(ls)) <= Cardinality(Listeners)
  BY <1>3, <1>5, FS_Injection
<1>7. Cardinality(1..Len(ls)) = Len(ls)
  <2>1. Cardinality(1..Len(ls)) = IF 1 > Len(ls) THEN 0 ELSE Len(ls) - 1 + 1
    BY <1>4, FS_Interval
  <2> QED
    BY <1>4, <2>1
<1> QED
  BY <1>2, <1>3, <1>6, <1>7

\* What unlisten() leaves.
LEMMA UnlistenedIs ==
    ASSUME NEW ls \in Seq(Listeners), Once(ls), NEW l, NEW us, us = Unlistened(ls, l)
    PROVE  /\ us \in Seq(Listeners) /\ Once(us)
           /\ \A i \in 1..Len(us) : \E j \in 1..Len(ls) : us[i] = ls[j]
<1>1. DOMAIN ls = 1..Len(ls) /\ Len(ls) \in Nat
  OBVIOUS
<1>3. CASE ~\E i \in DOMAIN ls : ls[i] = l
  <2>1. us = ls
    BY <1>3 DEF Unlistened
  <2> QED
    BY <2>1
<1>4. CASE \E i \in DOMAIN ls : ls[i] = l
  <2>1. PICK k \in DOMAIN ls : ls[k] = l
    BY <1>4
  <2>2. \A j \in 1 .. k - 1 : ls[j] # l
    BY <1>1, <2>1 DEF Once
  <2>3. \E i \in DOMAIN ls : ls[i] = l /\ \A j \in 1 .. i - 1 : ls[j] # l
    BY <2>1, <2>2
  <2>4. PICK f : f = CHOOSE i \in DOMAIN ls : ls[i] = l /\ \A j \in 1 .. i - 1 : ls[j] # l
    OBVIOUS
  <2>5. f \in 1..Len(ls)
    BY <1>1, <2>3, <2>4
  <2>6. us = [j \in 1 .. Len(ls) - 1 |-> IF j < f THEN ls[j] ELSE ls[j + 1]]
    BY <1>4, <2>4 DEF Unlistened
  <2>7. Len(ls) - 1 \in Nat
    BY <1>1, <2>5
  <2>8. \A j \in 1 .. Len(ls) - 1 : (IF j < f THEN ls[j] ELSE ls[j + 1]) \in Listeners
    BY <1>1, <2>5
  <2>9. us \in Seq(Listeners) /\ Len(us) = Len(ls) - 1
    <3>1. us \in [1 .. Len(ls) - 1 -> Listeners]
      BY <2>6, <2>8
    <3> QED
      BY <2>7, <3>1
  <2>10. \A i \in 1..Len(us) : us[i] = ls[IF i < f THEN i ELSE i + 1] /\ (IF i < f THEN i ELSE i + 1) \in 1..Len(ls)
    BY <1>1, <2>5, <2>6, <2>9
  <2>11. Once(us)
    <3>1. SUFFICES ASSUME NEW i \in 1..Len(us), NEW j \in 1..Len(us), us[i] = us[j] PROVE i = j
      BY DEF Once
    <3>2. (IF i < f THEN i ELSE i + 1) = (IF j < f THEN j ELSE j + 1)
      BY <2>10, <3>1 DEF Once
    <3> QED
      BY <1>1, <2>5, <2>9, <3>2
  <2> QED
    BY <2>9, <2>10, <2>11
<1> QED
  BY <1>3, <1>4

\* A listener more.
LEMMA ListenIs ==
    ASSUME NEW ls \in Seq(Listeners), Once(ls), NEW l \in Listeners, \A i \in 1..Len(ls) : ls[i] # l
    PROVE  LET us == Append(ls, l)
           IN  /\ us \in Seq(Listeners) /\ Once(us)
               /\ \A i \in 1..Len(us) : us[i] = l \/ \E j \in 1..Len(ls) : us[i] = ls[j]
<1>1. PICK us : us = Append(ls, l)
  OBVIOUS
<1>2. /\ us \in Seq(Listeners) /\ Len(ls) \in Nat /\ Len(us) = Len(ls) + 1 /\ us[Len(ls) + 1] = l
      /\ \A i \in 1..Len(ls) : us[i] = ls[i]
  BY <1>1
<1>3. \A i \in 1..Len(us) : i \in 1..Len(ls) \/ i = Len(ls) + 1
  BY <1>2
<1>4. Once(us)
  BY <1>2, <1>3 DEF Once
<1> QED
  BY <1>1, <1>2, <1>3, <1>4

\* The listeners of an attempt that a handler changed.
LEMMA RelistenIs ==
    ASSUME NEW cs \in [Conns -> ConnectionRecords], NEW ls, Listening(ls, cs), NEW c \in Conns,
           NEW n \in ConnectionRecords, cs[c].stage = "started", n.stage = "started",
           cs[c].tries >= 1 => n.tries >= 1, n.tick => n.tries \in 1..MaxTries
    PROVE  Listening(Relisten(ls, c, cs[c], n), [cs EXCEPT ![c] = n])
<1>1. PICK r : r = cs[c]
  OBVIOUS
<1>2. PICK ds : ds = [cs EXCEPT ![c] = n]
  OBVIOUS
<1>3. \A d \in Conns : ds[d] = IF d = c THEN n ELSE cs[d]
  BY <1>2
<1>4. ls \in Seq(Listeners) /\ Once(ls)
  BY DEF Listening
<1>5. PICK kept : kept = IF (r.cause = None /\ ~r.done) /\ (n.cause # None \/ n.done)
                         THEN Unlistened(ls, <<"conn", c>>) ELSE ls
  OBVIOUS
<1>6. /\ kept \in Seq(Listeners) /\ Once(kept)
      /\ \A i \in 1..Len(kept) : \E j \in 1..Len(ls) : kept[i] = ls[j]
  <2>0. PICK l : l = <<"conn", c>>
    OBVIOUS
  <2>1. PICK us : us = Unlistened(ls, l)
    OBVIOUS
  <2>2. /\ us \in Seq(Listeners) /\ Once(us)
        /\ \A i \in 1..Len(us) : \E j \in 1..Len(ls) : us[i] = ls[j]
    BY <1>4, <2>1, UnlistenedIs
  <2>3. kept = us \/ kept = ls
    BY <1>5, <2>0, <2>1
  <2> QED
    BY <1>4, <2>2, <2>3
<1>7. \A i \in 1..Len(kept) : /\ kept[i] \in Listeners
                              /\ cs[kept[i][2]].stage = "started"
                              /\ kept[i][1] = "reaper" => cs[kept[i][2]].tries >= 1
  BY <1>6 DEF Listening
<1>8. \A i \in 1..Len(kept) : /\ ds[kept[i][2]].stage = "started"
                              /\ kept[i][1] = "reaper" => ds[kept[i][2]].tries >= 1
  <2>1. SUFFICES ASSUME NEW i \in 1..Len(kept)
                 PROVE  /\ ds[kept[i][2]].stage = "started"
                        /\ kept[i][1] = "reaper" => ds[kept[i][2]].tries >= 1
    OBVIOUS
  <2>2. kept[i][2] \in Conns
    BY <1>7, <2>1 DEF Listeners
  <2> QED
    BY <1>3, <1>7, <2>1, <2>2
<1>9. Listening(kept, ds)
  BY <1>6, <1>8 DEF Listening
<1>10. CASE ~(r.tries = 0 /\ n.tick)
  <2>1. Relisten(ls, c, r, n) = kept
    BY <1>5, <1>10 DEF Relisten
  <2> QED
    BY <1>1, <1>2, <1>9, <2>1
<1>11. CASE r.tries = 0 /\ n.tick
  <2>1. PICK l : l = <<"reaper", c>>
    OBVIOUS
  <2>2. l \in Listeners /\ l[1] = "reaper" /\ l[2] = c
    BY <2>1 DEF Listeners
  <2>3. \A i \in 1..Len(kept) : kept[i] # l
    BY <1>1, <1>7, <1>11, <2>2
  <2>4. PICK us : us = Append(kept, l)
    OBVIOUS
  <2>5. /\ us \in Seq(Listeners) /\ Once(us)
        /\ \A i \in 1..Len(us) : us[i] = l \/ \E j \in 1..Len(kept) : us[i] = kept[j]
    BY <1>6, <2>2, <2>3, <2>4, ListenIs
  <2>6. ds[l[2]].stage = "started" /\ ds[l[2]].tries >= 1
    BY <1>3, <1>11, <2>2
  <2>7. Listening(us, ds)
    BY <1>8, <2>5, <2>6 DEF Listening
  <2>8. Relisten(ls, c, r, n) = us
    BY <1>5, <1>11, <2>1, <2>4 DEF Relisten
  <2> QED
    BY <1>1, <1>2, <2>7, <2>8
<1> QED
  BY <1>10, <1>11

----------------------------------------------------------------------------
(* Steps.                                                                  *)

\* What the invariant says of attempts and what their children wrote.
Attempted ==
    /\ conn \in [Conns -> ConnectionRecords]
    /\ \A c \in Conns : Core(conn[c]) /\ Settled(conn[c]) /\ Talk(c)
    /\ \A c \in Conns : user[c] = "idle" => conn[c].stage = "none"
    /\ Listening(listeners, conn)

\* What a child wrote still fits an attempt that did not get further than that.
LEMMA TalkKept ==
    ASSUME NEW c \in Conns, Talk(c), pipe' = pipe, said' = said,
           conn'[c].fed => "ec0" \in said[c],
           conn'[c].done => "ec2" \in said[c] /\ pipe[c]["stdio"] = <<>>
    PROVE  Talk(c)'
BY DEF Talk, On, SideOf

\* A handler that ends with a record of one attempt.
LEMMA BecomesKeeps ==
    ASSUME ConnectingInv, NEW c \in Conns, NEW n, Becomes(c, n), conn[c].stage = "started",
           Handled(conn[c], n), UNCHANGED <<child, user>>,
           n.fed => "ec0" \in said[c],
           n.done => "ec2" \in said[c] /\ pipe[c]["stdio"] = <<>>
    PROVE  Attempted' /\ \A d \in Conns : conn'[d] = IF d = c THEN n ELSE conn[d]
<1>1. /\ conn \in [Conns -> ConnectionRecords] /\ Listening(listeners, conn)
      /\ \A d \in Conns : Core(conn[d]) /\ Settled(conn[d]) /\ Talk(d)
  BY DEF ConnectingInv, ConnectingTypeOK
<1>2. n \in ConnectionRecords /\ Core(n) /\ Settled(n) /\ n.stage = "started"
  BY DEF Handled, Core
<1>3. conn' = [conn EXCEPT ![c] = n] /\ listeners' = Relisten(listeners, c, conn[c], n)
  BY DEF Becomes
<1>4. conn' \in [Conns -> ConnectionRecords]
  BY <1>1, <1>2, <1>3
<1>5. \A d \in Conns : conn'[d] = IF d = c THEN n ELSE conn[d]
  BY <1>1, <1>3
<1>6. Listening(listeners', conn')
  <2>1. n.tick => n.tries \in 1..MaxTries
    BY <1>2 DEF Core
  <2>2. conn[c].tries >= 1 => n.tries >= 1
    BY DEF Handled
  <2>3. Listening(Relisten(listeners, c, conn[c], n), [conn EXCEPT ![c] = n])
    BY <1>1, <1>2, <2>1, <2>2, RelistenIs
  <2> QED
    BY <1>3, <2>3
<1>7. \A d \in Conns : Core(conn'[d]) /\ Settled(conn'[d])
  BY <1>1, <1>2, <1>5
<1>8. \A d \in Conns : Talk(d)'
  <2>1. SUFFICES ASSUME NEW d \in Conns PROVE Talk(d)'
    OBVIOUS
  <2>2. pipe' = pipe /\ said' = said
    BY DEF child
  <2>3. /\ conn'[d].fed => "ec0" \in said[d]
        /\ conn'[d].done => "ec2" \in said[d] /\ pipe[d]["stdio"] = <<>>
    <3>1. CASE d = c
      BY <1>5, <3>1
    <3>2. CASE d # c
      BY <1>1, <1>5, <3>2 DEF Talk
    <3> QED
      BY <3>1, <3>2
  <2> QED
    BY <1>1, <2>2, <2>3, TalkKept
<1>9. \A d \in Conns : user'[d] = "idle" => conn'[d].stage = "none"
  <2>1. \A d \in Conns : user[d] = "idle" => conn[d].stage = "none"
    BY DEF ConnectingInv
  <2> QED
    BY <1>5, <2>1
<1>10. \A d \in Conns : Core(conn'[d]) /\ Settled(conn'[d]) /\ Talk(d)'
  BY <1>7, <1>8
<1> QED
  BY <1>4, <1>5, <1>6, <1>9, <1>10 DEF Attempted, Listening, Core, Settled, Noone, Open, GaveUp

\* Attempts as they should be, with the broker thread between two lines.
LEMMA BetweenLines ==
    ASSUME Attempted', hand' = Idle, alive' \in BOOLEAN,
           phase' \in {"loop", "firing", "closing", "grace", "stopped"},
           at' \in 1..2 * Cardinality(Conns) + 1,
           pipe' \in [Conns -> [Sides -> Seq(Lines)]], said' \in [Conns -> SUBSET Lines],
           ends' \in [Conns -> SUBSET Sides],
           user' \in [Conns -> {"idle", "waiting", "woken", "returned", "raised"}]
    PROVE  ConnectingInv'
<1>1. listeners' \in Seq({"conn", "reaper"} \X Conns)
  BY DEF Attempted, Listening, Listeners
<1>2. conn' \in [Conns -> ConnectionRecords]
  BY DEF Attempted
<1>3. ConnectingTypeOK'
  BY <1>1, <1>2 DEF ConnectingTypeOK
<1> QED
  BY <1>3 DEF ConnectingInv, Attempted

\* A handler between two lines that neither feeds nor establishes.
LEMMA HandlerStep ==
    ASSUME ConnectingInv, NEW c \in Conns, NEW n, Becomes(c, n), conn[c].stage = "started",
           Handled(conn[c], n), n.fed = conn[c].fed, n.done = conn[c].done,
           UNCHANGED <<alive, hand, child, user>>, hand = Idle,
           phase' \in {"loop", "firing", "closing", "grace", "stopped"},
           at' \in 1..2 * Cardinality(Conns) + 1
    PROVE  ConnectingInv'
<1>1. /\ n.fed => "ec0" \in said[c]
      /\ n.done => "ec2" \in said[c] /\ pipe[c]["stdio"] = <<>>
  BY DEF ConnectingInv, Talk
<1>2. Attempted'
  BY <1>1, BecomesKeeps
<1> QED
  BY <1>2, BetweenLines DEF ConnectingInv, ConnectingTypeOK, child

\* A timer taken off.
LEMMA TimerOff ==
    ASSUME NEW r, Core(r), Settled(r), r.stage = "started"
    PROVE  LET q == [r EXCEPT !.timer = FALSE]
           IN  /\ Core(q) /\ q.stage = "started" /\ q.cause = r.cause /\ q.fed = r.fed
               /\ q.done = r.done /\ q.detached = r.detached /\ q.tries = r.tries
<1>1. r \in ConnectionRecords
  BY DEF Core
<1>2. PICK q : q = [r EXCEPT !.timer = FALSE]
  OBVIOUS
<1>3. q \in ConnectionRecords
  BY <1>1, <1>2 DEF ConnectionRecords
<1>4. /\ q.cause = r.cause /\ q.side = r.side /\ q.reaper = r.reaper /\ q.tick = r.tick /\ q.tries = r.tries
      /\ q.proc = r.proc /\ q.timer = FALSE /\ q.put = r.put /\ q.stage = r.stage /\ q.done = r.done
      /\ q.fed = r.fed /\ q.detached = r.detached
  BY <1>1, <1>2 DEF ConnectionRecords
<1>5. Core(q)
  BY <1>3, <1>4 DEF Core, Noone, Open, GaveUp
<1> QED
  BY <1>2, <1>4, <1>5

\* A poll of a child that runs a Reaper, or the end of the polls of a detached one.
LEMMA TickOff ==
    ASSUME NEW r, Core(r), Settled(r), r.stage = "started"
    PROVE  LET q == [r EXCEPT !.tick = FALSE]
           IN  /\ r.tick => \A b : /\ Handled(r, Reap(q, b)) /\ Reap(q, b).fed = r.fed
                                   /\ Reap(q, b).done = r.done /\ Reap(q, b).side = r.side
               /\ r.detached => Handled(r, q) /\ q.fed = r.fed /\ q.done = r.done
<1>1. r \in ConnectionRecords
  BY DEF Core
<1>2. PICK q : q = [r EXCEPT !.tick = FALSE]
  OBVIOUS
<1>3. q \in ConnectionRecords
  BY <1>1, <1>2 DEF ConnectionRecords
<1>4. /\ q.cause = r.cause /\ q.side = r.side /\ q.reaper = r.reaper /\ q.tick = FALSE /\ q.tries = r.tries
      /\ q.proc = r.proc /\ q.timer = r.timer /\ q.put = r.put /\ q.stage = r.stage /\ q.done = r.done
      /\ q.fed = r.fed /\ q.detached = r.detached
  BY <1>1, <1>2 DEF ConnectionRecords
<1>5. ASSUME r.tick, NEW b
      PROVE  /\ Handled(r, Reap(q, b)) /\ Reap(q, b).fed = r.fed
             /\ Reap(q, b).done = r.done /\ Reap(q, b).side = r.side
  <2>1. PICK n : n = Reap(q, b)
    OBVIOUS
  <2>2. r.tries \in 1..MaxTries /\ r.reaper
    BY <1>5 DEF Core
  <2>3. q.tries <= MaxTries
    BY <1>4, <2>2, ConnectingAssumption
  <2>4. Polled(q, n)
    BY <1>3, <2>1, <2>3, ReapIs
  <2>5. /\ n \in ConnectionRecords /\ n.tries >= 1
        /\ n.cause = r.cause /\ n.side = r.side /\ n.reaper = r.reaper /\ n.timer = r.timer
        /\ n.put = r.put /\ n.stage = r.stage /\ n.done = r.done /\ n.fed = r.fed /\ n.detached = r.detached
        /\ n.proc # "none" => r.proc # "none"
        /\ n.tick => n.tries \in 1..MaxTries
        /\ n.tick \/ GaveUp(n) \/ n.proc = "reaped"
    <3>1. n.tries \in Nat /\ n.tries >= r.tries
      BY <1>4, <2>4, ConnectingAssumption DEF Polled, ConnectionRecords
    <3>2. n.tries >= 1
      BY <2>2, <3>1, ConnectingAssumption
    <3> QED
      BY <1>4, <2>4, <3>2 DEF Polled, Alike, Attended
  <2>6. Noone(n) => Noone(r)
    BY <2>5 DEF Noone, Open
  <2>7. Core(n)
    BY <2>2, <2>5, <2>6 DEF Core
  <2>8. Settled(n)
    BY <2>5 DEF Settled, Noone, Open
  <2> QED
    BY <2>1, <2>5, <2>7, <2>8 DEF Handled
<1>6. ASSUME r.detached PROVE Handled(r, q) /\ q.fed = r.fed /\ q.done = r.done
  <2>1. Core(q)
    BY <1>3, <1>4, <1>6 DEF Core, Noone, Open
  <2>2. Settled(q)
    BY <1>4 DEF Settled, Noone, Open
  <2> QED
    BY <1>4, <2>1, <2>2 DEF Handled
<1> QED
  BY <1>2, <1>5, <1>6

\* What a handler of one attempt does: it fails or goes on, and is told of nothing new.
Handler(c, n) ==
    /\ Becomes(c, n)
    /\ conn[c].stage = "started"
    /\ Handled(conn[c], n)
    /\ n.fed = conn[c].fed /\ n.done = conn[c].done

\* The timeout, which no established connection has.
LEMMA ExpireIs ==
    ASSUME ConnectingInv, NEW c \in Conns, Expire(c)
    PROVE  (\E n : Handler(c, n)) /\ ~Registered(conn[c])
<1>1. PICK r : r = conn[c]
  OBVIOUS
<1>2. Core(r) /\ Settled(r) /\ r.timer
  BY <1>1 DEF ConnectingInv, Expire
<1>3. r.stage = "started"
  BY <1>2, BegunIs
<1>4. PICK q : q = [r EXCEPT !.timer = FALSE]
  OBVIOUS
<1>5. /\ Core(q) /\ q.stage = "started" /\ q.cause = r.cause /\ q.fed = r.fed
      /\ q.done = r.done /\ q.detached = r.detached /\ q.tries = r.tries
  BY <1>2, <1>3, <1>4, TimerOff
<1>6. PICK n : n = Fail(q, c, "timeout")
  OBVIOUS
<1>7. Handled(q, n) /\ n.done = q.done /\ n.fed = q.fed
  <2>1. "timeout" \in Causes
    BY DEF Causes
  <2> QED
    BY <1>5, <1>6, <2>1, FailIs
<1>8. Handled(r, n)
  BY <1>3, <1>5, <1>7 DEF Handled
<1>9. Becomes(c, n) /\ hand = Idle /\ UNCHANGED <<broker, hand, child, user>>
  BY <1>1, <1>4, <1>6 DEF Expire, Looping
<1>10. ~Registered(r)
  BY <1>2 DEF Core, Registered
<1> QED
  BY <1>1, <1>3, <1>5, <1>7, <1>8, <1>9, <1>10 DEF Handler

\* The timeout keeps the invariant.
LEMMA ExpireStep == ASSUME ConnectingInv, NEW c \in Conns, Expire(c) PROVE ConnectingInv'
<1>1. PICK n : Handler(c, n)
  BY ExpireIs
<1>2. hand = Idle /\ UNCHANGED <<broker, hand, child, user>>
  BY DEF Expire, Looping
<1> QED
  BY <1>1, <1>2, HandlerStep DEF Handler, broker, ConnectingInv, ConnectingTypeOK

\* An empty read, which ends a connection only when the child closed its end.
LEMMA ReadEofIs ==
    ASSUME ConnectingInv, NEW c \in Conns, NEW s \in Sides, ReadEof(c, s)
    PROVE  \E n : Handler(c, n) /\ (Registered(conn[c]) /\ ~Registered(n) => "stdio" \notin ends[c])
<1>1. PICK r : r = conn[c]
  OBVIOUS
<1>2. Core(r) /\ Settled(r) /\ Open(r, s)
  BY <1>1 DEF ConnectingInv, ReadEof
<1>3. r.stage = "started"
  BY <1>2, BegunIs
<1>4. PICK n : n = Gone(r, c, s)
  OBVIOUS
<1>5. Shrinks(r, n) /\ \A t \in Sides : t # s => n.side[t] = r.side[t]
  BY <1>2, <1>3, <1>4, GoneIs
<1>6. Settled(n)
  BY <1>2, <1>5, ShrinksSettled
<1>7. Handled(r, n) /\ n.fed = r.fed /\ n.done = r.done
  BY <1>5, <1>6 DEF Handled, Shrinks, Outcome
<1>8. Becomes(c, n) /\ hand = Idle /\ UNCHANGED <<broker, hand, child, user>>
  BY <1>1, <1>4 DEF ReadEof, Looping
<1>9. Registered(r) /\ ~Registered(n) => s = "stdio"
  BY <1>5, <1>7 DEF Registered, Open, Sides
<1> QED
  BY <1>1, <1>3, <1>7, <1>8, <1>9 DEF Handler, ReadEof

\* An empty read keeps the invariant.
LEMMA ReadEofStep ==
    ASSUME ConnectingInv, NEW c \in Conns, NEW s \in Sides, ReadEof(c, s)
    PROVE  ConnectingInv'
<1>1. PICK n : Handler(c, n)
  BY ReadEofIs
<1>2. hand = Idle /\ UNCHANGED <<broker, hand, child, user>>
  BY DEF ReadEof, Looping
<1> QED
  BY <1>1, <1>2, HandlerStep DEF Handler, broker, ConnectingInv, ConnectingTypeOK

\* A poll, which leaves the streams alone.
LEMMA ReapAgainIs ==
    ASSUME ConnectingInv, NEW c \in Conns, ReapAgain(c)
    PROVE  \E n : Handler(c, n) /\ n.side = conn[c].side
<1>1. PICK r : r = conn[c]
  OBVIOUS
<1>2. Core(r) /\ Settled(r) /\ r.tick
  BY <1>1 DEF ConnectingInv, ReapAgain
<1>3. r.stage = "started"
  BY <1>2, BegunIs
<1>4. PICK b : b = Immediate(c)
  OBVIOUS
<1>5. PICK n : n = Reap([r EXCEPT !.tick = FALSE], b)
  OBVIOUS
<1>6. Handled(r, n) /\ n.fed = r.fed /\ n.done = r.done /\ n.side = r.side
  BY <1>2, <1>3, <1>5, TickOff
<1>7. Becomes(c, n) /\ hand = Idle /\ UNCHANGED <<broker, hand, child, user>>
  BY <1>1, <1>4, <1>5 DEF ReapAgain, Looping
<1> QED
  BY <1>1, <1>3, <1>6, <1>7 DEF Handler

\* A poll keeps the invariant.
LEMMA ReapAgainStep == ASSUME ConnectingInv, NEW c \in Conns, ReapAgain(c) PROVE ConnectingInv'
<1>1. PICK n : Handler(c, n)
  BY ReapAgainIs
<1>2. hand = Idle /\ UNCHANGED <<broker, hand, child, user>>
  BY DEF ReapAgain, Looping
<1> QED
  BY <1>1, <1>2, HandlerStep DEF Handler, broker, ConnectingInv, ConnectingTypeOK

\* One listener told.
LEMMA FireOneIs ==
    ASSUME ConnectingInv, FireOne, ~(at > Len(listeners))
    PROVE  /\ \E c \in Conns : \E n : Handler(c, n)
           /\ at' \in 1..2 * Cardinality(Conns) + 1
           /\ UNCHANGED <<phase, alive, hand, child, user>>
<1>1. PICK l, c : l = listeners[at] /\ c = l[2]
  OBVIOUS
<1>2. /\ Becomes(c, Told(l)) /\ at' = at + 1
      /\ UNCHANGED <<phase, alive, hand, child, user>>
  BY <1>1 DEF FireOne
<1>3. listeners \in Seq(Listeners) /\ Once(listeners) /\ at \in 1..2 * Cardinality(Conns) + 1
  BY DEF ConnectingInv, ConnectingTypeOK, Listening
<1>4. Len(listeners) <= 2 * Cardinality(Conns) /\ Cardinality(Conns) \in Nat /\ Len(listeners) \in Nat
  BY <1>3, ListenersBound
<1>5. at \in 1..Len(listeners) /\ at' \in 1..2 * Cardinality(Conns) + 1
  BY <1>2, <1>3, <1>4
<1>6. l \in Listeners /\ c \in Conns /\ conn[c].stage = "started"
  BY <1>1, <1>3, <1>5 DEF Listeners, ConnectingInv, Listening
<1>7. PICK r : r = conn[c]
  OBVIOUS
<1>8. Core(r) /\ Settled(r) /\ r.stage = "started"
  BY <1>6, <1>7 DEF ConnectingInv
<1>9. PICK n : n = Told(l)
  OBVIOUS
<1>10. Handled(r, n) /\ n.fed = r.fed /\ n.done = r.done
  <2>1. CASE l[1] = "conn"
    <3>1. n = Fail(r, c, "cancelled")
      BY <1>1, <1>7, <1>9, <2>1 DEF Told
    <3>2. "cancelled" \in Causes
      BY DEF Causes
    <3> QED
      BY <1>8, <3>1, <3>2, FailIs
  <2>2. CASE l[1] # "conn" /\ r.detached
    <3>1. n = [r EXCEPT !.tick = FALSE]
      BY <1>1, <1>7, <1>9, <2>2 DEF Told
    <3> QED
      BY <1>8, <2>2, <3>1, TickOff
  <2>3. CASE l[1] # "conn" /\ ~r.detached
    <3>1. n = r
      BY <1>1, <1>7, <1>9, <2>3 DEF Told
    <3> QED
      BY <1>8, <3>1 DEF Handled
  <2> QED
    BY <2>1, <2>2, <2>3
<1> QED
  BY <1>2, <1>5, <1>6, <1>7, <1>9, <1>10 DEF Handler

\* The shutdown signal keeps the invariant.
LEMMA FireOneStep == ASSUME ConnectingInv, FireOne PROVE ConnectingInv'
<1>1. hand = Idle
  BY DEF ConnectingInv, Handling, FireOne
<1>2. CASE at > Len(listeners)
  <2>1. phase' = "closing" /\ UNCHANGED <<at, conn, listeners, alive, hand, child, user>>
    BY <1>2 DEF FireOne
  <2>2. Attempted'
    <3>1. Attempted
      BY DEF ConnectingInv, ConnectingTypeOK, Attempted
    <3>2. \A c \in Conns : Talk(c)'
      BY <2>1, <3>1 DEF Attempted, Talk, child
    <3> QED
      BY <2>1, <3>1, <3>2 DEF Attempted
  <2> QED
    BY <1>1, <2>1, <2>2, BetweenLines DEF ConnectingInv, ConnectingTypeOK, child
<1>3. CASE ~(at > Len(listeners))
  <2>0. PICK c \in Conns : \E n : Handler(c, n)
    BY <1>3, FireOneIs
  <2>1. PICK n : Handler(c, n)
    BY <2>0
  <2>2. at' \in 1..2 * Cardinality(Conns) + 1 /\ UNCHANGED <<phase, alive, hand, child, user>>
    BY <1>3, FireOneIs
  <2> QED
    BY <1>1, <2>1, <2>2, HandlerStep DEF Handler, ConnectingInv, ConnectingTypeOK
<1> QED
  BY <1>2, <1>3

\* Disconnections of every attempt at once, between two lines.
LEMMA ShrinkAll ==
    ASSUME ConnectingInv, hand = Idle, NEW f, conn' = f, f \in [Conns -> ConnectionRecords],
           \A c \in Conns : Shrinks(conn[c], f[c]),
           UNCHANGED <<alive, at, listeners, hand, child, user>>,
           phase' \in {"loop", "firing", "closing", "grace", "stopped"}
    PROVE  ConnectingInv'
<1>1. \A c \in Conns : Core(conn[c]) /\ Settled(conn[c]) /\ Talk(c)
  BY DEF ConnectingInv
<1>2. \A c \in Conns : /\ Core(f[c]) /\ f[c].stage = conn[c].stage /\ f[c].fed = conn[c].fed
                       /\ f[c].done = conn[c].done /\ (conn[c].tries >= 1 => f[c].tries >= 1)
  BY DEF Shrinks, Outcome
<1>3. \A c \in Conns : Settled(f[c])
  BY <1>1, ShrinksSettled
<1>4. \A c \in Conns : Talk(c)'
  <2>1. SUFFICES ASSUME NEW c \in Conns PROVE Talk(c)'
    OBVIOUS
  <2>2. pipe' = pipe /\ said' = said
    BY DEF child
  <2>3. /\ conn'[c].fed => "ec0" \in said[c]
        /\ conn'[c].done => "ec2" \in said[c] /\ pipe[c]["stdio"] = <<>>
    BY <1>1, <1>2 DEF Talk
  <2> QED
    BY <1>1, <2>2, <2>3, TalkKept
<1>5. Listening(listeners', conn')
  <2>1. Listening(listeners, conn)
    BY DEF ConnectingInv
  <2>2. \A i \in 1..Len(listeners) : /\ f[listeners[i][2]].stage = "started"
                                     /\ listeners[i][1] = "reaper" => f[listeners[i][2]].tries >= 1
    <3>1. SUFFICES ASSUME NEW i \in 1..Len(listeners)
                   PROVE  /\ f[listeners[i][2]].stage = "started"
                          /\ listeners[i][1] = "reaper" => f[listeners[i][2]].tries >= 1
      OBVIOUS
    <3>2. listeners[i][2] \in Conns
      BY <2>1, <3>1 DEF Listening, Listeners
    <3> QED
      BY <1>2, <2>1, <3>1, <3>2 DEF Listening
  <2> QED
    BY <2>1, <2>2 DEF Listening
<1>6. \A c \in Conns : user'[c] = "idle" => conn'[c].stage = "none"
  BY <1>2 DEF ConnectingInv
<1>7. \A c \in Conns : Core(conn'[c]) /\ Settled(conn'[c])
  BY <1>2, <1>3
<1>8. Attempted'
  BY <1>4, <1>5, <1>6, <1>7 DEF Attempted, Core, Settled, Noone, Open, GaveUp
<1> QED
  BY <1>8, BetweenLines DEF ConnectingInv, ConnectingTypeOK, child

\* _broker_shutdown() of every stream.
LEMMA CloseStreamsStep == ASSUME ConnectingInv, CloseStreams PROVE ConnectingInv'
<1>1. hand = Idle
  BY DEF ConnectingInv, Handling, CloseStreams
<1>2. PICK f : f = [c \in Conns |-> AskedToClose(c)]
  OBVIOUS
<1>3. \A c \in Conns : Shrinks(conn[c], f[c])
  BY <1>2, AskedIs DEF ConnectingInv
<1>4. f \in [Conns -> ConnectionRecords]
  <2>1. \A c \in Conns : f[c] \in ConnectionRecords
    BY <1>3 DEF Shrinks, Core
  <2> QED
    BY <1>2, <2>1
<1> QED
  BY <1>1, <1>2, <1>3, <1>4, ShrinkAll DEF CloseStreams

\* _broker_exit()
LEMMA StopStep == ASSUME ConnectingInv, Stop PROVE ConnectingInv'
<1>2. PICK f : f = [c \in Conns |-> CloseBoth(conn[c], c)]
  OBVIOUS
<1>3. \A c \in Conns : Shrinks(conn[c], f[c])
  BY <1>2, CloseBothIs DEF ConnectingInv
<1>4. f \in [Conns -> ConnectionRecords]
  <2>1. \A c \in Conns : f[c] \in ConnectionRecords
    BY <1>3 DEF Shrinks, Core
  <2> QED
    BY <1>2, <2>1
<1> QED
  BY <1>2, <1>3, <1>4, ShrinkAll DEF Stop

\* What a line on the broker thread's hands comes to.
LEMMA HearIs ==
    ASSUME ConnectingInv, Hear
    PROVE  /\ hand.conn \in Conns /\ hand \in [conn : Conns, side : Sides, lines : Seq(Lines)]
           /\ Head(hand.lines) \in Lines /\ Head(hand.lines) \in On(hand.lines)
           /\ Tail(hand.lines) \in Seq(Lines) /\ On(Tail(hand.lines)) \subseteq On(hand.lines)
           /\ conn[hand.conn].stage = "started"
           /\ conn[hand.conn].done => conn[hand.conn].cause = None
           /\ conn[hand.conn].done => Head(hand.lines) \notin {"ec0", "ec2"}
<1>1. hand # Idle /\ hand \in [conn : Conns, side : Sides, lines : Seq(Lines)] /\ Handling(hand)
  BY DEF Hear, ConnectingInv, ConnectingTypeOK
<1>2. PICK ls : ls = hand.lines
  OBVIOUS
<1>3. ls \in Seq(Lines) /\ ls # <<>>
  BY <1>1, <1>2 DEF Handling
<1>4. Tail(ls) \in Seq(Lines) /\ Head(ls) \in Lines /\ On(ls) = {Head(ls)} \cup On(Tail(ls))
  BY <1>3, OnTail
<1>5. conn[hand.conn].done => hand.side = "diag"
  BY <1>1 DEF Handling, Sides
<1>6. hand.side = "diag" => Head(ls) \notin {"ec0", "ec2"}
  <2>1. SideOf(hand.conn, Head(ls)) = hand.side
    BY <1>1, <1>2, <1>4 DEF Handling
  <2> QED
    BY <2>1 DEF SideOf
<1>7. conn[hand.conn].done => conn[hand.conn].cause = None
  BY <1>1, <1>5 DEF Handling
<1> QED
  BY <1>1, <1>2, <1>4, <1>5, <1>6, <1>7 DEF Handling

\* One line.
LEMMA HearStep == ASSUME ConnectingInv, Hear PROVE ConnectingInv'
<1>1. PICK c, line, r : c = hand.conn /\ line = Head(hand.lines) /\ r = conn[c]
  OBVIOUS
<1>2. /\ c \in Conns /\ hand \in [conn : Conns, side : Sides, lines : Seq(Lines)] /\ hand # Idle
      /\ line \in Lines /\ line \in On(hand.lines)
      /\ Tail(hand.lines) \in Seq(Lines) /\ On(Tail(hand.lines)) \subseteq On(hand.lines)
      /\ r.stage = "started" /\ (r.done => r.cause = None) /\ (r.done => line \notin {"ec0", "ec2"})
  BY <1>1, HearIs DEF Hear
<1>3. Core(r) /\ Settled(r) /\ Talk(c) /\ Handling(hand)
  BY <1>1, <1>2 DEF ConnectingInv
<1>4. PICK n : n = Heard(r, c, line)
  OBVIOUS
<1>5. /\ Handled(r, n)
      /\ line # "ec0" => n.fed = r.fed
      /\ line # "ec2" => n.done = r.done
  BY <1>2, <1>3, <1>4, HeardIs
<1>6. PICK left : left = IF line = "ec2" \/ Raises(r, c, line) THEN <<>> ELSE Tail(hand.lines)
  OBVIOUS
<1>7. /\ hand' = IF left = <<>> THEN Idle ELSE [hand EXCEPT !.lines = left]
      /\ Becomes(c, n)
      /\ UNCHANGED <<broker, child, user>>
  BY <1>1, <1>4, <1>6 DEF Hear
<1>8. line \in said[c] /\ SideOf(c, line) = hand.side
  BY <1>1, <1>2, <1>3 DEF Handling
<1>9. line \in {"ec0", "ec2"} => hand.side = "stdio"
  BY <1>8 DEF SideOf
<1>10. n.fed => "ec0" \in said[c]
  BY <1>1, <1>3, <1>5, <1>8 DEF Talk
<1>11. n.done => "ec2" \in said[c] /\ pipe[c]["stdio"] = <<>>
  <2>1. CASE line = "ec2"
    BY <1>1, <1>2, <1>3, <1>8, <1>9, <2>1 DEF Handling
  <2>2. CASE line # "ec2"
    BY <1>1, <1>3, <1>5, <2>2 DEF Talk
  <2> QED
    BY <2>1, <2>2
<1>12. Attempted' /\ \A d \in Conns : conn'[d] = IF d = c THEN n ELSE conn[d]
  BY <1>1, <1>2, <1>5, <1>7, <1>10, <1>11, BecomesKeeps
<1>13. CASE left = <<>>
  <2>1. hand' = Idle
    BY <1>7, <1>13
  <2> QED
    BY <1>7, <1>12, <2>1, BetweenLines DEF ConnectingInv, ConnectingTypeOK, child, broker
<1>14. CASE left # <<>>
  <2>1. left = Tail(hand.lines) /\ line # "ec2" /\ ~Raises(r, c, line)
    BY <1>6, <1>14
  <2>2. PICK h : h = [hand EXCEPT !.lines = left]
    OBVIOUS
  <2>3. h \in [conn : Conns, side : Sides, lines : Seq(Lines)] /\ h.conn = c /\ h.side = hand.side /\ h.lines = left
    BY <1>1, <1>2, <2>1, <2>2
  <2>4. hand' = h
    BY <1>7, <1>14, <2>2
  <2>5. conn'[c] = n /\ n.stage = "started" /\ n.done = r.done
    BY <1>2, <1>5, <1>12, <2>1 DEF Handled
  <2>6. n.done => n.cause = None
    BY <1>2, <1>4, <2>1, <2>5 DEF Raises
  <2>7. UNCHANGED <<phase, pipe, said>>
    BY <1>7 DEF broker, child
  <2>8. Handling(h)'
    <3>1. phase' \in {"loop", "grace"}
      BY <1>3, <2>7 DEF Handling
    <3>2. h'.lines # <<>> /\ h' = h
      BY <1>14, <2>3, <2>2
    <3>3. \A x \in On(left) : x \in said'[c] /\ SideOf(c, x) = h.side
      BY <1>1, <1>2, <1>3, <2>1, <2>3, <2>7 DEF Handling
    <3>4. h.side = "stdio" => ~n.done /\ ("ec2" \in On(left) => pipe'[c]["stdio"] = <<>>)
      BY <1>1, <1>2, <1>3, <2>1, <2>3, <2>5, <2>7 DEF Handling
    <3> QED
      BY <1>14, <2>3, <2>5, <2>6, <3>1, <3>3, <3>4 DEF Handling
  <2>9. ConnectingTypeOK'
    <3>1. listeners' \in Seq({"conn", "reaper"} \X Conns) /\ conn' \in [Conns -> ConnectionRecords]
      BY <1>12 DEF Attempted, Listening, Listeners
    <3> QED
      BY <1>7, <2>3, <2>4, <3>1 DEF ConnectingInv, ConnectingTypeOK, child, broker
  <2> QED
    BY <1>12, <2>4, <2>8, <2>9 DEF ConnectingInv, Attempted
<1> QED
  BY <1>13, <1>14

Timed(r) == [r EXCEPT !.stage = "started", !.timer = TRUE]

BegunOf(timed, c) ==
    [timed EXCEPT !.proc = "running",
                  !.side = [s \in Sides |-> IF s = "stdio" \/ HasDiag(c) THEN "open" ELSE "none"]]

\* An attempt that is about to start its child.
LEMMA TimedIs ==
    ASSUME NEW r, Core(r), r.stage # "started", NEW c \in Conns,
           NEW timed, timed = Timed(r), NEW begun, begun = BegunOf(timed, c)
    PROVE  /\ Core(timed) /\ timed.stage = "started" /\ ~timed.done /\ ~timed.fed /\ timed.cause = None
           /\ Core(begun) /\ Settled(begun) /\ begun.stage = "started" /\ ~begun.done /\ ~begun.fed
<1>1. r \in ConnectionRecords
  BY DEF Core
<1>2. /\ \A s \in Sides : ~Open(r, s)
      /\ ~r.timer /\ ~r.tick /\ ~r.done /\ ~r.put /\ ~r.fed /\ ~r.reaper /\ ~r.detached
      /\ r.tries = 0 /\ r.cause = None /\ r.proc = "none" /\ r.side = [s \in Sides |-> "none"]
  BY BegunIs
<1>3. timed = [r EXCEPT !.stage = "started", !.timer = TRUE]
  BY DEF Timed
<1>4. timed \in ConnectionRecords
  BY <1>1, <1>3 DEF ConnectionRecords
<1>5. /\ timed.cause = None /\ timed.side = r.side /\ ~timed.reaper /\ ~timed.tick /\ timed.tries = 0
      /\ timed.proc = "none" /\ ~timed.put /\ timed.stage = "started" /\ ~timed.done
      /\ ~timed.fed /\ ~timed.detached
  BY <1>1, <1>2, <1>3 DEF ConnectionRecords
<1>6. Core(timed)
  BY <1>4, <1>5 DEF Core
<1>7. PICK sides : sides = [s \in Sides |-> IF s = "stdio" \/ HasDiag(c) THEN "open" ELSE "none"]
  OBVIOUS
<1>8. sides \in [Sides -> {"none", "open", "closed"}] /\ sides["stdio"] = "open"
  BY <1>7 DEF Sides
<1>9. begun = [timed EXCEPT !.proc = "running", !.side = sides]
  BY <1>7 DEF BegunOf
<1>10. begun \in ConnectionRecords
  <2>1. PICK forked : forked = [timed EXCEPT !.proc = "running"]
    OBVIOUS
  <2>2. forked \in ConnectionRecords
    BY <1>4, <2>1 DEF ConnectionRecords
  <2>3. begun = [forked EXCEPT !.side = sides]
    BY <1>9, <2>1
  <2> QED
    BY <1>8, <2>2, <2>3 DEF ConnectionRecords
<1>11. /\ begun.cause = None /\ begun.side = sides /\ ~begun.reaper /\ ~begun.tick /\ begun.tries = 0
       /\ ~begun.put /\ begun.stage = "started" /\ ~begun.done /\ ~begun.fed /\ ~begun.detached
  BY <1>4, <1>5, <1>9 DEF ConnectionRecords
<1>12. ~Noone(begun)
  BY <1>8, <1>11 DEF Noone, Open, Sides
<1>13. Core(begun)
  BY <1>8, <1>10, <1>11, <1>12 DEF Core
<1>14. Settled(begun)
  BY <1>11 DEF Settled
<1> QED
  BY <1>5, <1>6, <1>11, <1>13, <1>14

\* Listening for an attempt that begins.
LEMMA ListenConn ==
    ASSUME NEW cs \in [Conns -> ConnectionRecords], NEW ls, Listening(ls, cs), NEW c \in Conns,
           cs[c].stage # "started", NEW n, n.stage = "started"
    PROVE  Listening(Append(ls, <<"conn", c>>), [cs EXCEPT ![c] = n])
<1>1. PICK l : l = <<"conn", c>>
  OBVIOUS
<1>2. l \in Listeners /\ l[1] = "conn" /\ l[2] = c
  BY <1>1 DEF Listeners
<1>3. PICK ds : ds = [cs EXCEPT ![c] = n]
  OBVIOUS
<1>4. \A d \in Conns : ds[d] = IF d = c THEN n ELSE cs[d]
  BY <1>3
<1>5. ls \in Seq(Listeners) /\ Once(ls) /\ \A i \in 1..Len(ls) : ls[i] \in Listeners
  BY DEF Listening
<1>6. \A i \in 1..Len(ls) : ls[i] # l
  BY <1>2 DEF Listening
<1>7. PICK us : us = Append(ls, l)
  OBVIOUS
<1>8. /\ us \in Seq(Listeners) /\ Once(us)
      /\ \A i \in 1..Len(us) : us[i] = l \/ \E j \in 1..Len(ls) : us[i] = ls[j]
  BY <1>2, <1>5, <1>6, <1>7, ListenIs
<1>9. \A i \in 1..Len(ls) : /\ ds[ls[i][2]].stage = "started"
                            /\ ls[i][1] = "reaper" => ds[ls[i][2]].tries >= 1
  <2>1. SUFFICES ASSUME NEW i \in 1..Len(ls)
                 PROVE  /\ ds[ls[i][2]].stage = "started"
                        /\ ls[i][1] = "reaper" => ds[ls[i][2]].tries >= 1
    OBVIOUS
  <2>2. ls[i][2] \in Conns /\ cs[ls[i][2]].stage = "started"
    BY <1>5, <2>1 DEF Listeners, Listening
  <2> QED
    BY <1>4, <2>1, <2>2 DEF Listening
<1>10. ds[l[2]].stage = "started" /\ l[1] # "reaper"
  BY <1>2, <1>4
<1> QED
  BY <1>1, <1>3, <1>7, <1>8, <1>9, <1>10 DEF Listening

\* _async_connect()
LEMMA AsyncConnectStep ==
    ASSUME ConnectingInv, NEW c \in Conns, AsyncConnect(c)
    PROVE  ConnectingInv'
<1>1. PICK r : r = conn[c]
  OBVIOUS
<1>2. /\ Core(r) /\ Talk(c) /\ r.stage # "started" /\ r.stage = "queued" /\ hand = Idle
      /\ conn \in [Conns -> ConnectionRecords] /\ Listening(listeners, conn)
  BY <1>1 DEF ConnectingInv, ConnectingTypeOK, AsyncConnect
<1>3. PICK timed : timed = Timed(r)
  OBVIOUS
<1>4. PICK begun : begun = BegunOf(timed, c)
  OBVIOUS
<1>5. /\ Core(timed) /\ timed.stage = "started" /\ ~timed.done /\ ~timed.fed /\ timed.cause = None
      /\ Core(begun) /\ Settled(begun) /\ begun.stage = "started" /\ ~begun.done /\ ~begun.fed
  BY <1>2, <1>3, <1>4, TimedIs
<1>6. PICK ls : ls = Append(listeners, <<"conn", c>>)
  OBVIOUS
<1>7. PICK n : n = Fail(timed, c, "start")
  OBVIOUS
<1>8. Handled(timed, n) /\ n.done = timed.done /\ n.fed = timed.fed
  <2>1. "start" \in Causes
    BY DEF Causes
  <2> QED
    BY <1>5, <1>7, <2>1, FailIs
<1>9. UNCHANGED <<broker, hand, pipe, said, user>>
  BY DEF AsyncConnect
<1>10. /\ \/ /\ conn' = [conn EXCEPT ![c] = begun] /\ listeners' = ls
             /\ ends' = [ends EXCEPT ![c] = {s \in Sides : Open(begun, s)}]
          \/ /\ conn' = [conn EXCEPT ![c] = n]
             /\ listeners' = Relisten(ls, c, timed, conn'[c])
             /\ UNCHANGED ends
  BY <1>1, <1>3, <1>4, <1>6, <1>7 DEF AsyncConnect, Timed, BegunOf
<1>11. ASSUME NEW m, m \in {begun, n}, conn' = [conn EXCEPT ![c] = m], Listening(listeners', conn'),
              ends' \in [Conns -> SUBSET Sides]
       PROVE  ConnectingInv'
  <2>1. Core(m) /\ Settled(m) /\ m.stage = "started" /\ ~m.done /\ ~m.fed
    BY <1>5, <1>8, <1>11 DEF Handled
  <2>2. \A d \in Conns : conn'[d] = IF d = c THEN m ELSE conn[d]
    BY <1>2, <1>11
  <2>3. conn' \in [Conns -> ConnectionRecords]
    BY <1>2, <1>11, <2>1 DEF Core
  <2>4. \A d \in Conns : Core(conn'[d]) /\ Settled(conn'[d])
    BY <2>1, <2>2 DEF ConnectingInv
  <2>5. \A d \in Conns : Talk(d)'
    <3>1. SUFFICES ASSUME NEW d \in Conns PROVE Talk(d)'
      OBVIOUS
    <3>2. Talk(d)
      BY DEF ConnectingInv
    <3>3. /\ conn'[d].fed => "ec0" \in said[d]
          /\ conn'[d].done => "ec2" \in said[d] /\ pipe[d]["stdio"] = <<>>
      BY <2>1, <2>2, <3>2 DEF Talk
    <3> QED
      BY <1>9, <3>2, <3>3, TalkKept
  <2>6. \A d \in Conns : user'[d] = "idle" => conn'[d].stage = "none"
    BY <1>1, <1>2, <1>9, <2>2 DEF ConnectingInv
  <2>7. Attempted'
    BY <1>11, <2>3, <2>4, <2>5, <2>6 DEF Attempted, Core, Settled, Listening, Noone, Open, GaveUp
  <2> QED
    BY <1>2, <1>9, <1>11, <2>7, BetweenLines DEF ConnectingInv, ConnectingTypeOK, broker
<1>12. CASE /\ conn' = [conn EXCEPT ![c] = begun] /\ listeners' = ls
            /\ ends' = [ends EXCEPT ![c] = {s \in Sides : Open(begun, s)}]
  <2>1. Listening(listeners', conn')
    BY <1>1, <1>2, <1>5, <1>6, <1>12, ListenConn
  <2>2. ends' \in [Conns -> SUBSET Sides]
    BY <1>12 DEF ConnectingInv, ConnectingTypeOK
  <2> QED
    BY <1>11, <1>12, <2>1, <2>2
<1>13. CASE /\ conn' = [conn EXCEPT ![c] = n]
            /\ listeners' = Relisten(ls, c, timed, conn'[c])
            /\ UNCHANGED ends
  <2>1. PICK cs : cs = [conn EXCEPT ![c] = timed]
    OBVIOUS
  <2>2. Listening(ls, cs)
    BY <1>1, <1>2, <1>5, <1>6, <2>1, ListenConn
  <2>3. cs \in [Conns -> ConnectionRecords] /\ cs[c] = timed /\ conn'[c] = n
    BY <1>2, <1>5, <1>13, <2>1 DEF Core
  <2>4. /\ n \in ConnectionRecords /\ n.stage = "started" /\ (timed.tries >= 1 => n.tries >= 1)
        /\ n.tick => n.tries \in 1..MaxTries
    BY <1>5, <1>8 DEF Handled, Core
  <2>5. Listening(Relisten(ls, c, cs[c], n), [cs EXCEPT ![c] = n])
    BY <1>5, <2>2, <2>3, <2>4, RelistenIs
  <2>6. [cs EXCEPT ![c] = n] = conn'
    BY <1>2, <1>13, <2>1
  <2>7. Listening(listeners', conn')
    BY <1>13, <2>3, <2>5, <2>6
  <2>8. ends' \in [Conns -> SUBSET Sides]
    BY <1>13 DEF ConnectingInv, ConnectingTypeOK
  <2> QED
    BY <1>11, <1>13, <2>7, <2>8
<1> QED
  BY <1>10, <1>12, <1>13

\* A step that leaves attempts, and what their children wrote, alone.
LEMMA QuietStep ==
    ASSUME ConnectingInv, UNCHANGED <<conn, listeners, pipe, said, hand>>,
           phase' \in {"loop", "firing", "closing", "grace", "stopped"},
           hand # Idle => phase' = phase,
           at' \in 1..2 * Cardinality(Conns) + 1, alive' \in BOOLEAN,
           ends' \in [Conns -> SUBSET Sides],
           user' \in [Conns -> {"idle", "waiting", "woken", "returned", "raised"}],
           \A c \in Conns : user'[c] = "idle" => user[c] = "idle"
    PROVE  ConnectingInv'
<1>1. ConnectingTypeOK'
  BY DEF ConnectingInv, ConnectingTypeOK
<1>2. \A c \in Conns : Core(conn[c])' /\ Settled(conn[c])'
  BY DEF ConnectingInv, Core, Settled, Noone, Open, GaveUp
<1>3. \A c \in Conns : Talk(c)'
  BY DEF ConnectingInv, Talk
<1>4. hand' # Idle => Handling(hand)'
  BY DEF ConnectingInv, Handling
<1>5. \A c \in Conns : user'[c] = "idle" => conn'[c].stage = "none"
  BY DEF ConnectingInv
<1>6. Listening(listeners, conn)'
  BY DEF ConnectingInv, Listening
<1> QED
  BY <1>1, <1>2, <1>3, <1>4, <1>5, <1>6 DEF ConnectingInv

\* A step of one attempt that leaves what its streams said, and its outcome, alone.
LEMMA PatchStep ==
    ASSUME ConnectingInv, NEW c \in Conns, NEW n, conn' = [conn EXCEPT ![c] = n],
           Core(n), Settled(n), n.done = conn[c].done, n.fed = conn[c].fed, n.cause = conn[c].cause,
           n.tries = conn[c].tries, conn[c].stage = "started" => n.stage = "started",
           user'[c] = "idle" => n.stage = "none", \A d \in Conns \ {c} : user'[d] = user[d],
           UNCHANGED <<broker, listeners, hand, pipe, said>>,
           ends' \in [Conns -> SUBSET Sides],
           user' \in [Conns -> {"idle", "waiting", "woken", "returned", "raised"}]
    PROVE  ConnectingInv'
<1>1. conn \in [Conns -> ConnectionRecords] /\ n \in ConnectionRecords
  BY DEF ConnectingInv, ConnectingTypeOK, Core
<1>2. conn' \in [Conns -> ConnectionRecords] /\ \A d \in Conns : conn'[d] = IF d = c THEN n ELSE conn[d]
  BY <1>1
<1>3. \A d \in Conns : /\ conn'[d].done = conn[d].done /\ conn'[d].fed = conn[d].fed
                       /\ conn'[d].cause = conn[d].cause /\ conn'[d].tries = conn[d].tries
                       /\ conn[d].stage = "started" => conn'[d].stage = "started"
  BY <1>2
<1>4. ConnectingTypeOK'
  BY <1>2 DEF ConnectingInv, ConnectingTypeOK, broker
<1>5. \A d \in Conns : Core(conn'[d]) /\ Settled(conn'[d])
  BY <1>2 DEF ConnectingInv
<1>6. \A d \in Conns : Core(conn[d])' /\ Settled(conn[d])'
  BY <1>5 DEF Core, Settled, Noone, Open, GaveUp
<1>7. \A d \in Conns : Talk(d)'
  <2>1. SUFFICES ASSUME NEW d \in Conns PROVE Talk(d)'
    OBVIOUS
  <2>2. Talk(d)
    BY DEF ConnectingInv
  <2>3. /\ conn'[d].fed => "ec0" \in said[d]
        /\ conn'[d].done => "ec2" \in said[d] /\ pipe[d]["stdio"] = <<>>
    BY <1>3, <2>2 DEF Talk
  <2> QED
    BY <2>2, <2>3, TalkKept
<1>8. hand' # Idle => Handling(hand)'
  <2>1. SUFFICES ASSUME hand # Idle PROVE Handling(hand)'
    OBVIOUS
  <2>2. Handling(hand) /\ hand.conn \in Conns
    BY <2>1 DEF ConnectingInv, ConnectingTypeOK
  <2>3. PICK h : h = hand.conn
    OBVIOUS
  <2>4. /\ conn'[h].done = conn[h].done /\ conn'[h].cause = conn[h].cause
        /\ conn[h].stage = "started" => conn'[h].stage = "started"
    BY <1>3, <2>2, <2>3
  <2> QED
    BY <2>2, <2>3, <2>4 DEF Handling, broker
<1>9. \A d \in Conns : user'[d] = "idle" => conn'[d].stage = "none"
  BY <1>2 DEF ConnectingInv
<1>10. Listening(listeners, conn)'
  <2>1. Listening(listeners, conn)
    BY DEF ConnectingInv
  <2>2. \A i \in 1..Len(listeners) : /\ conn'[listeners[i][2]].stage = "started"
                                     /\ listeners[i][1] = "reaper" => conn'[listeners[i][2]].tries >= 1
    <3>1. SUFFICES ASSUME NEW i \in 1..Len(listeners)
                   PROVE  /\ conn'[listeners[i][2]].stage = "started"
                          /\ listeners[i][1] = "reaper" => conn'[listeners[i][2]].tries >= 1
      OBVIOUS
    <3>2. listeners[i][2] \in Conns
      BY <2>1, <3>1 DEF Listening, Listeners
    <3> QED
      BY <1>3, <2>1, <3>1, <3>2 DEF Listening
  <2> QED
    BY <2>1, <2>2 DEF Listening
<1> QED
  BY <1>4, <1>6, <1>7, <1>8, <1>9, <1>10 DEF ConnectingInv

\* Router.connect() on a thread of its own.
LEMMA ConnectStep == ASSUME ConnectingInv, NEW c \in Conns, Connect(c) PROVE ConnectingInv'
<1>1. PICK r : r = conn[c]
  OBVIOUS
<1>2. Core(r) /\ Settled(r) /\ r.stage = "none" /\ r \in ConnectionRecords
  BY <1>1 DEF Connect, ConnectingInv, Core
<1>3. PICK n : n = [r EXCEPT !.stage = "queued"]
  OBVIOUS
<1>4. n \in ConnectionRecords
  BY <1>2, <1>3 DEF ConnectionRecords
<1>5. /\ n.stage = "queued" /\ n.done = r.done /\ n.fed = r.fed /\ n.cause = r.cause /\ n.tries = r.tries
      /\ n.put = r.put /\ n.side = r.side /\ n.timer = r.timer /\ n.detached = r.detached
      /\ n.tick = r.tick /\ n.reaper = r.reaper /\ n.proc = r.proc
  BY <1>2, <1>3 DEF ConnectionRecords
<1>6. n = [New EXCEPT !.stage = n.stage]
  <2>1. r = [New EXCEPT !.stage = r.stage]
    BY <1>2 DEF Core
  <2>2. PICK w : w = New
    OBVIOUS
  <2>3. PICK v : v = [w EXCEPT !.stage = "none"]
    OBVIOUS
  <2>4. r = v
    BY <1>2, <2>1, <2>2, <2>3
  <2>5. [v EXCEPT !.stage = "queued"] = [w EXCEPT !.stage = "queued"]
    BY <2>2, <2>3 DEF New
  <2> QED
    BY <1>3, <1>5, <2>2, <2>4, <2>5
<1>7. Core(n)
  BY <1>2, <1>4, <1>5, <1>6 DEF Core, Noone, Open, GaveUp
<1>8. Settled(n)
  BY <1>2, <1>5 DEF Settled, Noone, Open
<1>9. conn' = [conn EXCEPT ![c] = n] /\ user' = [user EXCEPT ![c] = "waiting"]
  BY <1>1, <1>3 DEF Connect
<1>10. UNCHANGED <<broker, listeners, hand, pipe, said, ends>>
  BY DEF Connect, child
<1>11. /\ user' \in [Conns -> {"idle", "waiting", "woken", "returned", "raised"}]
       /\ user'[c] = "waiting" /\ \A d \in Conns \ {c} : user'[d] = user[d]
  BY <1>9 DEF ConnectingInv, ConnectingTypeOK
<1>12. ends' \in [Conns -> SUBSET Sides]
  BY <1>10 DEF ConnectingInv, ConnectingTypeOK
<1> QED
  BY <1>1, <1>2, <1>5, <1>7, <1>8, <1>9, <1>10, <1>11, <1>12, PatchStep

\* The child asks to be detached.
LEMMA OnDetachingStep == ASSUME ConnectingInv, NEW c \in Conns, OnDetaching(c) PROVE ConnectingInv'
<1>1. PICK r : r = conn[c]
  OBVIOUS
<1>2. Core(r) /\ Settled(r) /\ r.done /\ r \in ConnectionRecords
  BY <1>1 DEF OnDetaching, ConnectingInv, Core, Registered
<1>3. PICK n : n = [r EXCEPT !.detached = TRUE]
  OBVIOUS
<1>4. n \in ConnectionRecords
  BY <1>2, <1>3 DEF ConnectionRecords
<1>5. /\ n.stage = r.stage /\ n.done = r.done /\ n.fed = r.fed /\ n.cause = r.cause /\ n.tries = r.tries
      /\ n.put = r.put /\ n.side = r.side /\ n.timer = r.timer /\ n.detached
      /\ n.tick = r.tick /\ n.reaper = r.reaper /\ n.proc = r.proc
  BY <1>2, <1>3 DEF ConnectionRecords
<1>6. r.stage = "started"
  BY <1>2, BegunIs
<1>7. Core(n)
  BY <1>2, <1>4, <1>5, <1>6 DEF Core, Noone, Open
<1>8. Settled(n)
  BY <1>2, <1>5 DEF Settled, Noone, Open
<1>9. conn' = [conn EXCEPT ![c] = n]
  BY <1>1, <1>3 DEF OnDetaching
<1>10. UNCHANGED <<broker, listeners, hand, pipe, said, ends, user>>
  BY DEF OnDetaching, child
<1>11. user[c] = "idle" => r.stage = "none"
  BY <1>1 DEF ConnectingInv
<1> QED
  BY <1>1, <1>5, <1>6, <1>7, <1>8, <1>9, <1>10, <1>11, PatchStep DEF ConnectingInv, ConnectingTypeOK

\* The child exits.
LEMMA ExitStep == ASSUME ConnectingInv, NEW c \in Conns, Exit(c) PROVE ConnectingInv'
<1>1. PICK r : r = conn[c]
  OBVIOUS
<1>2. Core(r) /\ Settled(r) /\ r.proc = "running" /\ r \in ConnectionRecords
  BY <1>1 DEF Exit, ConnectingInv, Core
<1>3. PICK n : n = [r EXCEPT !.proc = "exited"]
  OBVIOUS
<1>4. n \in ConnectionRecords
  BY <1>2, <1>3 DEF ConnectionRecords
<1>5. /\ n.stage = r.stage /\ n.done = r.done /\ n.fed = r.fed /\ n.cause = r.cause /\ n.tries = r.tries
      /\ n.put = r.put /\ n.side = r.side /\ n.timer = r.timer /\ n.detached = r.detached
      /\ n.tick = r.tick /\ n.reaper = r.reaper /\ n.proc = "exited"
  BY <1>2, <1>3 DEF ConnectionRecords
<1>6. r.stage = "started"
  BY <1>2, BegunIs
<1>7. Core(n)
  BY <1>2, <1>4, <1>5, <1>6 DEF Core, Noone, Open, GaveUp
<1>8. Settled(n)
  BY <1>2, <1>5 DEF Settled, Noone, Open
<1>9. conn' = [conn EXCEPT ![c] = n] /\ ends' = [ends EXCEPT ![c] = @ \ {"stdio"}]
  BY <1>1, <1>3 DEF Exit
<1>10. UNCHANGED <<broker, listeners, hand, pipe, said, user>>
  BY DEF Exit
<1>11. user[c] = "idle" => r.stage = "none"
  BY <1>1 DEF ConnectingInv
<1>12. ends' \in [Conns -> SUBSET Sides]
  BY <1>9 DEF ConnectingInv, ConnectingTypeOK
<1> QED
  BY <1>1, <1>5, <1>6, <1>7, <1>8, <1>9, <1>10, <1>11, <1>12, PatchStep DEF ConnectingInv, ConnectingTypeOK

\* Callers that are answered, the ends of children, and the start of a shutdown.
LEMMA OtherSteps ==
    ASSUME ConnectingInv,
           \/ \E c \in Conns : Wake(c) \/ Return(c) \/ DiagEnds(c)
           \/ BrokerShutdown \/ BeginFiring
           \/ UNCHANGED connectingVars
    PROVE  ConnectingInv'
<1>0. /\ user \in [Conns -> {"idle", "waiting", "woken", "returned", "raised"}]
      /\ ends \in [Conns -> SUBSET Sides] /\ alive \in BOOLEAN
      /\ phase \in {"loop", "firing", "closing", "grace", "stopped"}
      /\ at \in 1..2 * Cardinality(Conns) + 1 /\ Cardinality(Conns) \in Nat
  BY ConnectingAssumption, FS_CardinalityType DEF ConnectingInv, ConnectingTypeOK
<1>1. ASSUME NEW c \in Conns, Wake(c) \/ Return(c) PROVE ConnectingInv'
  <2>1. PICK u : u \in {"woken", "returned", "raised"} /\ user' = [user EXCEPT ![c] = u]
    BY <1>1 DEF Wake, Return
  <2>2. UNCHANGED <<broker, listeners, hand, conn, child>>
    BY <1>1 DEF Wake, Return
  <2>3. /\ user' \in [Conns -> {"idle", "waiting", "woken", "returned", "raised"}]
        /\ \A d \in Conns : user'[d] = "idle" => user[d] = "idle"
    BY <1>0, <2>1
  <2> QED
    BY <1>0, <2>2, <2>3, QuietStep DEF broker, child
<1>2. ASSUME NEW c \in Conns, DiagEnds(c) PROVE ConnectingInv'
  <2>1. UNCHANGED <<broker, listeners, hand, conn, pipe, said, user>> /\ ends' = [ends EXCEPT ![c] = @ \ {"diag"}]
    BY <1>2 DEF DiagEnds
  <2>2. ends' \in [Conns -> SUBSET Sides]
    BY <1>0, <2>1
  <2> QED
    BY <1>0, <2>1, <2>2, QuietStep DEF broker
<1>3. CASE BrokerShutdown
  BY <1>0, <1>3, QuietStep DEF BrokerShutdown, child
<1>4. CASE BeginFiring
  <2>1. 1 \in 1..2 * Cardinality(Conns) + 1
    BY <1>0
  <2> QED
    BY <1>0, <1>4, <2>1, QuietStep DEF BeginFiring, child
<1>5. CASE UNCHANGED connectingVars
  BY <1>0, <1>5, QuietStep DEF connectingVars, broker, child
<1> QED
  BY <1>1, <1>2, <1>3, <1>4, <1>5

\* A read.
LEMMA ReadStep ==
    ASSUME ConnectingInv, NEW c \in Conns, NEW s \in Sides, Read(c, s)
    PROVE  ConnectingInv'
<1>1. PICK ls : ls = pipe[c][s]
  OBVIOUS
<1>2. PICK h : h = [conn |-> c, side |-> s, lines |-> ls]
  OBVIOUS
<1>3. /\ phase \in {"loop", "grace"} /\ Open(conn[c], s) /\ ls # <<>>
      /\ hand' = h /\ pipe' = [pipe EXCEPT ![c][s] = <<>>]
      /\ UNCHANGED <<broker, listeners, conn, said, ends, user>>
  BY <1>1, <1>2 DEF Read, Looping
<1>4. pipe \in [Conns -> [Sides -> Seq(Lines)]] /\ ls \in Seq(Lines)
  BY <1>1 DEF ConnectingInv, ConnectingTypeOK
<1>5. /\ pipe' \in [Conns -> [Sides -> Seq(Lines)]]
      /\ \A d \in Conns : \A t \in Sides : pipe'[d][t] = IF d = c /\ t = s THEN <<>> ELSE pipe[d][t]
  BY <1>3, <1>4
<1>6. Core(conn[c]) /\ Settled(conn[c]) /\ Talk(c)
  BY DEF ConnectingInv
<1>7. conn[c].stage = "started"
  BY <1>3, <1>6, BegunIs
<1>8. h.conn = c /\ h.side = s /\ h.lines = ls /\ h \in [conn : Conns, side : Sides, lines : Seq(Lines)]
  BY <1>2, <1>4
<1>9. ConnectingTypeOK'
  BY <1>3, <1>5, <1>8 DEF ConnectingInv, ConnectingTypeOK, broker
<1>10. \A d \in Conns : Core(conn[d])' /\ Settled(conn[d])'
  BY <1>3 DEF ConnectingInv, Core, Settled, Noone, Open, GaveUp
<1>11. \A d \in Conns : Talk(d)'
  <2>1. SUFFICES ASSUME NEW d \in Conns PROVE Talk(d)'
    OBVIOUS
  <2>2. Talk(d)
    BY DEF ConnectingInv
  <2>3. \A t \in Sides : On(pipe'[d][t]) \subseteq On(pipe[d][t])
    <3>1. SUFFICES ASSUME NEW t \in Sides PROVE On(pipe'[d][t]) \subseteq On(pipe[d][t])
      OBVIOUS
    <3>2. CASE d = c /\ t = s
      <4>1. pipe'[d][t] = <<>>
        BY <1>5, <3>2
      <4> QED
        BY <4>1, OnEmpty
    <3>3. CASE ~(d = c /\ t = s)
      BY <1>5, <3>3
    <3> QED
      BY <3>2, <3>3
  <2>4. \A t \in Sides : \A line \in On(pipe'[d][t]) : line \in said[d] /\ SideOf(d, line) = t
    BY <2>2, <2>3 DEF Talk
  <2>5. pipe[d]["stdio"] = <<>> => pipe'[d]["stdio"] = <<>>
    BY <1>5 DEF Sides
  <2> QED
    BY <1>3, <2>2, <2>4, <2>5 DEF Talk, On, SideOf
<1>12. Handling(h)'
  <2>1. \A line \in On(ls) : line \in said[c] /\ SideOf(c, line) = s
    BY <1>1, <1>6 DEF Talk
  <2>2. s = "stdio" => ~conn[c].done /\ pipe'[c]["stdio"] = <<>>
    BY <1>1, <1>3, <1>5, <1>6 DEF Talk, Sides
  <2>3. s = "diag" => ~(conn[c].done /\ conn[c].cause # None)
    BY <1>3, <1>6 DEF Settled
  <2> QED
    BY <1>3, <1>7, <1>8, <2>1, <2>2, <2>3 DEF Handling, broker, On, SideOf
<1>13. \A d \in Conns : user'[d] = "idle" => conn'[d].stage = "none"
  BY <1>3 DEF ConnectingInv
<1>14. Listening(listeners, conn)'
  BY <1>3 DEF ConnectingInv, Listening
<1> QED
  BY <1>3, <1>9, <1>10, <1>11, <1>12, <1>13, <1>14 DEF ConnectingInv

\* A line written.
LEMMA SayStep ==
    ASSUME ConnectingInv, NEW c \in Conns, NEW line \in Lines, Say(c, line)
    PROVE  ConnectingInv'
<1>1. PICK s : s = SideOf(c, line)
  OBVIOUS
<1>2. s \in Sides
  BY <1>1 DEF SideOf, Sides
<1>3. PICK ls : ls = pipe[c][s]
  OBVIOUS
<1>4. /\ said' = [said EXCEPT ![c] = @ \cup {line}]
      /\ pipe' = [pipe EXCEPT ![c][s] = Append(ls, line)]
      /\ UNCHANGED <<broker, listeners, hand, conn, ends, user>>
      /\ line \notin said[c]
      /\ line = "ec2" => conn[c].fed
      /\ s = "stdio" /\ line \notin {"ec0", "ec2"} => "ec0" \notin said[c]
  BY <1>1, <1>3 DEF Say, May
<1>5. /\ pipe \in [Conns -> [Sides -> Seq(Lines)]] /\ ls \in Seq(Lines)
      /\ said \in [Conns -> SUBSET Lines]
  BY <1>2, <1>3 DEF ConnectingInv, ConnectingTypeOK
<1>6. Append(ls, line) \in Seq(Lines) /\ On(Append(ls, line)) = On(ls) \cup {line}
  BY <1>5, OnAppend
<1>7. PICK us : us = Append(ls, line)
  OBVIOUS
<1>8. /\ pipe' \in [Conns -> [Sides -> Seq(Lines)]]
      /\ \A d \in Conns : \A t \in Sides : pipe'[d][t] = IF d = c /\ t = s THEN us ELSE pipe[d][t]
      /\ said' \in [Conns -> SUBSET Lines]
      /\ \A d \in Conns : said'[d] = IF d = c THEN said[d] \cup {line} ELSE said[d]
  BY <1>2, <1>4, <1>5, <1>6, <1>7
<1>9. Talk(c)
  BY DEF ConnectingInv
\* Once a child said MITO002 it writes on stdio no more.
<1>10. "ec2" \in said[c] => s # "stdio"
  BY <1>4, <1>9 DEF Talk
<1>11. ConnectingTypeOK'
  BY <1>4, <1>8 DEF ConnectingInv, ConnectingTypeOK, broker
<1>12. \A d \in Conns : Core(conn[d])' /\ Settled(conn[d])'
  BY <1>4 DEF ConnectingInv, Core, Settled, Noone, Open, GaveUp
<1>13. \A d \in Conns : Talk(d)'
  <2>1. SUFFICES ASSUME NEW d \in Conns PROVE Talk(d)'
    OBVIOUS
  <2>2. Talk(d)
    BY DEF ConnectingInv
  <2>3. \A t \in Sides : \A x \in On(pipe'[d][t]) : x \in said'[d] /\ SideOf(d, x) = t
    <3>1. SUFFICES ASSUME NEW t \in Sides, NEW x \in On(pipe'[d][t])
                   PROVE  x \in said'[d] /\ SideOf(d, x) = t
      OBVIOUS
    <3>2. CASE d = c /\ t = s
      <4>1. On(pipe'[d][t]) = On(ls) \cup {line}
        BY <1>6, <1>7, <1>8, <3>2
      <4>2. x \in On(pipe[d][t]) \/ x = line
        BY <1>3, <3>1, <3>2, <4>1
      <4> QED
        BY <1>1, <1>8, <2>2, <3>2, <4>2 DEF Talk
    <3>3. CASE ~(d = c /\ t = s)
      <4>1. x \in On(pipe[d][t])
        BY <1>8, <3>1, <3>3
      <4> QED
        BY <1>8, <2>2, <4>1 DEF Talk
    <3> QED
      BY <3>2, <3>3
  <2>4. conn[d].fed => "ec0" \in said'[d]
    BY <1>8, <2>2 DEF Talk
  <2>5. "ec2" \in said'[d] => "ec0" \in said'[d]
    BY <1>4, <1>8, <2>2 DEF Talk
  <2>6. conn[d].done => "ec2" \in said'[d] /\ pipe'[d]["stdio"] = <<>>
    BY <1>8, <1>10, <2>2 DEF Talk, Sides
  <2> QED
    BY <1>4, <2>3, <2>4, <2>5, <2>6 DEF Talk, On, SideOf
<1>14. hand' # Idle => Handling(hand)'
  <2>1. SUFFICES ASSUME hand # Idle PROVE Handling(hand)'
    BY <1>4
  <2>2. Handling(hand) /\ hand.conn \in Conns /\ hand.side \in Sides
    BY <2>1 DEF ConnectingInv, ConnectingTypeOK
  <2>3. PICK h : h = hand.conn
    OBVIOUS
  <2>4. \A x \in On(hand.lines) : x \in said'[h] /\ SideOf(h, x) = hand.side
    BY <1>8, <2>2, <2>3 DEF Handling
  <2>5. hand.side = "stdio" /\ "ec2" \in On(hand.lines) => pipe'[h]["stdio"] = <<>>
    <3>1. SUFFICES ASSUME hand.side = "stdio", "ec2" \in On(hand.lines) PROVE pipe'[h]["stdio"] = <<>>
      OBVIOUS
    <3>2. pipe[h]["stdio"] = <<>> /\ "ec2" \in said[h]
      BY <2>2, <2>3, <3>1 DEF Handling
    <3> QED
      BY <1>8, <1>10, <2>2, <2>3, <3>2 DEF Sides
  <2> QED
    BY <1>4, <2>2, <2>3, <2>4, <2>5 DEF Handling, broker, On, SideOf
<1>15. \A d \in Conns : user'[d] = "idle" => conn'[d].stage = "none"
  BY <1>4 DEF ConnectingInv
<1>16. Listening(listeners, conn)'
  BY <1>4 DEF ConnectingInv, Listening
<1> QED
  BY <1>11, <1>12, <1>13, <1>14, <1>15, <1>16 DEF ConnectingInv

----------------------------------------------------------------------------
(* Theorems.                                                               *)

\* The initial state.
LEMMA ConnectingInitInv == ConnectingInit => ConnectingInv
<1>1. SUFFICES ASSUME ConnectingInit PROVE ConnectingInv
  OBVIOUS
<1>2. New \in ConnectionRecords
  BY ConnectingAssumption DEF New, ConnectionRecords
<1>3. New = [New EXCEPT !.stage = New.stage]
  BY DEF New
<1>4. \A c \in Conns : conn[c] = New
  BY <1>1 DEF ConnectingInit
<1>5. Core(New) /\ Settled(New) /\ ~New.done /\ ~New.fed /\ New.stage = "none"
  <2>1. /\ ~New.done /\ ~New.fed /\ New.stage = "none" /\ ~New.detached /\ ~New.tick /\ New.tries = 0
        /\ New.proc = "none" /\ ~New.reaper /\ ~New.put /\ New.cause = None
    BY DEF New
  <2> QED
    BY <1>2, <1>3, <2>1 DEF Core, Settled
<1>6. \A c \in Conns : Talk(c)
  <2>1. SUFFICES ASSUME NEW c \in Conns PROVE Talk(c)
    OBVIOUS
  <2>2. said[c] = {} /\ \A s \in Sides : pipe[c][s] = <<>>
    BY <1>1 DEF ConnectingInit
  <2>3. \A s \in Sides : On(pipe[c][s]) = {}
    BY <2>2, OnEmpty
  <2> QED
    BY <1>4, <1>5, <2>2, <2>3 DEF Talk
<1>7. Listening(listeners, conn)
  <2>1. listeners = <<>>
    BY <1>1 DEF ConnectingInit
  <2> QED
    BY <2>1 DEF Listening, Once
<1>8. ConnectingTypeOK
  <2>1. 1 \in 1..2 * Cardinality(Conns) + 1
    BY ConnectingAssumption, FS_CardinalityType
  <2> QED
    BY <1>1, <1>2, <2>1 DEF ConnectingInit, ConnectingTypeOK
<1>9. hand = Idle /\ \A c \in Conns : user[c] = "idle" => conn[c].stage = "none"
  BY <1>1, <1>4, <1>5 DEF ConnectingInit
<1> QED
  BY <1>4, <1>5, <1>6, <1>7, <1>8, <1>9 DEF ConnectingInv

\* Every step keeps the invariant.
LEMMA ConnectingStep == ConnectingInv /\ [ConnectingNext]_connectingVars => ConnectingInv'
<1>1. SUFFICES ASSUME ConnectingInv, [ConnectingNext]_connectingVars PROVE ConnectingInv'
  OBVIOUS
<1>2. CASE \E c \in Conns : AsyncConnect(c) \/ Expire(c) \/ ReapAgain(c)
  BY <1>1, <1>2, AsyncConnectStep, ExpireStep, ReapAgainStep
<1>3. CASE \E c \in Conns : \E s \in Sides : Read(c, s) \/ ReadEof(c, s)
  BY <1>1, <1>3, ReadStep, ReadEofStep
<1>4. CASE Hear \/ BeginFiring \/ FireOne \/ CloseStreams \/ Stop
  BY <1>1, <1>4, HearStep, OtherSteps, FireOneStep, CloseStreamsStep, StopStep
<1>5. CASE \E c \in Conns : Connect(c) \/ OnDetaching(c) \/ Exit(c)
  BY <1>1, <1>5, ConnectStep, OnDetachingStep, ExitStep
<1>6. CASE \E c \in Conns : \E line \in Lines : Say(c, line)
  BY <1>1, <1>6, SayStep
<1>7. CASE \/ \E c \in Conns : Wake(c) \/ Return(c) \/ DiagEnds(c)
           \/ BrokerShutdown \/ UNCHANGED connectingVars
  BY <1>1, <1>7, OtherSteps
<1> QED
  BY <1>1, <1>2, <1>3, <1>4, <1>5, <1>6, <1>7 DEF ConnectingNext, BrokerStep

\* The invariant holds of every behaviour.
THEOREM ConnectingInvariance == ConnectingSpec => []ConnectingInv
BY ConnectingInitInv, ConnectingStep, PTL DEF ConnectingSpec

\* Attempts, listeners, pipes and callers are of their types.
THEOREM ConnectingTypeCorrect == ConnectingSpec => []ConnectingTypeOK
<1>1. ConnectingInv => ConnectingTypeOK
  BY DEF ConnectingInv
<1> QED
  BY <1>1, ConnectingInvariance, PTL

\* NothingLeft: a failure that is told leaves no open stream, and no process without
\* a Reaper, whatever the child wrote and whenever it exited, however attempts, the
\* timeout and the shutdown of the broker interleave (_fail_connection(), Reaper).
THEOREM FailuresLeaveNothing == ConnectingSpec => []NothingLeft
<1>1. ConnectingInv => NothingLeft
  <2>1. SUFFICES ASSUME ConnectingInv, NEW c \in Conns, conn[c].put, ~conn[c].done
                 PROVE  (\A s \in Sides : ~Open(conn[c], s)) /\ ~Unattended(conn[c])
    BY DEF NothingLeft
  <2>2. Core(conn[c]) /\ Settled(conn[c])
    BY <2>1 DEF ConnectingInv
  <2>3. Noone(conn[c])
    BY <2>1, <2>2 DEF Settled
  <2>4. ~conn[c].detached
    BY <2>1, <2>2 DEF Core
  <2>5. ~Unattended(conn[c])
    BY <2>2, <2>3, <2>4 DEF Core, Unattended
  <2> QED
    BY <2>3, <2>5 DEF Noone
<1> QED
  BY <1>1, ConnectingInvariance, PTL

\* What a step makes of the record of an attempt.
Stays(c) ==
    /\ conn[c].cause # None => conn'[c].cause = conn[c].cause
    /\ Registered(conn[c]) /\ ~Registered(conn'[c]) => "stdio" \notin ends[c] \/ phase # "loop"

\* A handler of one attempt keeps every first cause.
LEMMA HandlerStays ==
    ASSUME ConnectingInv, NEW c \in Conns, NEW n, Becomes(c, n), Handled(conn[c], n),
           Registered(conn[c]) /\ ~Registered(n) => "stdio" \notin ends[c] \/ phase # "loop"
    PROVE  \A d \in Conns : Stays(d)
<1>1. conn \in [Conns -> ConnectionRecords] /\ conn' = [conn EXCEPT ![c] = n]
  BY DEF Becomes, ConnectingInv, ConnectingTypeOK
<1>2. \A d \in Conns : conn'[d] = IF d = c THEN n ELSE conn[d]
  BY <1>1
<1>3. ASSUME NEW d \in Conns PROVE Stays(d)
  <2>1. CASE d = c
    BY <1>2, <2>1 DEF Stays, Handled
  <2>2. CASE d # c
    BY <1>2, <1>3, <2>2 DEF Stays
  <2> QED
    BY <2>1, <2>2
<1> QED
  BY <1>3

\* A line never takes a connection that was made from it.
LEMMA HearStays == ASSUME ConnectingInv, Hear PROVE \A d \in Conns : Stays(d)
<1>1. PICK c, line, r : c = hand.conn /\ line = Head(hand.lines) /\ r = conn[c]
  OBVIOUS
<1>2. /\ c \in Conns /\ line \in Lines
      /\ r.stage = "started" /\ (r.done => r.cause = None) /\ (r.done => line \notin {"ec0", "ec2"})
  BY <1>1, HearIs
<1>3. Core(r) /\ Settled(r)
  BY <1>1, <1>2 DEF ConnectingInv
<1>4. PICK n : n = Heard(r, c, line)
  OBVIOUS
<1>5. /\ Handled(r, n)
      /\ line \notin {"ec0", "ec2"} /\ r.done => n.side["stdio"] = r.side["stdio"]
  BY <1>2, <1>3, <1>4, HeardIs
<1>6. Registered(r) => Registered(n)
  BY <1>2, <1>5 DEF Registered, Open, Handled
<1>7. Becomes(c, n)
  BY <1>1, <1>4 DEF Hear
<1> QED
  BY <1>1, <1>2, <1>5, <1>6, <1>7, HandlerStays

\* What closes streams at shutdown keeps every first cause.
LEMMA ClosingStays ==
    ASSUME ConnectingInv, CloseStreams \/ Stop
    PROVE  \A d \in Conns : Stays(d)
<1>1. \A c \in Conns : Shrinks(conn[c], AskedToClose(c)) /\ Shrinks(conn[c], CloseBoth(conn[c], c))
  BY AskedIs, CloseBothIs DEF ConnectingInv
<1>2. \A c \in Conns : conn'[c] = AskedToClose(c) \/ conn'[c] = CloseBoth(conn[c], c)
  BY DEF CloseStreams, Stop
<1>3. \A c \in Conns : Shrinks(conn[c], conn'[c])
  BY <1>1, <1>2
<1>4. phase # "loop"
  BY DEF CloseStreams, Stop
<1>5. \A c \in Conns : conn[c].cause # None => conn'[c].cause = conn[c].cause
  BY <1>3 DEF Shrinks, Outcome
<1> QED
  BY <1>4, <1>5 DEF Stays

\* A change of one record that is not about its outcome.
LEMMA PatchStays ==
    ASSUME ConnectingInv, NEW c \in Conns, NEW n, conn' = [conn EXCEPT ![c] = n],
           conn[c].cause = None \/ n.cause = conn[c].cause,
           Registered(conn[c]) => Registered(n)
    PROVE  \A d \in Conns : Stays(d)
<1>1. conn \in [Conns -> ConnectionRecords]
  BY DEF ConnectingInv, ConnectingTypeOK
<1>2. \A d \in Conns : conn'[d] = IF d = c THEN n ELSE conn[d]
  BY <1>1
<1>3. ASSUME NEW d \in Conns PROVE Stays(d)
  <2>1. CASE d = c
    BY <1>2, <2>1 DEF Stays
  <2>2. CASE d # c
    BY <1>2, <1>3, <2>2 DEF Stays
  <2> QED
    BY <2>1, <2>2
<1> QED
  BY <1>3

\* An attempt that is queued, or begins, had no outcome.
LEMMA BeginStays ==
    ASSUME ConnectingInv, NEW c \in Conns, Connect(c) \/ AsyncConnect(c)
    PROVE  \A d \in Conns : Stays(d)
<1>1. PICK r : r = conn[c]
  OBVIOUS
<1>2. Core(r) /\ r.stage # "started"
  BY <1>1 DEF ConnectingInv, Connect, AsyncConnect
<1>3. r.cause = None /\ ~r.done
  BY <1>2, BegunIs
<1>4. \E n : conn' = [conn EXCEPT ![c] = n]
  <2>1. CASE Connect(c)
    BY <2>1 DEF Connect
  <2>2. CASE AsyncConnect(c)
    BY <2>2 DEF AsyncConnect
  <2> QED
    BY <2>1, <2>2
<1>5. PICK n : conn' = [conn EXCEPT ![c] = n]
  BY <1>4
<1>6. conn[c].cause = None /\ ~Registered(conn[c])
  BY <1>1, <1>3 DEF Registered
<1> QED
  BY <1>5, <1>6, PatchStays

\* What a child does is not an outcome yet.
LEMMA ChildStays ==
    ASSUME ConnectingInv, NEW c \in Conns, OnDetaching(c) \/ Exit(c)
    PROVE  \A d \in Conns : Stays(d)
<1>1. PICK r : r = conn[c]
  OBVIOUS
<1>2. r \in ConnectionRecords
  BY <1>1 DEF ConnectingInv, ConnectingTypeOK
<1>3. CASE OnDetaching(c)
  <2>1. PICK n : n = [r EXCEPT !.detached = TRUE]
    OBVIOUS
  <2>2. n.cause = r.cause /\ n.done = r.done /\ n.side = r.side
    BY <1>2, <2>1 DEF ConnectionRecords
  <2>3. conn' = [conn EXCEPT ![c] = n]
    BY <1>1, <1>3, <2>1 DEF OnDetaching
  <2>4. Registered(r) => Registered(n)
    BY <2>2 DEF Registered, Open
  <2> QED
    BY <1>1, <2>2, <2>3, <2>4, PatchStays
<1>4. CASE Exit(c)
  <2>1. PICK n : n = [r EXCEPT !.proc = "exited"]
    OBVIOUS
  <2>2. n.cause = r.cause /\ n.done = r.done /\ n.side = r.side
    BY <1>2, <2>1 DEF ConnectionRecords
  <2>3. conn' = [conn EXCEPT ![c] = n]
    BY <1>1, <1>4, <2>1 DEF Exit
  <2>4. Registered(r) => Registered(n)
    BY <2>2 DEF Registered, Open
  <2> QED
    BY <1>1, <2>2, <2>3, <2>4, PatchStays
<1> QED
  BY <1>3, <1>4

\* The outcome of every attempt in every step.
LEMMA StaysStep ==
    ASSUME ConnectingInv, [ConnectingNext]_connectingVars
    PROVE  \A d \in Conns : Stays(d)
<1>1. CASE \E c \in Conns : Expire(c) \/ ReapAgain(c) \/ \E s \in Sides : ReadEof(c, s)
  <2>1. PICK c \in Conns : Expire(c) \/ ReapAgain(c) \/ \E s \in Sides : ReadEof(c, s)
    BY <1>1
  <2>2. \E n : Handler(c, n) /\ (Registered(conn[c]) /\ ~Registered(n) => "stdio" \notin ends[c])
    <3>1. CASE Expire(c)
      BY <3>1, ExpireIs
    <3>2. CASE ReapAgain(c)
      <4>1. PICK n : Handler(c, n) /\ n.side = conn[c].side
        BY <3>2, ReapAgainIs
      <4>2. Registered(conn[c]) => Registered(n)
        BY <4>1 DEF Handler, Registered, Open
      <4> QED
        BY <4>1, <4>2
    <3>3. CASE \E s \in Sides : ReadEof(c, s)
      BY <3>3, ReadEofIs
    <3> QED
      BY <2>1, <3>1, <3>2, <3>3
  <2> QED
    BY <2>2, HandlerStays DEF Handler
<1>2. CASE FireOne
  <2>1. CASE at > Len(listeners)
    BY <1>2, <2>1 DEF FireOne, Stays
  <2>2. CASE ~(at > Len(listeners))
    <3>0. PICK c \in Conns : \E n : Handler(c, n)
      BY <1>2, <2>2, FireOneIs
    <3>1. PICK n : Handler(c, n)
      BY <3>0
    <3>2. phase # "loop"
      BY <1>2 DEF FireOne
    <3> QED
      BY <3>1, <3>2, HandlerStays DEF Handler
  <2> QED
    BY <2>1, <2>2
<1>3. CASE Hear
  BY <1>3, HearStays
<1>4. CASE CloseStreams \/ Stop
  BY <1>4, ClosingStays
<1>5. CASE \E c \in Conns : Connect(c) \/ AsyncConnect(c)
  BY <1>5, BeginStays
<1>6. CASE \E c \in Conns : OnDetaching(c) \/ Exit(c)
  BY <1>6, ChildStays
<1>7. CASE UNCHANGED conn
  BY <1>7 DEF Stays
<1>8. CASE \/ \E c \in Conns : \/ Wake(c) \/ Return(c) \/ DiagEnds(c) \/ (\E s \in Sides : Read(c, s))
                               \/ \E line \in Lines : Say(c, line)
           \/ BrokerShutdown \/ BeginFiring \/ UNCHANGED connectingVars
  BY <1>7, <1>8 DEF Wake, Return, DiagEnds, Read, Say, BrokerShutdown, BeginFiring, connectingVars
<1> QED
  BY <1>1, <1>2, <1>3, <1>4, <1>5, <1>6, <1>8 DEF ConnectingNext, BrokerStep

\* OutcomeStays: whatever fails because of a failure, and in whatever order timers,
\* lines, empty reads and the shutdown come, the first cause is the one that stays,
\* and a connection ends with its child or at shutdown only.
THEOREM OutcomesStay == ConnectingSpec => OutcomeStays
<1>1. ConnectingInv /\ [ConnectingNext]_connectingVars =>
        [\A c \in Conns : conn[c].cause # None => conn'[c].cause = conn[c].cause]_connectingVars
  BY StaysStep DEF Stays
<1>2. ConnectingInv /\ [ConnectingNext]_connectingVars =>
        [\A c \in Conns :
            Registered(conn[c]) /\ ~Registered(conn'[c]) =>
                "stdio" \notin ends[c] \/ phase # "loop"]_connectingVars
  BY StaysStep DEF Stays
<1> QED
  BY <1>1, <1>2, ConnectingInvariance, PTL DEF ConnectingSpec, OutcomeStays, FirstCauseStays, EstablishedStays
=============================================================================

-------------------------- MODULE PreviewCommandsProofs --------------------------
(***************************************************************************)
(* Theorems about PreviewCommands for every value of its constants: owners of   *)
(* selections last as long as the sockets of their connection, a call of          *)
(* apply_preview that reports success has the answer to its own command, and the   *)
(* context records what the page of one browser shows once answers have arrived.   *)
(***************************************************************************)
EXTENDS PreviewCommands, SequenceTheorems, FiniteSetTheorems, Integers, TLAPS

-------------------------------------------------------------------------------
(* Sequences                                                               *)

\* What a sequence is after one more element.
LEMMA AppendFacts ==
    ASSUME NEW S, NEW s \in Seq(S), NEW e \in S
    PROVE  /\ Append(s, e) \in Seq(S)
           /\ Len(s) \in Nat
           /\ DOMAIN s = 1 .. Len(s)
           /\ Len(Append(s, e)) = Len(s) + 1
           /\ DOMAIN Append(s, e) = 1 .. (Len(s) + 1)
           /\ Append(s, e) # <<>>
           /\ \A i \in 1 .. Len(s) : Append(s, e)[i] = s[i]
           /\ Append(s, e)[Len(s) + 1] = e
OBVIOUS

\* What a sequence is after a change of one element.
LEMMA ExceptFacts ==
    ASSUME NEW S, NEW s \in Seq(S), NEW c \in DOMAIN s, NEW e \in S
    PROVE  /\ [s EXCEPT ![c] = e] \in Seq(S)
           /\ DOMAIN [s EXCEPT ![c] = e] = DOMAIN s
           /\ Len([s EXCEPT ![c] = e]) = Len(s)
OBVIOUS

\* A function on the places of a sequence is a sequence of the same length.
LEMMA PlacesFacts ==
    ASSUME NEW S, NEW T, NEW s \in Seq(S), NEW t \in [DOMAIN s -> T]
    PROVE  /\ t \in Seq(T)
           /\ DOMAIN t = DOMAIN s
           /\ Len(t) = Len(s)
<1>1. DOMAIN s = 1 .. Len(s) /\ Len(s) \in Nat
    OBVIOUS
<1> QED BY <1>1

\* What is left of a sequence when its first element has been taken.
LEMMA TailFacts ==
    ASSUME NEW S, NEW s \in Seq(S), s # <<>>
    PROVE  /\ Len(s) \in Nat \ {0}
           /\ Head(s) = s[1]
           /\ Tail(s) \in Seq(S)
           /\ Len(Tail(s)) = Len(s) - 1
           /\ \A i \in 1 .. (Len(s) - 1) : Tail(s)[i] = s[i + 1]
           /\ \A i \in 1 .. Len(s) : s[i] \in S
           /\ Tail(s) = <<>> <=> Len(s) = 1
<1>1. Len(s) \in Nat \ {0} /\ Head(s) = s[1]
    OBVIOUS
<1>2. Tail(s) \in Seq(S) /\ Len(Tail(s)) = Len(s) - 1
    OBVIOUS
<1>3. \A i \in 1 .. (Len(s) - 1) : Tail(s)[i] = s[i + 1]
    OBVIOUS
<1>4. \A i \in 1 .. Len(s) : s[i] \in S
    OBVIOUS
<1>5. Tail(s) = <<>> <=> Len(s) = 1
    <2>1. Tail(s) = <<>> <=> Len(Tail(s)) = 0
        BY <1>2, EmptySeq
    <2> QED BY <1>1, <1>2, <2>1
<1> QED BY <1>1, <1>2, <1>3, <1>4, <1>5

\* What is left of a sequence when some of its first elements are lost.
LEMMA SuffixFacts ==
    ASSUME NEW S, NEW s \in Seq(S), NEW k \in 0 .. Len(s)
    PROVE  /\ SubSeq(s, k + 1, Len(s)) \in Seq(S)
           /\ Len(SubSeq(s, k + 1, Len(s))) = Len(s) - k
           /\ \A i \in 1 .. (Len(s) - k) : SubSeq(s, k + 1, Len(s))[i] = s[k + i]
<1>1. Len(s) \in Nat /\ k \in Nat /\ \A i \in (k + 1) .. Len(s) : s[i] \in S
    OBVIOUS
<1>2. /\ SubSeq(s, k + 1, Len(s)) \in Seq(S)
      /\ Len(SubSeq(s, k + 1, Len(s))) =
            IF k + 1 <= Len(s) THEN Len(s) - (k + 1) + 1 ELSE 0
      /\ \A i \in 1 .. (Len(s) - (k + 1) + 1) :
            SubSeq(s, k + 1, Len(s))[i] = s[(k + 1) + i - 1]
    <2>1. k + 1 \in Int /\ Len(s) \in Int
        BY <1>1
    <2> QED BY <1>1, <2>1, SubSeqProperties
<1> QED BY <1>1, <1>2

-------------------------------------------------------------------------------
(* Types                                                                   *)

Socket == [of : Connections, state : {"open", "closing", "gone"}]
Result == [ok : BOOLEAN, value : Nat]
Call == [session : Sessions, id : RequestIds, selection : Selections, value : Nat,
         state : {"waiting", "ended"}, result : Result, timer : BOOLEAN,
         owner : Connections \cup {None}]
Entry == [key : Sessions \X RequestIds, result : Result]
Command == [socket : Nat, id : RequestIds, selection : Selections, value : Nat]
Answer == [id : RequestIds, ok : BOOLEAN, value : Nat]

\* The types of sockets, owners and waiting requests.
HubTypeOK ==
    /\ sockets \in Seq(Socket)
    /\ creating \in SUBSET (Selections \X Connections)
    /\ owners \in [Selections -> Connections \cup {None}]

\* What the sockets are after the state of one has changed.
LEMMA StateFacts ==
    ASSUME HubTypeOK, NEW s \in Sockets, NEW state \in {"open", "closing", "gone"}
    PROVE  LET after == [sockets EXCEPT ![s].state = state]
           IN  /\ after \in Seq(Socket)
               /\ DOMAIN after = DOMAIN sockets
               /\ after[s].state = state
               /\ \A t \in DOMAIN sockets :
                     /\ after[t].of = sockets[t].of
                     /\ t # s => after[t] = sockets[t]
<1> DEFINE socket == [sockets[s] EXCEPT !.state = state]
<1>1. s \in DOMAIN sockets /\ sockets[s] \in Socket
    BY DEF HubTypeOK, Sockets
<1>2. socket \in Socket /\ socket.of = sockets[s].of /\ socket.state = state
    BY <1>1 DEF Socket
<1>3. [sockets EXCEPT ![s].state = state] = [sockets EXCEPT ![s] = socket]
    BY <1>1
<1> HIDE DEF socket
<1>4. /\ [sockets EXCEPT ![s] = socket] \in Seq(Socket)
      /\ DOMAIN [sockets EXCEPT ![s] = socket] = DOMAIN sockets
    BY <1>1, <1>2, ExceptFacts DEF HubTypeOK
<1>5. /\ [sockets EXCEPT ![s] = socket][s] = socket
      /\ \A t \in DOMAIN sockets : t # s => [sockets EXCEPT ![s] = socket][t] = sockets[t]
    BY <1>1
<1> QED BY <1>2, <1>3, <1>4, <1>5

\* A step of the sockets and the requests keeps the types of what it writes.
LEMMA StepHubType ==
    ASSUME HubTypeOK, [Next]_vars
    PROVE  HubTypeOK'
<1> USE DEF HubTypeOK, hubVars
<1>1. ASSUME NEW c \in Connections, Bind(c)
      PROVE  HubTypeOK'
    <2>1. [of |-> c, state |-> "open"] \in Socket
        BY DEF Socket
    <2> QED BY <1>1, <2>1, AppendFacts DEF Bind
<1>2. ASSUME NEW s \in Sockets, Lose(s)
      PROVE  HubTypeOK'
    BY <1>2, StateFacts DEF Lose
<1>3. ASSUME NEW c \in Connections, Revoke(c)
      PROVE  HubTypeOK'
    <2>0. \A socket \in Socket : [socket EXCEPT !.state = "closing"] \in Socket
        BY DEF Socket
    <2>1. \A s \in Sockets : sockets[s] \in Socket /\ [sockets[s] EXCEPT !.state = "closing"] \in Socket
        BY <2>0 DEF Sockets
    <2>2. sockets' \in Seq(Socket)
        <3>1. sockets' \in [DOMAIN sockets -> Socket]
            BY <1>3, <2>1 DEF Revoke, Sockets
        <3> QED BY <3>1, PlacesFacts
    <2> QED BY <1>3, <2>2 DEF Revoke
<1>4. ASSUME NEW s \in Sockets, Closed(s)
      PROVE  HubTypeOK'
    <2>1. sockets' \in Seq(Socket)
        BY <1>4, StateFacts DEF Closed
    <2> QED BY <1>4, <2>1 DEF Closed
<1>5. ASSUME NEW s \in Sockets, NEW e \in Selections, CreateArrives(s, e)
      PROVE  HubTypeOK'
    <2>1. sockets[s].of \in Connections
        <3>1. sockets[s] \in Socket
            BY DEF Sockets
        <3> QED BY <3>1 DEF Socket
    <2>2. creating' = creating \cup {<<e, sockets[s].of>>} /\ UNCHANGED <<sockets, owners>>
        BY <1>5 DEF CreateArrives
    <2> QED BY <2>1, <2>2
<1>6. ASSUME NEW s \in Sockets, NEW e \in Selections, RemoveArrives(s, e)
      PROVE  HubTypeOK'
    BY <1>6 DEF RemoveArrives
<1>7. ASSUME NEW e \in Selections, NEW c \in Connections, CreateEnds(e, c)
      PROVE  HubTypeOK'
    BY <1>7 DEF CreateEnds
<1>8. CASE UNCHANGED hubVars
    BY <1>8
<1> QED
    BY <1>1, <1>2, <1>3, <1>4, <1>5, <1>6, <1>7, <1>8
    DEF Next, vars, LeavesContext, SendDraft, CallTool, Timeout, AnswerArrives,
        BrowserApplies, BrowserRefuses

\* Sockets, owners and waiting requests always have their types.
THEOREM PreviewHubTyped == Spec => []HubTypeOK
<1>1. Init => HubTypeOK
    BY DEF Init, HubTypeOK
<1>2. HubTypeOK /\ [Next]_vars => HubTypeOK'
    BY StepHubType
<1> QED BY <1>1, <1>2, PTL DEF Spec

-------------------------------------------------------------------------------
(* Owners and sockets                                                      *)

\* What happens to the owners in a step.
OwnersFollow ==
    \A e \in Selections, c \in Connections :
        owners[e] = c =>
            /\ Bound(c) # {} /\ Bound(c)' = {} => owners'[e] # c
            /\ Bound(c)' # {} /\ owners'[e] = None => e \notin drafted' \cup context'

\* Only the close of a connection's last socket leaves the connection without any,
\* and that drops its owners; otherwise an owner goes with its selection, or to
\* another browser that selects the same element.
LEMMA StepOwnersFollow ==
    ASSUME HubTypeOK, [Next]_vars
    PROVE  OwnersFollow
<1>0. None \notin Connections
    BY PreviewAssumption
<1>1. ASSUME UNCHANGED owners, \A c \in Connections : Bound(c) \subseteq Bound(c)'
      PROVE  OwnersFollow
    BY <1>0, <1>1 DEF OwnersFollow
<1>2. ASSUME NEW c \in Connections, Bind(c)
      PROVE  OwnersFollow
    <2>1. [of |-> c, state |-> "open"] \in Socket
        BY DEF Socket
    <2>2. \A s \in DOMAIN sockets : s \in DOMAIN sockets' /\ sockets'[s] = sockets[s]
        BY <1>2, <2>1, AppendFacts DEF Bind, HubTypeOK
    <2>3. \A d \in Connections : Bound(d) \subseteq Bound(d)'
        BY <2>2 DEF Bound, Sockets
    <2> QED BY <1>1, <1>2, <2>3 DEF Bind
<1>3. ASSUME NEW s \in Sockets, Lose(s)
      PROVE  OwnersFollow
    <2>1. /\ DOMAIN sockets' = DOMAIN sockets
          /\ \A t \in DOMAIN sockets : /\ sockets'[t].of = sockets[t].of
                                       /\ sockets[t].state # "gone" => sockets'[t].state # "gone"
        BY <1>3 DEF Lose, HubTypeOK, Socket, Sockets
    <2>2. \A d \in Connections : Bound(d) \subseteq Bound(d)'
        BY <2>1 DEF Bound, Sockets
    <2> QED BY <1>1, <1>3, <2>2 DEF Lose
<1>4. ASSUME NEW c \in Connections, Revoke(c)
      PROVE  OwnersFollow
    <2>1. /\ DOMAIN sockets' = DOMAIN sockets
          /\ \A t \in DOMAIN sockets : /\ sockets'[t].of = sockets[t].of
                                       /\ sockets[t].state # "gone" => sockets'[t].state # "gone"
        BY <1>4 DEF Revoke, HubTypeOK, Socket, Sockets
    <2>2. \A d \in Connections : Bound(d) \subseteq Bound(d)'
        BY <2>1 DEF Bound, Sockets
    <2> QED BY <1>1, <1>4, <2>2 DEF Revoke
<1>5. ASSUME NEW s \in Sockets, Closed(s)
      PROVE  OwnersFollow
    <2>1. /\ DOMAIN sockets' = DOMAIN sockets
          /\ \A t \in DOMAIN sockets : /\ sockets'[t].of = sockets[t].of
                                       /\ t # s => sockets'[t].state = sockets[t].state
        BY <1>5 DEF Closed, HubTypeOK, Socket, Sockets
    <2>2. \A c \in Connections : Bound(c) \ {s} \subseteq Bound(c)'
        BY <2>1 DEF Bound, Sockets
    <2>3. \A c \in Connections : s \in Bound(c) => c = sockets[s].of
        BY DEF Bound
    <2>4. ASSUME NEW e \in Selections, NEW c \in Connections, owners[e] = c
          PROVE  /\ Bound(c) # {} /\ Bound(c)' = {} => owners'[e] # c
                 /\ Bound(c)' # {} /\ owners'[e] = None => e \notin drafted' \cup context'
        <3>1. owners'[e] = IF Bound(sockets[s].of) = {s} /\ owners[e] = sockets[s].of
                           THEN None ELSE owners[e]
            BY <1>5 DEF Closed
        <3>2. CASE Bound(c) = {s}
            <4>1. owners'[e] = None
                BY <2>3, <2>4, <3>1, <3>2
            <4>2. Bound(c)' = {}
                <5>1. sockets'[s].state = "gone"
                    BY <1>5, StateFacts DEF Closed
                <5> QED BY <2>1, <3>2, <5>1 DEF Bound, Sockets
            <4> QED BY <1>0, <4>1, <4>2
        <3>3. CASE Bound(c) # {s}
            <4>1. owners'[e] = c
                BY <2>3, <2>4, <3>1, <3>3
            <4>2. Bound(c) # {} => Bound(c)' # {}
                BY <2>2, <3>3
            <4> QED BY <1>0, <4>1, <4>2
        <3> QED BY <3>2, <3>3
    <2> QED BY <2>4 DEF OwnersFollow
<1>6. ASSUME NEW s \in Sockets, NEW e \in Selections, RemoveArrives(s, e)
      PROVE  OwnersFollow
    BY <1>0, <1>6 DEF RemoveArrives, OwnersFollow, HubTypeOK, Bound, Sockets
<1>7. ASSUME NEW e \in Selections, NEW c \in Connections, CreateEnds(e, c)
      PROVE  OwnersFollow
    BY <1>0, <1>7 DEF CreateEnds, OwnersFollow, HubTypeOK, Bound, Sockets
<1>8. CASE UNCHANGED <<sockets, owners>>
    BY <1>1, <1>8 DEF Bound, Sockets
<1> QED
    BY <1>2, <1>3, <1>4, <1>5, <1>6, <1>7, <1>8
    DEF Next, vars, hubVars, CreateArrives, LeavesContext, SendDraft, CallTool, Timeout,
        AnswerArrives, BrowserApplies, BrowserRefuses

\* The owner of a selection is dropped with the last socket of its connection, and
\* before that only with the selection or for another owner.
THEOREM OwnersFollowSockets == Spec => OwnersDropWithLastSocket
<1>1. HubTypeOK /\ [Next]_vars => [OwnersFollow]_vars
    BY StepOwnersFollow
<1> QED
    BY <1>1, PreviewHubTyped, PTL DEF Spec, OwnersDropWithLastSocket, OwnersFollow

-------------------------------------------------------------------------------
(* Calls and their answers                                                 *)

Key(call) == <<call.session, call.id>>
WaitingCalls == {n \in DOMAIN calls : calls[n].timer}

\* The request id was sent to a browser with this value.
AskedIn(cs, id, value) ==
    \E n \in DOMAIN cs : cs[n].id = id /\ cs[n].owner # None /\ cs[n].value = value

\* The books of the calls: a call waits as long as its timer runs; a request id
\* waits for a call of its own; results are remembered of ended calls only, so until
\* DedupMax calls have been made none is forgotten; and then no request id is sent
\* twice.
TimersInv ==
    /\ \A n \in DOMAIN calls :
          /\ calls[n].timer <=> calls[n].state = "waiting"
          /\ calls[n].timer => calls[n].owner # None
    /\ \A id \in RequestIds :
          pending[id] # 0 => calls[pending[id]].id = id /\ calls[pending[id]].timer

MemoryInv ==
    /\ Len(recent) + Cardinality(WaitingCalls) <= Len(calls)
    /\ Len(calls) <= DedupMax =>
          \A n \in DOMAIN calls :
              ~calls[n].timer => \E i \in DOMAIN recent : recent[i].key = Key(calls[n])

SentOnce ==
    Without({"sameid"}) =>
        \A m, n \in DOMAIN calls :
            m # n /\ calls[m].owner # None /\ calls[n].owner # None => calls[m].id # calls[n].id

\* What is on its way belongs to a call.
MessagesInv ==
    /\ \A m \in commands : AskedIn(calls, m.id, m.value)
    /\ \A c \in Connections : \A i \in 1 .. Len(answers[c]) :
          answers[c][i].ok => AskedIn(calls, answers[c][i].id, answers[c][i].value)

BookTypeOK ==
    /\ calls \in Seq(Call)
    /\ pending \in [RequestIds -> Nat]
    /\ \A id \in RequestIds : pending[id] # 0 => pending[id] \in DOMAIN calls
    /\ recent \in Seq(Entry)

MessagesTypeOK ==
    /\ commands \in SUBSET Command
    /\ answers \in [Connections -> Seq(Answer)]

BookInv == BookTypeOK /\ TimersInv /\ MemoryInv /\ SentOnce /\ AnswersOwnCommand

\* What remember does: one result more at most, and none is forgotten below the bound.
LEMMA RememberedFacts ==
    ASSUME recent \in Seq(Entry), NEW call, call.session \in Sessions, call.id \in RequestIds,
           NEW result \in Result
    PROVE  LET after == Remembered(call, result)
           IN  /\ after \in Seq(Entry)
               /\ Len(after) <= Len(recent) + 1
               /\ Len(recent) < DedupMax =>
                     /\ \A i \in DOMAIN recent :
                           \E j \in DOMAIN after : after[j].key = recent[i].key
                     /\ \E j \in DOMAIN after : after[j].key = Key(call)
<1> DEFINE key == <<call.session, call.id>>
           entry == [key |-> key, result |-> result]
           has == {i \in DOMAIN recent : recent[i].key = key}
           overwritten == [i \in DOMAIN recent |-> IF i \in has THEN entry ELSE recent[i]]
           next == IF has # {} THEN overwritten ELSE Append(recent, entry)
<1>1. entry \in Entry /\ entry.key = key
    BY DEF Entry
<1>2. Len(recent) \in Nat /\ DOMAIN recent = 1 .. Len(recent) /\ \A i \in DOMAIN recent : recent[i] \in Entry
    OBVIOUS
<1>3. /\ next \in Seq(Entry)
      /\ Len(next) <= Len(recent) + 1
      /\ \A i \in DOMAIN recent : i \in DOMAIN next /\ next[i].key = recent[i].key
      /\ \E j \in DOMAIN next : next[j].key = key
    <2>1. CASE has # {}
        <3>1. overwritten \in [DOMAIN recent -> Entry]
            <4> HIDE DEF entry, has
            <4> QED BY <1>1, <1>2
        <3>2. overwritten \in Seq(Entry) /\ DOMAIN overwritten = DOMAIN recent /\ Len(overwritten) = Len(recent)
            <4>1. recent \in Seq(Entry)
                OBVIOUS
            <4> HIDE DEF overwritten
            <4> QED BY <3>1, <4>1, PlacesFacts
        <3>3. \A i \in DOMAIN recent : overwritten[i].key = recent[i].key
            <4> HIDE DEF entry
            <4> QED BY <1>1
        <3>4. PICK j \in DOMAIN recent : recent[j].key = key
            BY <2>1
        <3> HIDE DEF overwritten
        <3> QED BY <1>2, <2>1, <3>2, <3>3, <3>4
    <2>2. CASE has = {}
        <3> HIDE DEF entry, has
        <3> QED BY <1>1, <1>2, <2>2, AppendFacts
    <2> QED BY <2>1, <2>2
<1>4. Remembered(call, result) = IF Len(next) > DedupMax THEN Tail(next) ELSE next
    BY DEF Remembered
<1> HIDE DEF next
<1>5. DedupMax \in Nat \ {0} /\ Len(next) \in Nat
    BY <1>3, PreviewAssumption
<1>6. CASE Len(next) > DedupMax
    <2>1. next # <<>>
        BY <1>3, <1>5, <1>6, EmptySeq
    <2>2. Tail(next) \in Seq(Entry) /\ Len(Tail(next)) = Len(next) - 1
        BY <1>3, <2>1, TailFacts
    <2> QED BY <1>2, <1>3, <1>4, <1>5, <1>6, <2>2
<1>7. CASE ~(Len(next) > DedupMax)
    BY <1>3, <1>4, <1>7 DEF Key
<1> QED BY <1>6, <1>7

\* The calls that wait are finitely many.
LEMMA WaitingFinite ==
    ASSUME BookTypeOK
    PROVE  IsFiniteSet(WaitingCalls) /\ Cardinality(WaitingCalls) \in Nat /\ Len(calls) \in Nat
<1>1. Len(calls) \in Nat /\ WaitingCalls \in SUBSET (1 .. Len(calls))
    BY DEF BookTypeOK, WaitingCalls
<1>2. IsFiniteSet(1 .. Len(calls))
    BY <1>1, FS_Interval
<1> QED BY <1>1, <1>2, FS_Subset, FS_CardinalityType

\* A call that ends, by its answer or its timer, keeps the books.
LEMMA EndKeepsBook ==
    ASSUME BookInv, NEW n \in DOMAIN calls, calls[n].timer, NEW result \in Result,
           Ends(n, result), pending' = [pending EXCEPT ![calls[n].id] = 0], scenario' = scenario,
           Without({"sameid"}) /\ result.ok => result.value = calls[n].value
    PROVE  /\ BookInv'
           /\ \A id, value : AskedIn(calls, id, value) => AskedIn(calls', id, value)
<1> DEFINE ended == [calls[n] EXCEPT !.timer = FALSE, !.state = "ended", !.result = result]
<1>0. /\ BookTypeOK /\ Len(calls) \in Nat /\ Len(recent) \in Nat
      /\ DOMAIN calls = 1 .. Len(calls) /\ \A m \in DOMAIN calls : calls[m] \in Call
    BY DEF BookInv, BookTypeOK
<1>1. /\ ended \in Call
      /\ ended.session = calls[n].session /\ ended.id = calls[n].id
      /\ ended.value = calls[n].value /\ ended.owner = calls[n].owner
      /\ ended.state = "ended" /\ ended.timer = FALSE /\ ended.result = result
    BY <1>0 DEF Call
<1>2. calls' = [calls EXCEPT ![n] = ended]
    BY DEF Ends
<1> HIDE DEF ended
<1>3. /\ calls' \in Seq(Call) /\ DOMAIN calls' = DOMAIN calls /\ Len(calls') = Len(calls)
      /\ calls'[n] = ended
      /\ \A m \in DOMAIN calls : m # n => calls'[m] = calls[m]
    <2>1. calls' \in Seq(Call) /\ DOMAIN calls' = DOMAIN calls /\ Len(calls') = Len(calls)
        BY <1>0, <1>1, <1>2, ExceptFacts DEF BookTypeOK
    <2> QED BY <1>2, <2>1
<1>4. \A m \in DOMAIN calls : /\ calls'[m].session = calls[m].session /\ calls'[m].id = calls[m].id
                              /\ calls'[m].value = calls[m].value /\ calls'[m].owner = calls[m].owner
    BY <1>1, <1>3
<1>5. \A id, value : AskedIn(calls, id, value) => AskedIn(calls', id, value)
    BY <1>3, <1>4 DEF AskedIn
<1>6. /\ recent' \in Seq(Entry)
      /\ Len(recent') <= Len(recent) + 1
      /\ Len(recent) < DedupMax =>
            /\ \A i \in DOMAIN recent : \E j \in DOMAIN recent' : recent'[j].key = recent[i].key
            /\ \E j \in DOMAIN recent' : recent'[j].key = Key(calls[n])
    <2>1. calls[n].session \in Sessions /\ calls[n].id \in RequestIds /\ recent \in Seq(Entry)
        BY <1>0 DEF Call, BookTypeOK
    <2>2. recent' = Remembered(calls[n], result)
        BY DEF Ends
    <2>3. calls[n] \in Call /\ result \in Result
        BY <1>0
    <2> HIDE DEF Ends, BookInv
    <2> DEFINE after == Remembered(calls[n], result)
    <2>4. /\ after \in Seq(Entry)
          /\ Len(after) <= Len(recent) + 1
          /\ Len(recent) < DedupMax =>
                /\ \A i \in DOMAIN recent : \E j \in DOMAIN after : after[j].key = recent[i].key
                /\ \E j \in DOMAIN after : after[j].key = Key(calls[n])
        BY <2>1, <2>3, RememberedFacts
    <2>5. recent' = after
        BY <2>2
    <2> HIDE DEF after
    <2> QED BY <2>4, <2>5
<1>7. /\ pending' \in [RequestIds -> Nat] /\ calls[n].id \in RequestIds
      /\ \A id \in RequestIds : pending'[id] = IF id = calls[n].id THEN 0 ELSE pending[id]
    BY <1>0 DEF BookTypeOK, Call
<1>8. BookTypeOK'
    BY <1>0, <1>3, <1>6, <1>7 DEF BookTypeOK
<1>9. TimersInv'
    <2>1. \A m \in DOMAIN calls' : /\ calls'[m].timer <=> calls'[m].state = "waiting"
                                   /\ calls'[m].timer => calls'[m].owner # None
        BY <1>1, <1>3 DEF BookInv, TimersInv
    <2>2. ASSUME NEW id \in RequestIds, pending'[id] # 0
          PROVE  calls'[pending'[id]].id = id /\ calls'[pending'[id]].timer
        <3>1. /\ id # calls[n].id /\ pending'[id] = pending[id] /\ pending[id] \in DOMAIN calls
              /\ calls[pending[id]].id = id /\ calls[pending[id]].timer
            BY <1>0, <1>7, <2>2 DEF BookInv, TimersInv, BookTypeOK
        <3>2. pending[id] # n
            BY <3>1
        <3> QED BY <1>3, <3>1, <3>2
    <2> QED BY <2>1, <2>2 DEF TimersInv
<1>10. MemoryInv'
    <2>1. WaitingCalls' = WaitingCalls \ {n} /\ n \in WaitingCalls
        BY <1>1, <1>3 DEF WaitingCalls
    <2>2. Cardinality(WaitingCalls') = Cardinality(WaitingCalls) - 1 /\ Cardinality(WaitingCalls) \in Nat
        BY <1>0, <2>1, WaitingFinite, FS_RemoveElement
    <2>3. Cardinality(WaitingCalls) # 0
        BY <1>0, <2>1, WaitingFinite, FS_EmptySet
    <2>4. Len(recent) + Cardinality(WaitingCalls) <= Len(calls)
        BY DEF BookInv, MemoryInv
    <2>5. Len(recent') + Cardinality(WaitingCalls') <= Len(calls')
        <3>1. Len(recent') \in Nat
            BY <1>6
        <3> QED BY <1>0, <1>3, <1>6, <2>2, <2>4, <3>1
    <2>6. ASSUME Len(calls') <= DedupMax, NEW m \in DOMAIN calls', ~calls'[m].timer
          PROVE  \E i \in DOMAIN recent' : recent'[i].key = Key(calls'[m])
        <3>1. Len(recent) < DedupMax
            BY <1>0, <1>3, <2>2, <2>3, <2>4, <2>6, PreviewAssumption
        <3>2. Key(calls'[m]) = Key(calls[m])
            BY <1>3, <1>4 DEF Key
        <3>3. CASE m = n
            BY <1>6, <3>1, <3>2, <3>3
        <3>4. CASE m # n
            <4>1. PICK i \in DOMAIN recent : recent[i].key = Key(calls[m])
                BY <1>3, <2>6, <3>4 DEF BookInv, MemoryInv
            <4> QED BY <1>6, <3>1, <3>2, <4>1
        <3> QED BY <3>3, <3>4
    <2> QED BY <2>5, <2>6 DEF MemoryInv
<1>11. SentOnce'
    BY <1>3, <1>4 DEF BookInv, SentOnce, Without
<1>12. AnswersOwnCommand'
    BY <1>1, <1>3 DEF BookInv, AnswersOwnCommand, Without
<1> QED BY <1>5, <1>8, <1>9, <1>10, <1>11, <1>12 DEF BookInv

\* A call that is added keeps the books: one that waits has its request id to itself,
\* one that does not is remembered.
LEMMA AddKeepsBook ==
    ASSUME BookInv, NEW x \in Call, calls' = Append(calls, x), scenario' = scenario,
           x.timer <=> x.state = "waiting",
           x.timer => x.owner # None /\ ~x.result.ok,
           ~x.timer => x.owner = None,
           pending' = (IF x.timer THEN [pending EXCEPT ![x.id] = Len(calls')] ELSE pending),
           recent' \in Seq(Entry),
           IF x.timer THEN recent' = recent ELSE Len(recent') <= Len(recent) + 1,
           Len(recent) < DedupMax /\ ~x.timer =>
               /\ \A i \in DOMAIN recent : \E j \in DOMAIN recent' : recent'[j].key = recent[i].key
               /\ \E j \in DOMAIN recent' : recent'[j].key = Key(x),
           x.timer /\ Without({"sameid"}) =>
               \A n \in DOMAIN calls : calls[n].owner # None => calls[n].id # x.id
    PROVE  /\ BookInv'
           /\ \A id, value : AskedIn(calls, id, value) => AskedIn(calls', id, value)
           /\ x.timer => AskedIn(calls', x.id, x.value)
<1> DEFINE new == Len(calls) + 1
<1>0. /\ BookTypeOK /\ Len(calls) \in Nat /\ Len(recent) \in Nat /\ Len(recent') \in Nat
      /\ DOMAIN calls = 1 .. Len(calls) /\ \A m \in DOMAIN calls : calls[m] \in Call
    BY DEF BookInv, BookTypeOK
<1>1. /\ calls' \in Seq(Call) /\ DOMAIN calls' = 1 .. new /\ Len(calls') = new
      /\ calls'[new] = x
      /\ \A m \in DOMAIN calls : calls'[m] = calls[m]
    BY <1>0, AppendFacts DEF BookTypeOK
<1>2. new \in Nat /\ new \notin DOMAIN calls /\ DOMAIN calls' = DOMAIN calls \cup {new} /\ new # 0
    BY <1>0, <1>1
<1> HIDE DEF new
<1>3. \A id, value : AskedIn(calls, id, value) => AskedIn(calls', id, value)
    BY <1>1, <1>2 DEF AskedIn
<1>4. x.timer => AskedIn(calls', x.id, x.value)
    BY <1>1, <1>2 DEF AskedIn
<1>5. /\ pending' \in [RequestIds -> Nat] /\ x.id \in RequestIds
      /\ \A id \in RequestIds : pending'[id] = IF x.timer /\ id = x.id THEN new ELSE pending[id]
    BY <1>0, <1>1, <1>2 DEF BookTypeOK, Call
<1>6. BookTypeOK'
    BY <1>0, <1>1, <1>2, <1>5 DEF BookTypeOK
<1>7. TimersInv'
    <2>1. \A m \in DOMAIN calls' : /\ calls'[m].timer <=> calls'[m].state = "waiting"
                                   /\ calls'[m].timer => calls'[m].owner # None
        BY <1>1, <1>2 DEF BookInv, TimersInv
    <2>2. ASSUME NEW id \in RequestIds, pending'[id] # 0
          PROVE  calls'[pending'[id]].id = id /\ calls'[pending'[id]].timer
        <3>1. CASE x.timer /\ id = x.id
            BY <1>1, <1>5, <3>1
        <3>2. CASE ~(x.timer /\ id = x.id)
            <4>1. pending'[id] = pending[id] /\ pending[id] \in DOMAIN calls
                BY <1>0, <1>5, <2>2, <3>2 DEF BookTypeOK
            <4> QED BY <1>1, <2>2, <4>1 DEF BookInv, TimersInv
        <3> QED BY <3>1, <3>2
    <2> QED BY <2>1, <2>2 DEF TimersInv
<1>8. MemoryInv'
    <2>0. Len(recent) + Cardinality(WaitingCalls) <= Len(calls)
        BY DEF BookInv, MemoryInv
    <2>1. IsFiniteSet(WaitingCalls) /\ Cardinality(WaitingCalls) \in Nat
        BY <1>0, WaitingFinite
    <2>2. WaitingCalls' = IF x.timer THEN WaitingCalls \cup {new} ELSE WaitingCalls
        BY <1>1, <1>2 DEF WaitingCalls
    <2>3. new \notin WaitingCalls
        BY <1>2 DEF WaitingCalls
    <2>4. Cardinality(WaitingCalls') = IF x.timer THEN Cardinality(WaitingCalls) + 1
                                       ELSE Cardinality(WaitingCalls)
        BY <2>1, <2>2, <2>3, FS_AddElement
    <2>5. Len(recent') + Cardinality(WaitingCalls') <= Len(calls')
        <3>1. Len(calls') = Len(calls) + 1
            BY <1>1 DEF new
        <3> QED BY <1>0, <2>0, <2>1, <2>4, <3>1
    <2>6. ASSUME Len(calls') <= DedupMax, NEW m \in DOMAIN calls', ~calls'[m].timer
          PROVE  \E i \in DOMAIN recent' : recent'[i].key = Key(calls'[m])
        <3>1. Len(calls) < DedupMax /\ Len(recent) < DedupMax /\ Len(calls) <= DedupMax
            <4>1. Len(calls') = Len(calls) + 1
                BY <1>1 DEF new
            <4> QED BY <1>0, <2>0, <2>1, <2>6, <4>1, PreviewAssumption
        <3>2. CASE m = new
            BY <1>1, <2>6, <3>1, <3>2
        <3>3. CASE m # new
            <4>1. m \in DOMAIN calls /\ calls'[m] = calls[m]
                BY <1>1, <1>2, <3>3
            <4>2. PICK i \in DOMAIN recent : recent[i].key = Key(calls[m])
                BY <2>6, <3>1, <4>1 DEF BookInv, MemoryInv
            <4>3. CASE x.timer
                BY <4>1, <4>2, <4>3
            <4>4. CASE ~x.timer
                BY <3>1, <4>1, <4>2, <4>4
            <4> QED BY <4>3, <4>4
        <3> QED BY <3>2, <3>3
    <2> QED BY <2>5, <2>6 DEF MemoryInv
<1>9. SentOnce'
    BY <1>1, <1>2 DEF BookInv, SentOnce, Without
<1>10. AnswersOwnCommand'
    BY <1>1, <1>2 DEF BookInv, AnswersOwnCommand, Without
<1> QED BY <1>3, <1>4, <1>6, <1>7, <1>8, <1>9, <1>10 DEF BookInv

\* A call of the tool is answered from memory, refused at once, or sent: then its
\* request id has not been sent before, for its result would be remembered.
LEMMA CallKeepsBook ==
    ASSUME HubTypeOK, BookInv, NEW call \in CallSet, CallTool(call)
    PROVE  /\ BookInv'
           /\ \A id, value : AskedIn(calls, id, value) => AskedIn(calls', id, value)
           /\ \A m \in commands' :
                 \/ m \in commands
                 \/ (m \in Command /\ AskedIn(calls', m.id, m.value))
<1>0. /\ call.session \in Sessions /\ call.id \in RequestIds /\ call.selection \in Selections
      /\ call.value \in Nat /\ Len(calls) \in Nat /\ scenario' = scenario
      /\ recent \in Seq(Entry) /\ Len(recent) \in Nat
    BY DEF CallSet, Unsafe, BookInv, BookTypeOK, CallTool
<1>1. ASSUME NEW result \in Result
      PROVE  /\ Ended(call, result) \in Call
             /\ Ended(call, result).session = call.session /\ Ended(call, result).id = call.id
             /\ Ended(call, result).value = call.value
             /\ ~Ended(call, result).timer /\ Ended(call, result).state = "ended"
             /\ Ended(call, result).owner = None
    BY <1>0 DEF Ended, Call
<1>2. NoResult \in Result /\ ~NoResult.ok
    BY DEF NoResult, Result, NoValue
<1>3. CASE Cached(call) # {}
    <2>1. PICK i \in Cached(call) : calls' = Append(calls, Ended(call, recent[i].result))
        BY <1>3 DEF CallTool
    <2>2. UNCHANGED <<pending, recent, commands>>
        BY <1>3 DEF CallTool
    <2>3. i \in DOMAIN recent /\ recent[i].key = Key(call) /\ recent[i].result \in Result
        <3>1. i \in DOMAIN recent /\ recent[i].key = Key(call) /\ recent[i] \in Entry
            BY <1>0 DEF Cached, Key
        <3> QED BY <3>1 DEF Entry
    <2> DEFINE x == Ended(call, recent[i].result)
    <2>4. x \in Call /\ ~x.timer /\ x.state = "ended" /\ x.owner = None /\ Key(x) = Key(call)
        BY <1>1, <2>3 DEF Key
    <2> HIDE DEF x
    <2>5. BookInv' /\ \A id, value : AskedIn(calls, id, value) => AskedIn(calls', id, value)
        <3>1. calls' = Append(calls, x)
            BY <2>1 DEF x
        <3> QED BY <1>0, <2>2, <2>3, <2>4, <3>1, AddKeepsBook
    <2> QED BY <2>2, <2>5
<1>4. CASE Cached(call) = {} /\ RefusedAtOnce(call)
    <2>1. /\ calls' = Append(calls, Ended(call, NoResult))
          /\ recent' = Remembered(call, NoResult)
          /\ UNCHANGED <<pending, commands>>
        BY <1>4 DEF CallTool
    <2> DEFINE x == Ended(call, NoResult)
    <2>2. x \in Call /\ ~x.timer /\ x.state = "ended" /\ x.owner = None /\ Key(x) = Key(call)
        BY <1>1, <1>2 DEF Key
    <2>3. /\ recent' \in Seq(Entry) /\ Len(recent') <= Len(recent) + 1
          /\ Len(recent) < DedupMax =>
               /\ \A i \in DOMAIN recent : \E j \in DOMAIN recent' : recent'[j].key = recent[i].key
               /\ \E j \in DOMAIN recent' : recent'[j].key = Key(call)
        BY ZenonT(40), <1>0, <1>2, <2>1, RememberedFacts
    <2> HIDE DEF x
    <2>4. BookInv' /\ \A id, value : AskedIn(calls, id, value) => AskedIn(calls', id, value)
        <3>1. calls' = Append(calls, x)
            BY <2>1 DEF x
        <3> QED BY <1>0, <2>1, <2>2, <2>3, <3>1, AddKeepsBook
    <2> QED BY <2>1, <2>4
<1>5. CASE Cached(call) = {} /\ ~RefusedAtOnce(call)
    <2> DEFINE owner == owners[call.selection]
               x == Sent(call, owner)
    <2>1. /\ calls' = Append(calls, x)
          /\ pending' = [pending EXCEPT ![call.id] = Len(calls')]
          /\ commands' = commands \cup
               {[socket |-> s, id |-> call.id, selection |-> call.selection, value |-> call.value] :
                  s \in OpenOf(owner)}
          /\ UNCHANGED recent
        BY <1>5 DEF CallTool
    <2>2. owner \in Connections /\ owner # None
        BY <1>0, <1>5, PreviewAssumption DEF RefusedAtOnce, HubTypeOK
    <2>3. /\ x \in Call /\ x.timer /\ x.state = "waiting" /\ x.owner # None /\ ~x.result.ok
          /\ x.id = call.id /\ x.value = call.value
        <3>1. Ended(call, NoResult) \in Call /\ Ended(call, NoResult).result = NoResult
            BY <1>1, <1>2 DEF Ended
        <3> HIDE DEF owner
        <3> QED BY <1>1, <1>2, <2>2, <3>1 DEF Sent, Call
    <2>4. ASSUME Without({"sameid"}), NEW n \in DOMAIN calls, calls[n].owner # None
          PROVE  calls[n].id # call.id
        <3>1. ~UsedBefore(call)
            BY <2>4 DEF CallTool, Without
        <3>2. SUFFICES ASSUME calls[n].id = call.id PROVE FALSE
            OBVIOUS
        <3>3. calls[n].session = call.session /\ ~calls[n].timer /\ ~(Len(calls) > DedupMax)
            BY <3>1, <3>2 DEF UsedBefore, BookInv, TimersInv
        <3>4. Len(calls) <= DedupMax
            BY <1>0, <3>3, PreviewAssumption
        <3>5. PICK i \in DOMAIN recent : recent[i].key = Key(calls[n])
            BY <3>3, <3>4 DEF BookInv, MemoryInv
        <3>6. i \in Cached(call)
            BY <3>2, <3>3, <3>5 DEF Cached, Key
        <3> QED BY <1>5, <3>6
    <2>5. \A m \in commands' : (m \in commands) \/ (m \in Command /\ m.id = call.id /\ m.value = call.value)
        <3>1. \A s \in OpenOf(owner) : s \in Nat
            BY DEF OpenOf, Bound, Sockets, HubTypeOK
        <3>2. \A s \in Nat :
                 LET m == [socket |-> s, id |-> call.id, selection |-> call.selection, value |-> call.value]
                 IN  m \in Command /\ m.id = call.id /\ m.value = call.value
            BY <1>0 DEF Command
        <3> HIDE DEF owner
        <3> QED BY <2>1, <3>1, <3>2
    <2> HIDE DEF x
    <2>6. /\ BookInv' /\ \A id, value : AskedIn(calls, id, value) => AskedIn(calls', id, value)
          /\ AskedIn(calls', x.id, x.value)
        BY <1>0, <2>1, <2>3, <2>4, AddKeepsBook
    <2> QED BY <2>3, <2>5, <2>6
<1> QED BY <1>3, <1>4, <1>5

AnswersInv == BookInv /\ MessagesTypeOK /\ MessagesInv

\* Messages that were on their way before, or belong to a call, belong to a call.
LEMMA MessagesFollow ==
    ASSUME MessagesTypeOK, MessagesInv,
           \A id, value : AskedIn(calls, id, value) => AskedIn(calls', id, value),
           \A m \in commands' :
              \/ m \in commands
              \/ (m \in Command /\ AskedIn(calls', m.id, m.value)),
           answers' \in [Connections -> Seq(Answer)],
           \A c \in Connections : \A i \in 1 .. Len(answers'[c]) :
              \/ \E j \in 1 .. Len(answers[c]) : answers'[c][i] = answers[c][j]
              \/ (answers'[c][i].ok => AskedIn(calls', answers'[c][i].id, answers'[c][i].value))
    PROVE  MessagesTypeOK' /\ MessagesInv'
<1>1. MessagesTypeOK'
    BY DEF MessagesTypeOK
<1>2. \A m \in commands' : AskedIn(calls', m.id, m.value)
    BY DEF MessagesInv
<1>3. ASSUME NEW c \in Connections, NEW i \in 1 .. Len(answers'[c]), answers'[c][i].ok
      PROVE  AskedIn(calls', answers'[c][i].id, answers'[c][i].value)
    <2>1. CASE \E j \in 1 .. Len(answers[c]) : answers'[c][i] = answers[c][j]
        BY <1>3, <2>1 DEF MessagesInv
    <2>2. CASE answers'[c][i].ok => AskedIn(calls', answers'[c][i].id, answers'[c][i].value)
        BY <1>3, <2>2
    <2> QED BY <2>1, <2>2
<1>4. MessagesInv' = (/\ \A m \in commands' : AskedIn(calls', m.id, m.value)
                      /\ \A c \in Connections : \A i \in 1 .. Len(answers'[c]) :
                            answers'[c][i].ok =>
                                AskedIn(calls', answers'[c][i].id, answers'[c][i].value))
    BY DEF MessagesInv
<1> QED BY <1>1, <1>2, <1>3, <1>4

\* A step that adds an answer to those of one connection, or drops the first of them,
\* leaves the others where they are.
LEMMA AnswersFollow ==
    ASSUME MessagesTypeOK, NEW c \in Connections, NEW q \in Seq(Answer),
           answers' = [answers EXCEPT ![c] = q],
           \A i \in 1 .. Len(q) :
              \/ \E j \in 1 .. Len(answers[c]) : q[i] = answers[c][j]
              \/ (q[i].ok => AskedIn(calls', q[i].id, q[i].value))
    PROVE  /\ answers' \in [Connections -> Seq(Answer)]
           /\ \A d \in Connections : \A i \in 1 .. Len(answers'[d]) :
                 \/ \E j \in 1 .. Len(answers[d]) : answers'[d][i] = answers[d][j]
                 \/ (answers'[d][i].ok => AskedIn(calls', answers'[d][i].id, answers'[d][i].value))
<1>1. answers' \in [Connections -> Seq(Answer)] /\ answers'[c] = q
      /\ \A d \in Connections : d # c => answers'[d] = answers[d]
    BY DEF MessagesTypeOK
<1> QED BY <1>1

\* The answer of a browser belongs to the command it has received.
LEMMA ReplyFollows ==
    ASSUME MessagesTypeOK, MessagesInv, NEW c \in Connections, NEW m \in commands,
           NEW answer \in Answer, answer.ok => answer.id = m.id /\ answer.value = m.value,
           answers' = [answers EXCEPT ![c] = Append(@, answer)],
           commands' \subseteq commands, calls' = calls
    PROVE  MessagesTypeOK' /\ MessagesInv'
<1> DEFINE q == Append(answers[c], answer)
<1>1. answers[c] \in Seq(Answer) /\ answers' = [answers EXCEPT ![c] = q]
    BY DEF MessagesTypeOK
<1>2. /\ q \in Seq(Answer) /\ Len(answers[c]) \in Nat /\ Len(q) = Len(answers[c]) + 1
      /\ \A i \in 1 .. Len(answers[c]) : q[i] = answers[c][i]
      /\ q[Len(answers[c]) + 1] = answer
    BY <1>1, AppendFacts
<1>3. answer.ok => AskedIn(calls, answer.id, answer.value)
    BY DEF MessagesInv
<1> HIDE DEF q
<1>4. \A i \in 1 .. Len(q) : \/ \E j \in 1 .. Len(answers[c]) : q[i] = answers[c][j]
                             \/ (q[i].ok => AskedIn(calls', q[i].id, q[i].value))
    <2>1. \A i \in 1 .. Len(q) : i \in 1 .. Len(answers[c]) \/ i = Len(answers[c]) + 1
        BY <1>2
    <2> QED BY <1>2, <1>3, <2>1
<1>5. /\ answers' \in [Connections -> Seq(Answer)]
      /\ \A d \in Connections : \A i \in 1 .. Len(answers'[d]) :
            \/ \E j \in 1 .. Len(answers[d]) : answers'[d][i] = answers[d][j]
            \/ (answers'[d][i].ok => AskedIn(calls', answers'[d][i].id, answers'[d][i].value))
    BY <1>1, <1>2, <1>4, AnswersFollow
<1> QED BY <1>5, MessagesFollow

\* What is not a call, its end or a message keeps the books.
LEMMA OthersKeepBook ==
    ASSUME BookInv, UNCHANGED <<calls, pending, recent, scenario>>
    PROVE  BookInv' /\ \A id, value : AskedIn(calls, id, value) => AskedIn(calls', id, value)
BY DEF BookInv, BookTypeOK, TimersInv, MemoryInv, SentOnce, AnswersOwnCommand, Without, AskedIn,
       WaitingCalls, Key

\* An answer that arrives ends the call it belongs to, or nothing.
LEMMA ArrivalKeepsAnswers ==
    ASSUME AnswersInv, NEW c \in Connections, AnswerArrives(c)
    PROVE  AnswersInv'
<1> DEFINE q == Tail(answers[c])
           answer == Head(answers[c])
           n == pending[answer.id]
<1>1. answers[c] \in Seq(Answer) /\ answers[c] # <<>> /\ answers' = [answers EXCEPT ![c] = q]
    BY DEF AnswersInv, MessagesTypeOK, AnswerArrives
<1>2. /\ q \in Seq(Answer) /\ Len(answers[c]) \in Nat \ {0} /\ Len(q) = Len(answers[c]) - 1
      /\ \A i \in 1 .. (Len(answers[c]) - 1) : q[i] = answers[c][i + 1]
      /\ answer = answers[c][1] /\ answers[c][1] \in Answer
    BY <1>1, TailFacts
<1>3. answer \in Answer /\ answer.id \in RequestIds /\ answer.value \in Nat
    BY <1>2 DEF Answer
<1>4. answer.ok => AskedIn(calls, answer.id, answer.value)
    BY <1>2 DEF AnswersInv, MessagesInv
<1> HIDE DEF q
<1>5. \A i \in 1 .. Len(q) : \E j \in 1 .. Len(answers[c]) : q[i] = answers[c][j]
    BY <1>2
<1>6. /\ answers' \in [Connections -> Seq(Answer)]
      /\ \A d \in Connections : \A i \in 1 .. Len(answers'[d]) :
            \/ \E j \in 1 .. Len(answers[d]) : answers'[d][i] = answers[d][j]
            \/ (answers'[d][i].ok => AskedIn(calls', answers'[d][i].id, answers'[d][i].value))
    BY <1>1, <1>2, <1>5, AnswersFollow DEF AnswersInv
<1>7. BookInv' /\ \A id, value : AskedIn(calls, id, value) => AskedIn(calls', id, value)
    <2>1. CASE n # 0 /\ calls[n].owner = c
        <3> DEFINE result == IF answer.ok /\ calls[n].selection \in context
                             THEN Applied(answer.value) ELSE NoResult
        <3>1. pending' = [pending EXCEPT ![answer.id] = 0] /\ Ends(n, result) /\ scenario' = scenario
            BY <2>1 DEF AnswerArrives
        <3>2. n \in DOMAIN calls /\ calls[n].id = answer.id /\ calls[n].timer /\ calls[n].owner # None
            BY <1>3, <2>1 DEF AnswersInv, BookInv, BookTypeOK, TimersInv
        <3>3. result \in Result
            BY <1>3 DEF Applied, NoResult, NoValue, Result
        <3>4. ASSUME Without({"sameid"}), result.ok
              PROVE  result.value = calls[n].value
            <4>1. answer.ok /\ result.value = answer.value
                BY <3>4 DEF Applied, NoResult
            <4>2. PICK m \in DOMAIN calls :
                      calls[m].id = answer.id /\ calls[m].owner # None /\ calls[m].value = answer.value
                BY <1>4, <4>1 DEF AskedIn
            <4>3. m = n
                BY <3>2, <3>4, <4>2 DEF AnswersInv, BookInv, SentOnce
            <4> QED BY <4>1, <4>2, <4>3
        <3> HIDE DEF result, n
        <3> QED BY <3>1, <3>2, <3>3, <3>4, EndKeepsBook DEF AnswersInv
    <2>2. CASE ~(n # 0 /\ calls[n].owner = c)
        <3>1. UNCHANGED callVars /\ scenario' = scenario
            BY <2>2 DEF AnswerArrives
        <3> QED BY <3>1, OthersKeepBook DEF AnswersInv, callVars
    <2> QED BY <2>1, <2>2
<1>8. commands' = commands
    BY DEF AnswerArrives
<1> QED BY <1>6, <1>7, <1>8, MessagesFollow DEF AnswersInv

\* What is lost with a socket leaves a later part of the answers.
LEMMA LossKeepsAnswers ==
    ASSUME HubTypeOK, AnswersInv, NEW s \in Sockets, Lose(s)
    PROVE  AnswersInv'
<1> DEFINE c == sockets[s].of
<1>1. c \in Connections
    <2>1. sockets[s] \in Socket
        BY DEF HubTypeOK, Sockets
    <2> QED BY <2>1 DEF Socket
<1>2. PICK k \in 0 .. Len(answers[c]) :
          answers' = [answers EXCEPT ![c] = SubSeq(answers[c], k + 1, Len(answers[c]))]
    BY DEF Lose
<1> DEFINE q == SubSeq(answers[c], k + 1, Len(answers[c]))
<1> HIDE DEF c
<1>3. answers[c] \in Seq(Answer) /\ Len(answers[c]) \in Nat
    BY <1>1 DEF AnswersInv, MessagesTypeOK
<1>4. /\ q \in Seq(Answer) /\ Len(q) = Len(answers[c]) - k
      /\ \A i \in 1 .. (Len(answers[c]) - k) : q[i] = answers[c][k + i]
    BY <1>3, SuffixFacts
<1>5. answers' = [answers EXCEPT ![c] = q]
    BY <1>2
<1> HIDE DEF q
<1>6. \A i \in 1 .. Len(q) : \E j \in 1 .. Len(answers[c]) : q[i] = answers[c][j]
    BY <1>3, <1>4
<1>7. /\ answers' \in [Connections -> Seq(Answer)]
      /\ \A d \in Connections : \A i \in 1 .. Len(answers'[d]) :
            \/ \E j \in 1 .. Len(answers[d]) : answers'[d][i] = answers[d][j]
            \/ (answers'[d][i].ok => AskedIn(calls', answers'[d][i].id, answers'[d][i].value))
    BY <1>1, <1>4, <1>5, <1>6, AnswersFollow DEF AnswersInv
<1>8. commands' \subseteq commands /\ UNCHANGED <<calls, pending, recent, scenario>>
    BY DEF Lose, callVars
<1> QED BY <1>7, <1>8, OthersKeepBook, MessagesFollow DEF AnswersInv

\* Every step keeps the books and the messages.
LEMMA StepKeepsAnswers ==
    ASSUME HubTypeOK, AnswersInv, [Next]_vars
    PROVE  AnswersInv'
<1>1. ASSUME UNCHANGED <<calls, pending, recent, scenario, commands, answers>>
      PROVE  AnswersInv'
    BY <1>1, OthersKeepBook DEF AnswersInv, MessagesTypeOK, MessagesInv
<1>2. ASSUME NEW s \in Sockets, Lose(s)
      PROVE  AnswersInv'
    BY <1>2, LossKeepsAnswers
<1>3. ASSUME NEW call \in CallSet, CallTool(call)
      PROVE  AnswersInv'
    <2>1. answers' = answers /\ answers \in [Connections -> Seq(Answer)]
        BY <1>3 DEF CallTool, AnswersInv, MessagesTypeOK
    <2>2. /\ BookInv'
          /\ \A id, value : AskedIn(calls, id, value) => AskedIn(calls', id, value)
          /\ \A m \in commands' : \/ m \in commands
                                  \/ (m \in Command /\ AskedIn(calls', m.id, m.value))
        BY <1>3, CallKeepsBook DEF AnswersInv
    <2>3. \A c \in Connections : \A i \in 1 .. Len(answers'[c]) :
              \E j \in 1 .. Len(answers[c]) : answers'[c][i] = answers[c][j]
        BY <2>1
    <2> QED BY <2>1, <2>2, <2>3, MessagesFollow DEF AnswersInv
<1>4. ASSUME NEW n \in DOMAIN calls, Timeout(n)
      PROVE  AnswersInv'
    <2>1. /\ calls[n].timer /\ Ends(n, NoResult) /\ pending' = [pending EXCEPT ![calls[n].id] = 0]
          /\ scenario' = scenario /\ answers' = answers /\ commands' = commands
        BY <1>4 DEF Timeout, browserVars
    <2>2. NoResult \in Result /\ ~NoResult.ok
        BY DEF NoResult, Result, NoValue
    <2>3. BookInv' /\ \A id, value : AskedIn(calls, id, value) => AskedIn(calls', id, value)
        BY <2>1, <2>2, EndKeepsBook DEF AnswersInv
    <2>4. answers' \in [Connections -> Seq(Answer)]
        BY <2>1 DEF AnswersInv, MessagesTypeOK
    <2>5. \A c \in Connections : \A i \in 1 .. Len(answers'[c]) :
              \E j \in 1 .. Len(answers[c]) : answers'[c][i] = answers[c][j]
        BY <2>1
    <2> QED BY <2>1, <2>3, <2>4, <2>5, MessagesFollow DEF AnswersInv
<1>5. ASSUME NEW c \in Connections, AnswerArrives(c)
      PROVE  AnswersInv'
    BY <1>5, ArrivalKeepsAnswers
<1>6. ASSUME NEW m \in commands, NEW c \in Connections, BrowserApplies(m, c)
      PROVE  AnswersInv'
    <2>1. m \in Command
        BY DEF AnswersInv, MessagesTypeOK
    <2>2. [id |-> m.id, ok |-> TRUE, value |-> m.value] \in Answer
        BY <2>1 DEF Command, Answer
    <2>3. /\ answers' = [answers EXCEPT ![c] = Append(@, [id |-> m.id, ok |-> TRUE, value |-> m.value])]
          /\ commands' \subseteq commands /\ UNCHANGED <<calls, pending, recent, scenario>>
        BY <1>6 DEF BrowserApplies, Receives, callVars
    <2>4. MessagesTypeOK' /\ MessagesInv'
        BY <2>2, <2>3, ReplyFollows DEF AnswersInv
    <2> QED BY <2>3, <2>4, OthersKeepBook DEF AnswersInv
<1>7. ASSUME NEW m \in commands, NEW c \in Connections, BrowserRefuses(m, c)
      PROVE  AnswersInv'
    <2>1. m \in Command
        BY DEF AnswersInv, MessagesTypeOK
    <2>2. [id |-> m.id, ok |-> FALSE, value |-> NoValue] \in Answer
        BY <2>1 DEF Command, Answer, NoValue
    <2>3. /\ answers' = [answers EXCEPT ![c] = Append(@, [id |-> m.id, ok |-> FALSE, value |-> NoValue])]
          /\ commands' \subseteq commands /\ UNCHANGED <<calls, pending, recent, scenario>>
        BY <1>7 DEF BrowserRefuses, Receives, callVars
    <2>4. MessagesTypeOK' /\ MessagesInv'
        BY <2>2, <2>3, ReplyFollows DEF AnswersInv
    <2> QED BY <2>3, <2>4, OthersKeepBook DEF AnswersInv
<1>8. ASSUME NEW c \in Connections, Bind(c) \/ Revoke(c)
      PROVE  AnswersInv'
    BY <1>1, <1>8 DEF Bind, Revoke, callVars, browserVars
<1>9. ASSUME NEW s \in Sockets, NEW e \in Selections,
             Closed(s) \/ CreateArrives(s, e) \/ RemoveArrives(s, e)
      PROVE  AnswersInv'
    BY <1>1, <1>9 DEF Closed, CreateArrives, RemoveArrives, callVars, browserVars
<1>10. ASSUME NEW s \in Sockets, Closed(s)
       PROVE  AnswersInv'
    BY <1>1, <1>10 DEF Closed, callVars, browserVars
<1>11. ASSUME NEW e \in Selections, LeavesContext(e)
       PROVE  AnswersInv'
    BY <1>1, <1>11 DEF LeavesContext, browserVars
<1>12. ASSUME NEW e \in Selections, NEW c \in Connections, CreateEnds(e, c)
       PROVE  AnswersInv'
    BY <1>1, <1>12 DEF CreateEnds, callVars, browserVars
<1>13. ASSUME NEW session \in Sessions, SendDraft(session)
       PROVE  AnswersInv'
    BY <1>1, <1>13 DEF SendDraft, callVars, browserVars
<1>14. CASE UNCHANGED vars
    BY <1>1, <1>14 DEF vars, callVars, browserVars
<1> QED
    BY <1>2, <1>3, <1>4, <1>5, <1>6, <1>7, <1>8, <1>9, <1>10, <1>11, <1>12, <1>13, <1>14 DEF Next

\* Books and messages are always kept: what is on its way belongs to a call, and what a
\* request id waits for is a call of its own.
THEOREM AnswersHold == Spec => []AnswersInv
<1>1. Init => HubTypeOK /\ AnswersInv
    <2> SUFFICES ASSUME Init PROVE HubTypeOK /\ AnswersInv
        OBVIOUS
    <2>1. HubTypeOK /\ MessagesTypeOK /\ MessagesInv
        BY DEF Init, HubTypeOK, MessagesTypeOK, MessagesInv
    <2>2. BookTypeOK /\ TimersInv /\ SentOnce /\ AnswersOwnCommand
        BY DEF Init, BookTypeOK, TimersInv, SentOnce, AnswersOwnCommand
    <2>3. MemoryInv
        <3>1. WaitingCalls = {} /\ Len(calls) = 0 /\ Len(recent) = 0 /\ DOMAIN calls = {}
            BY DEF Init, WaitingCalls
        <3>2. Cardinality(WaitingCalls) = 0
            BY <3>1, FS_EmptySet
        <3> QED BY <3>1, <3>2 DEF MemoryInv
    <2> QED BY <2>1, <2>2, <2>3 DEF AnswersInv, BookInv
<1>2. HubTypeOK /\ AnswersInv /\ [Next]_vars => HubTypeOK' /\ AnswersInv'
    BY StepHubType, StepKeepsAnswers
<1> QED BY <1>1, <1>2, PTL DEF Spec

\* A call that reports success reports the value it asked for: no answer is taken for
\* another call's, however late it comes, unless calls share a request id whose result
\* is not remembered.
THEOREM AnswersAreOwn == Spec => []AnswersOwnCommand
<1>1. AnswersInv => AnswersOwnCommand
    BY DEF AnswersInv, BookInv
<1> QED BY <1>1, AnswersHold, PTL

-------------------------------------------------------------------------------
(* The latest value that was applied                                       *)

\* The circumstances of LatestIsRecorded: one browser, whose socket stays and whose
\* answers come in time; selections leave the context only for those of the next Send.
Quiet == Without({"slow", "sockets", "two", "removed", "sameid"})

\* The connection has a socket.
Here(c) == \E s \in Sockets : sockets[s].of = c

Untouched(e) == \A n \in DOMAIN calls : calls[n].selection = e => calls[n].owner = None

\* The answer tells of a value that the browser has applied to the selection.
Tells(answer, e) == answer.ok /\ calls[pending[answer.id]].selection = e

PageTypeOK ==
    /\ drafted \in SUBSET Selections
    /\ context \in SUBSET Selections
    /\ page \in [Connections -> [Selections -> Nat]]
    /\ recorded \in [Selections -> Nat]

\* There is one socket at most, and whatever has an owner has its browser.
OneBrowser ==
    /\ \A s \in Sockets : s = 1 /\ sockets[s].state = "open"
    /\ \A e \in Selections : owners[e] # None => Here(owners[e])
    /\ \A x \in creating : Here(x[2])
    /\ \A n \in DOMAIN calls : calls[n].owner # None => Here(calls[n].owner)

\* No value was asked for a selection before its session was sent.
DraftsUntouched ==
    /\ context \cap drafted = {}
    /\ \A x \in creating : x[1] \notin context \cup drafted
    /\ \A x \in creating : Untouched(x[1])
    /\ \A e \in drafted : Untouched(e)
    /\ \A e \in Selections : Untouched(e) =>
          recorded[e] = NoValue /\ \A c \in Connections : page[c][e] = NoValue

\* A command, and then its answer, is what its request id waits for.
OnTheWay ==
    /\ \A m \in commands :
          /\ m.socket \in Sockets
          /\ pending[m.id] # 0
          /\ calls[pending[m.id]].selection = m.selection
    /\ \A l, m \in commands : l.id = m.id => l = m
    /\ \A c \in Connections : \A i \in DOMAIN answers[c] :
          /\ Here(c)
          /\ pending[answers[c][i].id] # 0
          /\ \A m \in commands : m.id # answers[c][i].id
          /\ \A j \in DOMAIN answers[c] : answers[c][i].id = answers[c][j].id => i = j

\* The last answer on its way that tells of a selection has the value its browser
\* shows; when there is none, that value is recorded.
LatestTold ==
    \A c \in Connections, e \in context :
        Here(c) =>
            /\ (\A i \in DOMAIN answers[c] : ~Tells(answers[c][i], e)) => recorded[e] = page[c][e]
            /\ \A i \in DOMAIN answers[c] :
                  /\ Tells(answers[c][i], e)
                  /\ \A j \in DOMAIN answers[c] : Tells(answers[c][j], e) => j <= i
                  => answers[c][i].value = page[c][e]

QuietInv == OneBrowser /\ DraftsUntouched /\ OnTheWay /\ LatestTold
LatestInv == PageTypeOK /\ (Quiet => QuietInv)

\* What sockets, commands, answers and waiting calls are made of.
LEMMA Parts ==
    ASSUME HubTypeOK, AnswersInv
    PROVE  /\ \A s \in Sockets : sockets[s].of \in Connections
           /\ \A x \in creating : x = <<x[1], x[2]>> /\ x[1] \in Selections /\ x[2] \in Connections
           /\ \A m \in commands : /\ m.id \in RequestIds /\ m.selection \in Selections
                                  /\ m.value \in Nat
           /\ \A c \in Connections : \A i \in DOMAIN answers[c] :
                 answers[c][i].id \in RequestIds /\ answers[c][i].value \in Nat
           /\ \A id \in RequestIds :
                 pending[id] # 0 =>
                     /\ pending[id] \in DOMAIN calls /\ calls[pending[id]].id = id
                     /\ calls[pending[id]].timer /\ calls[pending[id]].owner # None
                     /\ calls[pending[id]].selection \in Selections
<1>1. \A s \in Sockets : sockets[s].of \in Connections
    <2>1. \A s \in Sockets : sockets[s] \in Socket
        BY DEF HubTypeOK, Sockets
    <2> QED BY <2>1 DEF Socket
<1>2. \A x \in creating : x = <<x[1], x[2]>> /\ x[1] \in Selections /\ x[2] \in Connections
    BY DEF HubTypeOK
<1>3. \A m \in commands : m.id \in RequestIds /\ m.selection \in Selections /\ m.value \in Nat
    BY DEF AnswersInv, MessagesTypeOK, Command
<1>4. \A c \in Connections : \A i \in DOMAIN answers[c] :
          answers[c][i].id \in RequestIds /\ answers[c][i].value \in Nat
    <2> TAKE c \in Connections
    <2>1. answers[c] \in Seq(Answer)
        BY DEF AnswersInv, MessagesTypeOK
    <2>2. \A i \in DOMAIN answers[c] : answers[c][i] \in Answer
        BY <2>1
    <2> QED BY <2>2 DEF Answer
<1>5. \A id \in RequestIds :
          pending[id] # 0 =>
              /\ pending[id] \in DOMAIN calls /\ calls[pending[id]].id = id
              /\ calls[pending[id]].timer /\ calls[pending[id]].owner # None
              /\ calls[pending[id]].selection \in Selections
    <2> TAKE id \in RequestIds
    <2> HAVE pending[id] # 0
    <2>1. pending[id] \in DOMAIN calls /\ calls[pending[id]].id = id /\ calls[pending[id]].timer
        BY DEF AnswersInv, BookInv, BookTypeOK, TimersInv
    <2>2. calls[pending[id]].owner # None
        BY <2>1 DEF AnswersInv, BookInv, TimersInv
    <2>3. calls[pending[id]] \in Call
        BY <2>1 DEF AnswersInv, BookInv, BookTypeOK
    <2> QED BY <2>1, <2>2, <2>3 DEF Call
<1> QED BY <1>1, <1>2, <1>3, <1>4, <1>5

\* Contexts, drafts, pages and recorded values keep their types.
LEMMA StepPageType ==
    ASSUME HubTypeOK, AnswersInv, PageTypeOK, [Next]_vars
    PROVE  PageTypeOK'
<1> USE DEF PageTypeOK
<1>0. NoValue \in Nat
    BY DEF NoValue
<1>1. ASSUME NEW s \in Sockets, NEW e \in Selections, RemoveArrives(s, e)
      PROVE  PageTypeOK'
    BY <1>0, <1>1 DEF RemoveArrives, browserVars
<1>2. ASSUME NEW e \in Selections, LeavesContext(e)
      PROVE  PageTypeOK'
    BY <1>0, <1>2 DEF LeavesContext, browserVars
<1>3. ASSUME NEW e \in Selections, NEW c \in Connections, CreateEnds(e, c)
      PROVE  PageTypeOK'
    BY <1>3 DEF CreateEnds, browserVars, callVars
<1>4. ASSUME NEW session \in Sessions, SendDraft(session)
      PROVE  PageTypeOK'
    BY <1>4 DEF SendDraft, browserVars, callVars
<1>5. ASSUME NEW c \in Connections, AnswerArrives(c)
      PROVE  PageTypeOK'
    <2> DEFINE value == Head(answers[c]).value
    <2>1. answers[c] \in Seq(Answer) /\ answers[c] # <<>>
        BY <1>5 DEF AnswersInv, MessagesTypeOK, AnswerArrives
    <2>2. value \in Nat
        <3>1. Head(answers[c]) \in Answer
            BY <2>1
        <3> QED BY <3>1 DEF Answer
    <2>3. \/ recorded' = recorded
          \/ \E e : recorded' = [recorded EXCEPT ![e] = value]
        BY <1>5 DEF AnswerArrives, callVars, Recorded
    <2>4. UNCHANGED <<drafted, context, page>>
        BY <1>5 DEF AnswerArrives, batchVars
    <2> HIDE DEF value
    <2> QED BY <2>2, <2>3, <2>4
<1>6. ASSUME NEW m \in commands, NEW c \in Connections, BrowserApplies(m, c)
      PROVE  PageTypeOK'
    <2>1. m.value \in Nat /\ m.selection \in Selections
        BY Parts
    <2> QED BY <1>6, <2>1 DEF BrowserApplies, batchVars, callVars
<1>7. CASE UNCHANGED <<drafted, context, page, recorded>>
    BY <1>7
<1> QED
    BY <1>1, <1>2, <1>3, <1>4, <1>5, <1>6, <1>7
    DEF Next, vars, hubVars, batchVars, callVars, browserVars, Bind, Lose, Revoke, Closed,
        CreateArrives, CallTool, Timeout, BrowserRefuses

\* The first socket: nothing was sent before it.
LEMMA BindKeepsLatest ==
    ASSUME HubTypeOK, AnswersInv, PageTypeOK, Quiet, QuietInv,
           NEW c \in Connections, Bind(c)
    PROVE  QuietInv'
<1>0. UNCHANGED <<scenario, creating, owners, drafted, context, calls, pending, recorded,
                  commands, page, answers>>
    BY DEF Bind, batchVars, callVars, browserVars
<1>1. [of |-> c, state |-> "open"] \in Socket
    BY DEF Socket
<1>2. Sockets = {}
    <2> SUFFICES ASSUME NEW s \in Sockets PROVE FALSE
        OBVIOUS
    <2>1. s = 1 /\ sockets[s].state = "open" /\ \A t \in Sockets : t = 1
        BY DEF QuietInv, OneBrowser
    <2>2. sockets[s].of = c
        BY <2>1 DEF Bind, Quiet, Without
    <2>3. s \in OpenOf(c) /\ \A t \in Sockets : t <= s
        BY <2>1, <2>2 DEF OpenOf, Bound
    <2>4. Reached(c)
        BY <2>3 DEF Reached
    <2> QED BY <2>4 DEF Bind, Quiet, Without
<1>3. Len(sockets) = 0
    BY <1>2 DEF Sockets, HubTypeOK
<1>4. Sockets' = {1} /\ sockets'[1] = [of |-> c, state |-> "open"]
    BY <1>1, <1>3, AppendFacts DEF Bind, Sockets, HubTypeOK
<1>5. \A d : ~Here(d)
    BY <1>2 DEF Here
<1>6. /\ \A e \in Selections : owners[e] = None
      /\ creating = {} /\ commands = {}
      /\ \A n \in DOMAIN calls : calls[n].owner = None
      /\ \A d \in Connections : DOMAIN answers[d] = {}
    BY <1>2, <1>5 DEF QuietInv, OneBrowser, OnTheWay
<1>7. OneBrowser'
    BY <1>0, <1>4, <1>6 DEF OneBrowser
<1>8. \A e : Untouched(e) /\ Untouched(e)'
    BY <1>0, <1>6 DEF Untouched
<1>9. DraftsUntouched'
    BY <1>0, <1>8 DEF QuietInv, DraftsUntouched
<1>10. OnTheWay'
    BY <1>0, <1>6 DEF OnTheWay
<1>11. LatestTold'
    BY <1>0, <1>6, <1>8 DEF LatestTold, QuietInv, DraftsUntouched, PageTypeOK
<1> QED BY <1>7, <1>9, <1>10, <1>11 DEF QuietInv

\* What leaves the calls, the messages and the sockets alone leaves the messages as
\* they were.
LEMMA SameMessages ==
    ASSUME OnTheWay, UNCHANGED <<sockets, calls, pending, commands, answers>>
    PROVE  /\ OnTheWay'
           /\ \A c : Here(c)' <=> Here(c)
           /\ \A e : Untouched(e)' <=> Untouched(e)
           /\ \A answer, e : Tells(answer, e)' <=> Tells(answer, e)
<1>1. \A c : Here(c)' <=> Here(c)
    BY DEF Here, Sockets
<1>2. \A e : Untouched(e)' <=> Untouched(e)
    BY DEF Untouched
<1>3. \A answer, e : Tells(answer, e)' <=> Tells(answer, e)
    BY DEF Tells
<1>4. OnTheWay'
    BY <1>1 DEF OnTheWay, Sockets
<1> QED BY <1>1, <1>2, <1>3, <1>4

\* A selection that arrives is not in use.
LEMMA ArrivalKeepsLatest ==
    ASSUME HubTypeOK, AnswersInv, PageTypeOK, Quiet, QuietInv,
           NEW s \in Sockets, NEW e \in Selections, CreateArrives(s, e)
    PROVE  QuietInv'
<1>0. /\ UNCHANGED <<sockets, owners, drafted, context, calls, pending, recorded,
                     commands, page, answers>>
      /\ creating' = creating \cup {<<e, sockets[s].of>>}
    BY DEF CreateArrives, batchVars, callVars, browserVars
<1>1. /\ OnTheWay'
      /\ \A c : Here(c)' <=> Here(c)
      /\ \A f : Untouched(f)' <=> Untouched(f)
      /\ \A answer, f : Tells(answer, f)' <=> Tells(answer, f)
    BY <1>0, SameMessages DEF QuietInv
<1>2. e \notin context /\ e \notin drafted /\ Untouched(e)
    BY DEF CreateArrives, Untouched, Quiet, Without
<1>3. Here(sockets[s].of)
    BY DEF Here
<1>4. OneBrowser'
    BY <1>0, <1>1, <1>3 DEF QuietInv, OneBrowser, Sockets
<1>5. \A x \in creating' : x \in creating \/ x[1] = e
    BY <1>0
<1>6. DraftsUntouched'
    BY <1>0, <1>1, <1>2, <1>5 DEF QuietInv, DraftsUntouched
<1>7. LatestTold'
    BY <1>0, <1>1 DEF QuietInv, LatestTold
<1> QED BY <1>1, <1>4, <1>6, <1>7 DEF QuietInv

\* The chip that is attached becomes a draft: there is one browser, so it does not
\* arrive a second time.
LEMMA AttachKeepsLatest ==
    ASSUME HubTypeOK, AnswersInv, PageTypeOK, Quiet, QuietInv,
           NEW e \in Selections, NEW c \in Connections, CreateEnds(e, c)
    PROVE  QuietInv'
<1>0. /\ UNCHANGED <<sockets, context, calls, pending, recorded, commands, page, answers>>
      /\ creating' = creating \ {<<e, c>>} /\ <<e, c>> \in creating
    BY DEF CreateEnds, callVars, browserVars
<1>1. /\ OnTheWay'
      /\ \A d : Here(d)' <=> Here(d)
      /\ \A f : Untouched(f)' <=> Untouched(f)
      /\ \A answer, f : Tells(answer, f)' <=> Tells(answer, f)
    BY <1>0, SameMessages DEF QuietInv
<1>2. Here(c) /\ e \notin context /\ Untouched(e)
    BY <1>0 DEF QuietInv, OneBrowser, DraftsUntouched
<1>3. drafted' = drafted \cup {e} /\ owners' = [owners EXCEPT ![e] = c]
    BY <1>2 DEF CreateEnds
<1>4. \A x \in creating' : x \in creating /\ x[1] # e
    <2> SUFFICES ASSUME NEW x \in creating, x[1] = e PROVE x = <<e, c>>
        BY <1>0
    <2>1. Here(x[2]) /\ x = <<x[1], x[2]>>
        BY Parts DEF QuietInv, OneBrowser
    <2>2. x[2] = c
        BY <1>2, <2>1 DEF Here, QuietInv, OneBrowser
    <2> QED BY <2>1, <2>2
<1>5. OneBrowser'
    <2>1. \A f \in Selections : owners'[f] # None => Here(owners'[f])
        BY <1>2, <1>3 DEF QuietInv, OneBrowser, HubTypeOK
    <2> QED BY <1>0, <1>1, <1>4, <2>1 DEF QuietInv, OneBrowser, Sockets
<1>6. DraftsUntouched'
    BY <1>0, <1>1, <1>2, <1>3, <1>4 DEF QuietInv, DraftsUntouched
<1>7. LatestTold'
    BY <1>0, <1>1 DEF QuietInv, LatestTold
<1> QED BY <1>1, <1>5, <1>6, <1>7 DEF QuietInv

\* No value was asked for what a Send brings into the context.
LEMMA SendKeepsLatest ==
    ASSUME HubTypeOK, AnswersInv, PageTypeOK, Quiet, QuietInv,
           NEW session \in Sessions, SendDraft(session)
    PROVE  QuietInv'
<1>0. /\ UNCHANGED <<sockets, creating, owners, calls, pending, recorded, commands, page, answers>>
      /\ context' \subseteq context \cup drafted
      /\ drafted' \subseteq drafted
      /\ context' \cap drafted' = {}
    BY DEF SendDraft, hubVars, callVars, browserVars, QuietInv, DraftsUntouched
<1>1. /\ OnTheWay'
      /\ \A c : Here(c)' <=> Here(c)
      /\ \A f : Untouched(f)' <=> Untouched(f)
      /\ \A answer, f : Tells(answer, f)' <=> Tells(answer, f)
    BY <1>0, SameMessages DEF QuietInv
<1>2. OneBrowser'
    BY <1>0, <1>1 DEF QuietInv, OneBrowser, Sockets
<1>3. DraftsUntouched'
    BY <1>0, <1>1 DEF QuietInv, DraftsUntouched
<1>4. ASSUME NEW c \in Connections, NEW e \in drafted
      PROVE  /\ recorded[e] = page[c][e]
             /\ \A i \in DOMAIN answers[c] : ~Tells(answers[c][i], e)
    <2>1. Untouched(e) /\ recorded[e] = NoValue /\ page[c][e] = NoValue
        BY DEF QuietInv, DraftsUntouched, PageTypeOK
    <2>2. ASSUME NEW i \in DOMAIN answers[c], Tells(answers[c][i], e)
          PROVE  FALSE
        <3>1. pending[answers[c][i].id] # 0 /\ answers[c][i].id \in RequestIds
            BY Parts DEF QuietInv, OnTheWay
        <3>2. /\ pending[answers[c][i].id] \in DOMAIN calls
              /\ calls[pending[answers[c][i].id]].owner # None
            BY <3>1, Parts
        <3> QED BY <2>1, <2>2, <3>2 DEF Tells, Untouched
    <2> QED BY <2>1, <2>2
<1>5. LatestTold'
    BY <1>0, <1>1, <1>4 DEF QuietInv, LatestTold
<1> QED BY <1>1, <1>2, <1>3, <1>5 DEF QuietInv

\* A call is added that ends at once, or one whose command goes to the open sockets of
\* the owner.
LEMMA CallCases ==
    ASSUME HubTypeOK, AnswersInv, NEW call \in CallSet, CallTool(call)
    PROVE  \E x \in Call :
               /\ calls' = Append(calls, x)
               /\ \/ x.owner = None /\ UNCHANGED <<pending, commands>>
                  \/ /\ x.owner # None /\ x.owner = owners[call.selection]
                     /\ x.selection = call.selection /\ x.id = call.id
                     /\ call.selection \in context
                     /\ pending' = [pending EXCEPT ![call.id] = Len(calls')]
                     /\ commands' = commands \cup
                          {[socket |-> s, id |-> call.id, selection |-> call.selection,
                            value |-> call.value] : s \in OpenOf(x.owner)}
<1>0. /\ call.session \in Sessions /\ call.id \in RequestIds /\ call.selection \in Selections
      /\ call.value \in Nat /\ recent \in Seq(Entry)
    BY DEF CallSet, Unsafe, AnswersInv, BookInv, BookTypeOK, CallTool
<1>1. \A result \in Result : Ended(call, result) \in Call /\ Ended(call, result).owner = None
    BY <1>0 DEF Ended, Call
<1>2. NoResult \in Result
    BY DEF NoResult, Result, NoValue
<1>3. CASE Cached(call) # {}
    <2>1. PICK i \in Cached(call) : calls' = Append(calls, Ended(call, recent[i].result))
        BY <1>3 DEF CallTool
    <2>2. recent[i] \in Entry
        BY <1>0 DEF Cached
    <2>3. recent[i].result \in Result
        BY <2>2 DEF Entry
    <2>4. UNCHANGED <<pending, commands>>
        BY <1>3 DEF CallTool
    <2> QED BY <1>1, <2>1, <2>3, <2>4
<1>4. CASE Cached(call) = {} /\ RefusedAtOnce(call)
    <2>1. calls' = Append(calls, Ended(call, NoResult)) /\ UNCHANGED <<pending, commands>>
        BY <1>4 DEF CallTool
    <2> QED BY <1>1, <1>2, <2>1
<1>5. CASE Cached(call) = {} /\ ~RefusedAtOnce(call)
    <2> DEFINE owner == owners[call.selection]
               x == Sent(call, owner)
    <2>1. /\ calls' = Append(calls, x)
          /\ pending' = [pending EXCEPT ![call.id] = Len(calls')]
          /\ commands' = commands \cup
               {[socket |-> s, id |-> call.id, selection |-> call.selection, value |-> call.value] :
                  s \in OpenOf(owner)}
        BY <1>5 DEF CallTool
    <2>2. owner \in Connections /\ owner # None /\ call.selection \in context
        BY <1>0, <1>5, PreviewAssumption DEF RefusedAtOnce, HubTypeOK
    <2>3. x \in Call /\ x.owner = owner /\ x.selection = call.selection /\ x.id = call.id
        <3>1. /\ Ended(call, NoResult) \in Call
              /\ Ended(call, NoResult).selection = call.selection /\ Ended(call, NoResult).id = call.id
            BY <1>1, <1>2 DEF Ended
        <3> HIDE DEF owner
        <3> QED BY <2>2, <3>1 DEF Sent, Call
    <2> HIDE DEF x
    <2> QED BY <2>1, <2>2, <2>3
<1> QED BY <1>3, <1>4, <1>5

\* A call sends one command for a selection of the context, under an id that nothing on
\* its way has.
LEMMA CallKeepsLatest ==
    ASSUME HubTypeOK, AnswersInv, AnswersInv', PageTypeOK, Quiet, QuietInv,
           NEW call \in CallSet, CallTool(call)
    PROVE  QuietInv'
<1> DEFINE new == Len(calls) + 1
<1>0. UNCHANGED <<scenario, sockets, creating, owners, drafted, context, recorded, page, answers>>
    BY DEF CallTool, hubVars, batchVars
<1>1. call.id \in RequestIds /\ call.selection \in Selections
    BY DEF CallSet
<1>2. PICK x \in Call :
          /\ calls' = Append(calls, x)
          /\ \/ x.owner = None /\ UNCHANGED <<pending, commands>>
             \/ /\ x.owner # None /\ x.owner = owners[call.selection]
                /\ x.selection = call.selection /\ x.id = call.id
                /\ call.selection \in context
                /\ pending' = [pending EXCEPT ![call.id] = Len(calls')]
                /\ commands' = commands \cup
                     {[socket |-> s, id |-> call.id, selection |-> call.selection,
                       value |-> call.value] : s \in OpenOf(x.owner)}
    BY CallCases
<1>3. /\ calls \in Seq(Call) /\ pending \in [RequestIds -> Nat]
      /\ \A id \in RequestIds : pending[id] # 0 => pending[id] \in DOMAIN calls
    BY DEF AnswersInv, BookInv, BookTypeOK
<1>4. /\ new \in Nat /\ new # 0 /\ new \notin DOMAIN calls /\ Len(calls') = new
      /\ DOMAIN calls' = DOMAIN calls \cup {new}
      /\ calls'[new] = x
      /\ \A n \in DOMAIN calls : calls'[n] = calls[n]
    BY <1>2, <1>3, AppendFacts
<1> HIDE DEF new
<1>5. \A c : Here(c)' <=> Here(c)
    BY <1>0 DEF Here, Sockets
<1>6. x.owner # None => x.owner \in Connections /\ Here(x.owner)
    BY <1>1, <1>2 DEF QuietInv, OneBrowser, Call
<1>7. OneBrowser'
    BY <1>0, <1>4, <1>5, <1>6 DEF QuietInv, OneBrowser, Sockets
<1>8. \A e : Untouched(e)' <=> Untouched(e) /\ (x.selection = e => x.owner = None)
    BY <1>4 DEF Untouched
<1>9. DraftsUntouched'
    <2>1. \A e : e \in drafted \/ (\E y \in creating : y[1] = e) =>
              ~(x.selection = e /\ x.owner # None)
        BY <1>2 DEF QuietInv, DraftsUntouched
    <2> QED BY <1>0, <1>8, <2>1 DEF QuietInv, DraftsUntouched
<1>10. CASE x.owner = None
    <2>1. UNCHANGED <<pending, commands>>
        BY <1>2, <1>10
    <2>2. ASSUME NEW id \in RequestIds, pending[id] # 0
          PROVE  calls'[pending'[id]] = calls[pending[id]]
        BY <1>3, <1>4, <2>1, <2>2
    <2>3. OnTheWay'
        <3>1. \A m \in commands :
                  /\ m.socket \in Sockets' /\ pending'[m.id] # 0
                  /\ calls'[pending'[m.id]].selection = m.selection
            BY <1>0, <2>1, <2>2, Parts DEF QuietInv, OnTheWay, Sockets
        <3> QED BY <1>0, <1>5, <2>1, <3>1 DEF QuietInv, OnTheWay
    <2>4. \A c \in Connections : \A i \in DOMAIN answers[c] : \A e :
              Tells(answers[c][i], e)' <=> Tells(answers[c][i], e)
        BY <1>0, <2>2, Parts DEF Tells, QuietInv, OnTheWay
    <2>5. LatestTold'
        BY <1>0, <1>5, <2>4 DEF QuietInv, LatestTold
    <2> QED BY <1>7, <1>9, <2>3, <2>5 DEF QuietInv
<1>11. CASE x.owner # None
    <2> DEFINE c == x.owner
               command == [socket |-> 1, id |-> call.id, selection |-> call.selection,
                           value |-> call.value]
    <2>1. /\ pending' = [pending EXCEPT ![call.id] = new] /\ x.id = call.id
          /\ x.selection = call.selection
        BY <1>2, <1>4, <1>11
    <2>2. commands' = commands \cup {command} /\ 1 \in Sockets
        <3>1. PICK s \in Sockets : sockets[s].of = c
            BY <1>6, <1>11 DEF Here
        <3>2. s = 1 /\ \A t \in Sockets : t = 1 /\ sockets[t].state = "open"
            BY DEF QuietInv, OneBrowser
        <3>3. OpenOf(c) = {1}
            BY <3>1, <3>2 DEF OpenOf, Bound
        <3> QED BY <1>2, <1>11, <3>2, <3>3
    <2>3. ASSUME NEW id \in RequestIds, pending[id] # 0
          PROVE  id # call.id /\ pending'[id] = pending[id] /\ calls'[pending[id]] = calls[pending[id]]
        <3>1. /\ pending[id] \in DOMAIN calls /\ calls[pending[id]].id = id
              /\ calls[pending[id]].owner # None
            BY <2>3, Parts
        <3>2. Without({"sameid"})'
            BY <1>0 DEF Quiet, Without
        <3>3. id # call.id
            BY <1>4, <1>11, <2>1, <3>1, <3>2 DEF AnswersInv, BookInv, SentOnce
        <3> QED BY <1>1, <1>3, <1>4, <2>1, <3>1, <3>3
    <2>4. pending'[call.id] = new /\ calls'[new].selection = call.selection
        BY <1>1, <1>3, <1>4, <2>1
    <2>5. \A m \in commands : /\ m.id \in RequestIds /\ pending[m.id] # 0 /\ m.id # call.id
                              /\ pending'[m.id] # 0
                              /\ calls'[pending'[m.id]].selection = m.selection
        BY <2>3, Parts DEF QuietInv, OnTheWay
    <2>6. \A d \in Connections : \A i \in DOMAIN answers[d] :
              /\ pending[answers[d][i].id] # 0 /\ answers[d][i].id # call.id
              /\ pending'[answers[d][i].id] = pending[answers[d][i].id]
              /\ calls'[pending[answers[d][i].id]] = calls[pending[answers[d][i].id]]
        BY <2>3, Parts DEF QuietInv, OnTheWay
    <2>7. OnTheWay'
        <3>1. /\ command.socket \in Sockets /\ command.id = call.id
              /\ command.selection = call.selection
            BY <2>2
        <3> HIDE DEF command
        <3>2. \A m \in commands' : /\ m.socket \in Sockets'
                                   /\ pending'[m.id] # 0
                                   /\ calls'[pending'[m.id]].selection = m.selection
            BY <1>0, <1>4, <2>2, <2>4, <2>5, <3>1 DEF QuietInv, OnTheWay, Sockets
        <3>3. \A l, m \in commands' : l.id = m.id => l = m
            BY <2>2, <2>5, <3>1 DEF QuietInv, OnTheWay
        <3>4. \A d \in Connections : \A i \in DOMAIN answers'[d] :
                  /\ Here(d)'
                  /\ pending'[answers'[d][i].id] # 0
                  /\ \A m \in commands' : m.id # answers'[d][i].id
                  /\ \A j \in DOMAIN answers'[d] : answers'[d][i].id = answers'[d][j].id => i = j
            BY <1>0, <1>5, <2>2, <2>6, <3>1 DEF QuietInv, OnTheWay
        <3> QED BY <3>2, <3>3, <3>4 DEF OnTheWay
    <2>8. \A d \in Connections : \A i \in DOMAIN answers[d] : \A e :
              Tells(answers[d][i], e)' <=> Tells(answers[d][i], e)
        BY <1>0, <2>6 DEF Tells
    <2>9. LatestTold'
        BY <1>0, <1>5, <2>8 DEF QuietInv, LatestTold
    <2> QED BY <1>7, <1>9, <2>7, <2>9 DEF QuietInv
<1> QED BY <1>10, <1>11

\* An answer that arrives is recorded, which may be the last one that tells of its
\* selection; what other answers tell stays.
LEMMA AnswerKeepsLatest ==
    ASSUME HubTypeOK, AnswersInv, PageTypeOK, Quiet, QuietInv,
           NEW c \in Connections, AnswerArrives(c)
    PROVE  QuietInv'
<1> DEFINE q == Tail(answers[c])
           answer == answers[c][1]
           n == pending[answer.id]
           selection == calls[n].selection
           counts == answer.ok /\ selection \in context
           result == IF counts THEN Applied(answer.value) ELSE NoResult
<1>0. UNCHANGED <<scenario, sockets, creating, owners, drafted, context, commands, page>>
    BY DEF AnswerArrives, hubVars, batchVars
<1>1. answers[c] \in Seq(Answer) /\ answers[c] # <<>> /\ Head(answers[c]) = answer
      /\ answers' = [answers EXCEPT ![c] = q]
    <2>1. answers[c] \in Seq(Answer)
        BY DEF AnswersInv, MessagesTypeOK
    <2>2. answers[c] # <<>> /\ answers' = [answers EXCEPT ![c] = q]
        BY DEF AnswerArrives
    <2>3. Head(answers[c]) = answer
        BY <2>1, <2>2
    <2> QED BY <2>1, <2>2, <2>3
<1>2. /\ DOMAIN answers[c] = 1 .. Len(answers[c]) /\ Len(answers[c]) \in Nat \ {0}
      /\ DOMAIN q = 1 .. (Len(answers[c]) - 1)
      /\ \A i \in 1 .. (Len(answers[c]) - 1) : q[i] = answers[c][i + 1]
    BY <1>1, TailFacts
<1>3. /\ answers'[c] = q
      /\ \A d \in Connections : d # c => answers'[d] = answers[d]
    BY <1>1 DEF AnswersInv, MessagesTypeOK
<1>4. /\ \A i \in DOMAIN q : /\ i \in Nat /\ i + 1 \in DOMAIN answers[c] /\ i + 1 # 1
                             /\ q[i] = answers[c][i + 1]
      /\ \A i \in DOMAIN answers[c] : i # 1 => i - 1 \in DOMAIN q /\ i \in Nat
      /\ 1 \in DOMAIN answers[c]
      /\ \A i \in DOMAIN answers[c] : i \in Nat /\ 1 <= i
    BY <1>2
<1>5. /\ answer.id \in RequestIds /\ answer.value \in Nat /\ n # 0
      /\ n \in DOMAIN calls /\ calls[n].id = answer.id /\ calls[n].owner # None
      /\ selection \in Selections /\ Here(c)
    BY <1>4, Parts DEF QuietInv, OnTheWay
<1> HIDE DEF q
<1>6. calls[n].owner = c
    <2>1. Here(calls[n].owner)
        BY <1>5 DEF QuietInv, OneBrowser
    <2> QED BY <1>5, <2>1 DEF Here, QuietInv, OneBrowser
<1>7. /\ pending' = [pending EXCEPT ![answer.id] = 0]
      /\ Ends(n, result)
      /\ recorded' = IF result.ok THEN [recorded EXCEPT ![selection] = answer.value] ELSE recorded
    BY <1>1, <1>5, <1>6 DEF AnswerArrives, Recorded
<1>8. result.ok = counts
    BY DEF Applied, NoResult
<1>9. recorded' = IF counts THEN [recorded EXCEPT ![selection] = answer.value] ELSE recorded
    BY <1>7, <1>8
<1>10. /\ DOMAIN calls' = DOMAIN calls
       /\ \A m \in DOMAIN calls : /\ calls'[m].selection = calls[m].selection
                                  /\ calls'[m].owner = calls[m].owner
    <2>1. calls' = [calls EXCEPT ![n] = [calls[n] EXCEPT !.timer = FALSE, !.state = "ended",
                                                         !.result = result]]
        BY <1>7 DEF Ends
    <2>2. calls[n] \in Call
        BY <1>5 DEF AnswersInv, BookInv, BookTypeOK
    <2>3. /\ [calls[n] EXCEPT !.timer = FALSE, !.state = "ended", !.result = result].selection
               = calls[n].selection
          /\ [calls[n] EXCEPT !.timer = FALSE, !.state = "ended", !.result = result].owner
               = calls[n].owner
        BY <2>2 DEF Call
    <2> HIDE DEF n, result
    <2> QED BY <2>1, <2>3
<1> HIDE DEF result
<1>11. \A id \in RequestIds : id # answer.id => pending'[id] = pending[id]
    BY <1>7 DEF AnswersInv, BookInv, BookTypeOK
<1>12. \A d : Here(d)' <=> Here(d)
    BY <1>0 DEF Here, Sockets
<1>13. \A e : Untouched(e)' <=> Untouched(e)
    BY <1>10 DEF Untouched
<1>14. OneBrowser'
    BY <1>0, <1>10, <1>12 DEF QuietInv, OneBrowser, Sockets
<1>15. DraftsUntouched'
    <2>1. ~Untouched(selection)
        BY <1>5 DEF Untouched
    <2>2. \A e \in Selections : Untouched(e) => recorded'[e] = recorded[e]
        BY <1>5, <1>9, <2>1 DEF PageTypeOK
    <2> QED BY <1>0, <1>13, <2>2 DEF QuietInv, DraftsUntouched
<1>16. \A m \in commands : /\ m.id \in RequestIds /\ m.id # answer.id /\ pending'[m.id] = pending[m.id]
                           /\ pending[m.id] \in DOMAIN calls
    BY <1>4, <1>11, Parts DEF QuietInv, OnTheWay
<1>17. ASSUME NEW d \in Connections, NEW i \in DOMAIN answers'[d]
       PROVE  \E j \in DOMAIN answers[d] :
                  /\ answers'[d][i] = answers[d][j] /\ j = i + 1 /\ i \in Nat /\ d = c
                  /\ answers[d][j].id \in RequestIds /\ answers[d][j].id # answer.id
                  /\ pending'[answers[d][j].id] = pending[answers[d][j].id]
                  /\ pending[answers[d][j].id] \in DOMAIN calls
    <2>1. d = c
        <3>1. CASE d # c
            <4>1. i \in DOMAIN answers[d]
                BY <1>3, <3>1
            <4>2. Here(d)
                BY <4>1 DEF QuietInv, OnTheWay
            <4> QED BY <1>5, <4>2 DEF Here, QuietInv, OneBrowser
        <3> QED BY <3>1
    <2>2. /\ i \in Nat /\ i + 1 \in DOMAIN answers[c] /\ i + 1 # 1
          /\ answers'[c][i] = answers[c][i + 1]
        BY <1>3, <1>4, <2>1
    <2>3. answers[c][i + 1].id # answer.id
        BY <1>4, <2>2 DEF QuietInv, OnTheWay
    <2>4. /\ answers[c][i + 1].id \in RequestIds
          /\ pending[answers[c][i + 1].id] # 0
          /\ pending[answers[c][i + 1].id] \in DOMAIN calls
        BY <2>2, Parts DEF QuietInv, OnTheWay
    <2> QED BY <1>11, <2>1, <2>2, <2>3, <2>4
<1>18. OnTheWay'
    <2>1. \A m \in commands' : /\ m.socket \in Sockets'
                               /\ pending'[m.id] # 0
                               /\ calls'[pending'[m.id]].selection = m.selection
        BY <1>0, <1>10, <1>16 DEF QuietInv, OnTheWay, Sockets
    <2>2. ASSUME NEW d \in Connections, NEW i \in DOMAIN answers'[d]
          PROVE  /\ Here(d)'
                 /\ pending'[answers'[d][i].id] # 0
                 /\ \A m \in commands' : m.id # answers'[d][i].id
        BY <1>0, <1>12, <1>17 DEF QuietInv, OnTheWay
    <2>3. ASSUME NEW d \in Connections, NEW i \in DOMAIN answers'[d], NEW j \in DOMAIN answers'[d],
                 answers'[d][i].id = answers'[d][j].id
          PROVE  i = j
        <3>1. /\ i \in Nat /\ i + 1 \in DOMAIN answers[d] /\ answers'[d][i] = answers[d][i + 1]
              /\ j \in Nat /\ j + 1 \in DOMAIN answers[d] /\ answers'[d][j] = answers[d][j + 1]
            BY <1>17
        <3>2. i + 1 = j + 1
            BY <2>3, <3>1 DEF QuietInv, OnTheWay
        <3> QED BY <3>1, <3>2
    <2> QED BY <1>0, <2>1, <2>2, <2>3 DEF QuietInv, OnTheWay
<1>19. ASSUME NEW i \in DOMAIN answers'[c], NEW e
       PROVE  /\ i \in Nat /\ i + 1 \in DOMAIN answers[c] /\ i + 1 # 1
              /\ answers'[c][i] = answers[c][i + 1]
              /\ Tells(answers[c][i], e)' <=> Tells(answers[c][i + 1], e)
    <2>1. PICK j \in DOMAIN answers[c] :
              /\ answers'[c][i] = answers[c][j] /\ j = i + 1 /\ i \in Nat
              /\ pending'[answers[c][j].id] = pending[answers[c][j].id]
              /\ pending[answers[c][j].id] \in DOMAIN calls
        BY <1>17
    <2>2. j # 1
        BY <1>3, <1>4, <2>1
    <2> QED BY <1>10, <2>1, <2>2 DEF Tells
<1>20. \A e : Tells(answer, e) <=> answer.ok /\ selection = e
    BY DEF Tells
<1>21. \A e \in context : recorded'[e] = IF Tells(answer, e) THEN answer.value ELSE recorded[e]
    <2>1. selection \in Selections /\ context \subseteq Selections /\ recorded \in [Selections -> Nat]
        BY <1>5 DEF PageTypeOK
    <2> HIDE DEF answer, selection
    <2> QED BY <1>9, <1>20, <2>1
<1>22. ASSUME NEW e \in context
       PROVE  /\ (\A i \in DOMAIN answers'[c] : ~Tells(answers[c][i], e)')
                     => recorded'[e] = page[c][e]
              /\ \A i \in DOMAIN answers'[c] :
                    /\ Tells(answers[c][i], e)'
                    /\ \A j \in DOMAIN answers'[c] : Tells(answers[c][j], e)' => j <= i
                    => answers'[c][i].value = page[c][e]
    <2>0. /\ (\A i \in DOMAIN answers[c] : ~Tells(answers[c][i], e)) => recorded[e] = page[c][e]
          /\ \A i \in DOMAIN answers[c] :
                /\ Tells(answers[c][i], e)
                /\ \A j \in DOMAIN answers[c] : Tells(answers[c][j], e) => j <= i
                => answers[c][i].value = page[c][e]
        BY <1>5 DEF QuietInv, LatestTold
    <2>1. \A i \in DOMAIN answers[c] : i # 1 => i \in Nat /\ i - 1 \in DOMAIN answers'[c] /\ (i - 1) + 1 = i
        BY <1>3, <1>4
    <2>2. ASSUME \A i \in DOMAIN answers'[c] : ~Tells(answers[c][i], e)'
          PROVE  recorded'[e] = page[c][e]
        <3>1. \A i \in DOMAIN answers[c] : i # 1 => ~Tells(answers[c][i], e)
            <4> TAKE i \in DOMAIN answers[c]
            <4> HAVE i # 1
            <4>1. PICK k \in DOMAIN answers'[c] : k + 1 = i
                BY <2>1
            <4> QED BY <1>19, <2>2, <4>1
        <3>2. CASE Tells(answer, e)
            <4>1. answers[c][1].value = page[c][e]
                <5>1. \A j \in DOMAIN answers[c] : Tells(answers[c][j], e) => j = 1
                    BY <3>1
                <5> QED BY <1>4, <2>0, <3>2, <5>1
            <4> QED BY <1>21, <3>2, <4>1
        <3>3. CASE ~Tells(answer, e)
            <4>1. \A i \in DOMAIN answers[c] : ~Tells(answers[c][i], e)
                BY <3>1, <3>3
            <4> QED BY <1>21, <2>0, <3>3, <4>1
        <3> QED BY <3>2, <3>3
    <2>3. ASSUME NEW i \in DOMAIN answers'[c], Tells(answers[c][i], e)',
                 \A j \in DOMAIN answers'[c] : Tells(answers[c][j], e)' => j <= i
          PROVE  answers'[c][i].value = page[c][e]
        <3>1. /\ i \in Nat /\ i + 1 \in DOMAIN answers[c]
              /\ answers'[c][i] = answers[c][i + 1] /\ Tells(answers[c][i + 1], e)
            BY <1>19, <2>3
        <3>2. ASSUME NEW j \in DOMAIN answers[c], Tells(answers[c][j], e)
              PROVE  j <= i + 1
            <4>1. CASE j = 1
                BY <3>1, <4>1
            <4>2. CASE j # 1
                <5>1. PICK k \in DOMAIN answers'[c] : k + 1 = j
                    BY <2>1, <4>2
                <5>2. k \in Nat /\ k <= i
                    BY <1>19, <2>3, <3>2, <5>1
                <5> QED BY <3>1, <5>1, <5>2
            <4> QED BY <4>1, <4>2
        <3> QED BY <2>0, <3>1, <3>2
    <2> QED BY <2>2, <2>3
<1>23. LatestTold'
    <2>1. \A d \in Connections : Here(d)' => d = c
        BY <1>5, <1>12 DEF Here, QuietInv, OneBrowser
    <2> QED BY <1>0, <1>22, <2>1 DEF LatestTold
<1> QED BY <1>14, <1>15, <1>18, <1>23 DEF QuietInv

\* The browser that receives a command puts an answer last: it tells of the value it
\* applied, or of none.
LEMMA ReplyKeepsLatest ==
    ASSUME HubTypeOK, AnswersInv, PageTypeOK, Quiet, QuietInv,
           NEW m \in commands, NEW c \in Connections, BrowserApplies(m, c) \/ BrowserRefuses(m, c)
    PROVE  QuietInv'
<1>0. /\ UNCHANGED <<scenario, sockets, creating, owners, drafted, context, calls, pending, recorded>>
      /\ commands' = commands \ {m} /\ Here(c)
    <2>1. sockets[m.socket].of = c /\ m.socket \in Sockets
        BY DEF BrowserApplies, BrowserRefuses, Receives, QuietInv, OnTheWay
    <2> QED BY <2>1 DEF BrowserApplies, BrowserRefuses, Receives, hubVars, batchVars, callVars, Here
<1>1. m.id \in RequestIds /\ m.selection \in Selections /\ m.value \in Nat
    BY Parts
<1>2. PICK reply \in Answer :
          /\ reply.id = m.id
          /\ answers' = [answers EXCEPT ![c] = Append(answers[c], reply)]
          /\ \/ reply.ok /\ reply.value = m.value /\ page' = [page EXCEPT ![c][m.selection] = m.value]
             \/ ~reply.ok /\ page' = page
    <2>1. CASE BrowserApplies(m, c)
        <3>1. [id |-> m.id, ok |-> TRUE, value |-> m.value] \in Answer
            BY <1>1 DEF Answer
        <3> QED BY <2>1, <3>1 DEF BrowserApplies
    <2>2. CASE BrowserRefuses(m, c)
        <3>1. [id |-> m.id, ok |-> FALSE, value |-> NoValue] \in Answer
            BY <1>1 DEF Answer, NoValue
        <3> QED BY <2>2, <3>1 DEF BrowserRefuses
    <2> QED BY <2>1, <2>2
<1>3. PICK last \in Nat :
          answers[c] \in Seq(Answer) /\ Len(answers[c]) \in Nat /\ last = Len(answers[c]) + 1
    <2>1. answers[c] \in Seq(Answer)
        BY DEF AnswersInv, MessagesTypeOK
    <2> QED BY <2>1
<1>4. /\ \A d \in Connections : d # c => answers'[d] = answers[d]
      /\ DOMAIN answers'[c] = DOMAIN answers[c] \cup {last}
      /\ \A i \in DOMAIN answers[c] : i \in Nat /\ i < last /\ answers'[c][i] = answers[c][i]
      /\ answers'[c][last] = reply /\ last \in Nat
    <2>1. /\ answers'[c] = Append(answers[c], reply)
          /\ \A d \in Connections : d # c => answers'[d] = answers[d]
        BY <1>2 DEF AnswersInv, MessagesTypeOK
    <2> QED BY <1>3, <2>1, AppendFacts
<1>5. \A d : Here(d)' <=> Here(d)
    BY <1>0 DEF Here, Sockets
<1>6. \A d \in Connections : Here(d) => d = c
    BY <1>0 DEF Here, QuietInv, OneBrowser
<1>7. \A d \in Connections : DOMAIN answers'[d] # {} => d = c
    BY <1>4, <1>6 DEF QuietInv, OnTheWay
<1>8. \A e : Untouched(e)' <=> Untouched(e)
    BY <1>0 DEF Untouched
<1>9. /\ pending[m.id] # 0 /\ calls[pending[m.id]].selection = m.selection
      /\ pending[m.id] \in DOMAIN calls /\ calls[pending[m.id]].owner # None
    BY <1>1, Parts DEF QuietInv, OnTheWay
<1>10. OneBrowser'
    BY <1>0, <1>5 DEF QuietInv, OneBrowser, Sockets
<1>11. \A d \in Connections, e \in Selections :
           page'[d][e] = IF reply.ok /\ d = c /\ e = m.selection THEN m.value ELSE page[d][e]
    BY <1>1, <1>2 DEF PageTypeOK
<1>12. DraftsUntouched'
    <2>1. ~Untouched(m.selection)
        BY <1>9 DEF Untouched
    <2> QED BY <1>0, <1>8, <1>11, <2>1 DEF QuietInv, DraftsUntouched
<1>13. OnTheWay'
    <2>1. \A l \in commands' : /\ l.socket \in Sockets'
                               /\ pending'[l.id] # 0
                               /\ calls'[pending'[l.id]].selection = l.selection
        BY <1>0 DEF QuietInv, OnTheWay, Sockets
    <2>2. \A l \in commands' : l.id # m.id
        BY <1>0 DEF QuietInv, OnTheWay
    <2>3. ASSUME NEW i \in DOMAIN answers'[c]
          PROVE  /\ pending'[answers'[c][i].id] # 0
                 /\ \A l \in commands' : l.id # answers'[c][i].id
                 /\ \A j \in DOMAIN answers'[c] : answers'[c][i].id = answers'[c][j].id => i = j
        <3>1. \A j \in DOMAIN answers[c] : answers[c][j].id # m.id
            BY DEF QuietInv, OnTheWay
        <3>2. CASE i = last
            BY <1>0, <1>2, <1>4, <1>9, <2>2, <3>1, <3>2
        <3>3. CASE i # last
            <4>1. i \in DOMAIN answers[c] /\ answers'[c][i] = answers[c][i]
                BY <1>4, <3>3
            <4>2. /\ pending[answers[c][i].id] # 0
                  /\ \A l \in commands : l.id # answers[c][i].id
                  /\ \A j \in DOMAIN answers[c] : answers[c][i].id = answers[c][j].id => i = j
                BY <4>1 DEF QuietInv, OnTheWay
            <4> QED BY <1>0, <1>2, <1>4, <3>1, <4>1, <4>2
        <3> QED BY <3>2, <3>3
    <2> QED BY <1>0, <1>5, <1>7, <2>1, <2>3 DEF QuietInv, OnTheWay
<1>14. \A e, i : i \in DOMAIN answers[c] => (Tells(answers[c][i], e)' <=> Tells(answers[c][i], e))
    BY <1>0, <1>4 DEF Tells
<1>15. \A e : Tells(answers[c][last], e)' <=> reply.ok /\ e = m.selection
    <2>1. \A e : Tells(answers[c][last], e)' <=>
              answers'[c][last].ok /\ calls'[pending'[answers'[c][last].id]].selection = e
        BY <1>0, <1>4 DEF Tells
    <2> QED BY <1>0, <1>2, <1>4, <1>9, <2>1
<1>16. ASSUME NEW e \in context
       PROVE  /\ (\A i \in DOMAIN answers'[c] : ~Tells(answers[c][i], e)')
                     => recorded[e] = page'[c][e]
              /\ \A i \in DOMAIN answers'[c] :
                    /\ Tells(answers[c][i], e)'
                    /\ \A j \in DOMAIN answers'[c] : Tells(answers[c][j], e)' => j <= i
                    => answers'[c][i].value = page'[c][e]
    <2>0. /\ (\A i \in DOMAIN answers[c] : ~Tells(answers[c][i], e)) => recorded[e] = page[c][e]
          /\ \A i \in DOMAIN answers[c] :
                /\ Tells(answers[c][i], e)
                /\ \A j \in DOMAIN answers[c] : Tells(answers[c][j], e) => j <= i
                => answers[c][i].value = page[c][e]
          /\ e \in Selections
        BY <1>0 DEF QuietInv, LatestTold, PageTypeOK
    <2>1. CASE reply.ok /\ e = m.selection
        <3>1. page'[c][e] = m.value /\ Tells(answers[c][last], e)' /\ last \in DOMAIN answers'[c]
              /\ answers'[c][last].value = m.value
            BY <1>2, <1>4, <1>11, <1>15, <2>0, <2>1
        <3>2. ASSUME NEW i \in DOMAIN answers'[c],
                     \A j \in DOMAIN answers'[c] : Tells(answers[c][j], e)' => j <= i
              PROVE  i = last
            <4>1. last <= i
                BY <3>1, <3>2
            <4> QED BY <1>3, <1>4, <4>1
        <3> QED BY <3>1, <3>2
    <2>2. CASE ~(reply.ok /\ e = m.selection)
        <3>1. page'[c][e] = page[c][e] /\ ~Tells(answers[c][last], e)'
            BY <1>11, <1>15, <2>0, <2>2
        <3>2. \A i \in DOMAIN answers'[c] :
                  Tells(answers[c][i], e)' <=> i # last /\ i \in DOMAIN answers[c] /\ Tells(answers[c][i], e)
            BY <1>4, <1>14, <3>1
        <3>3. \A i \in DOMAIN answers[c] : i \in DOMAIN answers'[c] /\ answers'[c][i] = answers[c][i] /\ i # last
            BY <1>3, <1>4
        <3>4. ASSUME \A i \in DOMAIN answers'[c] : ~Tells(answers[c][i], e)'
              PROVE  recorded[e] = page'[c][e]
            BY <2>0, <3>1, <3>2, <3>3, <3>4
        <3>5. ASSUME NEW i \in DOMAIN answers'[c], Tells(answers[c][i], e)',
                     \A j \in DOMAIN answers'[c] : Tells(answers[c][j], e)' => j <= i
              PROVE  answers'[c][i].value = page'[c][e]
            BY <2>0, <3>1, <3>2, <3>3, <3>5
        <3> QED BY <3>4, <3>5
    <2> QED BY <2>1, <2>2
<1>17. LatestTold'
    <2>1. \A d \in Connections : Here(d)' => d = c
        BY <1>5, <1>6
    <2> QED BY <1>0, <1>16, <2>1 DEF LatestTold
<1> QED BY <1>10, <1>12, <1>13, <1>17 DEF QuietInv

\* Every step of the quiet circumstances keeps what is known of them.
LEMMA StepKeepsLatest ==
    ASSUME HubTypeOK, AnswersInv, AnswersInv', LatestInv, [Next]_vars
    PROVE  LatestInv'
<1>1. PageTypeOK'
    BY StepPageType DEF LatestInv
<1>2. Quiet' = Quiet
    <2>1. scenario' = scenario
        BY DEF Next, vars, Bind, Lose, Revoke, Closed, CreateArrives, CreateEnds, SendDraft,
               RemoveArrives, LeavesContext, CallTool, Timeout, AnswerArrives, BrowserApplies,
               BrowserRefuses
    <2> QED BY <2>1 DEF Quiet, Without
<1> SUFFICES ASSUME Quiet PROVE QuietInv'
    BY <1>1, <1>2 DEF LatestInv
<1>3. PageTypeOK /\ QuietInv
    BY DEF LatestInv
<1>4. ASSUME NEW c \in Connections, Bind(c)
      PROVE  QuietInv'
    BY <1>3, <1>4, BindKeepsLatest
<1>5. ASSUME NEW s \in Sockets, NEW e \in Selections, CreateArrives(s, e)
      PROVE  QuietInv'
    BY <1>3, <1>5, ArrivalKeepsLatest
<1>6. ASSUME NEW e \in Selections, NEW c \in Connections, CreateEnds(e, c)
      PROVE  QuietInv'
    BY <1>3, <1>6, AttachKeepsLatest
<1>7. ASSUME NEW session \in Sessions, SendDraft(session)
      PROVE  QuietInv'
    BY <1>3, <1>7, SendKeepsLatest
<1>8. ASSUME NEW call \in CallSet, CallTool(call)
      PROVE  QuietInv'
    BY <1>3, <1>8, CallKeepsLatest
<1>9. ASSUME NEW c \in Connections, AnswerArrives(c)
      PROVE  QuietInv'
    BY <1>3, <1>9, AnswerKeepsLatest
<1>10. ASSUME NEW m \in commands, NEW c \in Connections, BrowserApplies(m, c) \/ BrowserRefuses(m, c)
       PROVE  QuietInv'
    BY <1>3, <1>10, ReplyKeepsLatest
<1>11. ASSUME NEW s \in Sockets
       PROVE  ~Closed(s)
    BY <1>3 DEF Closed, QuietInv, OneBrowser
<1>12. /\ \A s : ~Lose(s)
       /\ \A c : ~Revoke(c)
       /\ \A s, e : ~RemoveArrives(s, e)
       /\ \A e : ~LeavesContext(e)
       /\ \A n : ~Timeout(n)
    BY DEF Lose, Revoke, RemoveArrives, LeavesContext, Timeout, Quiet, Without
<1>13. CASE UNCHANGED vars
    <2>1. UNCHANGED <<sockets, creating, owners, drafted, context, calls, pending, recorded,
                      commands, page, answers>>
        BY <1>13 DEF vars, hubVars, batchVars, callVars, browserVars
    <2>2. /\ OnTheWay'
          /\ \A c : Here(c)' <=> Here(c)
          /\ \A e : Untouched(e)' <=> Untouched(e)
          /\ \A answer, e : Tells(answer, e)' <=> Tells(answer, e)
        BY <1>3, <2>1, SameMessages DEF QuietInv
    <2>3. OneBrowser'
        BY <1>3, <2>1, <2>2 DEF QuietInv, OneBrowser, Sockets
    <2>4. DraftsUntouched'
        BY <1>3, <2>1, <2>2 DEF QuietInv, DraftsUntouched
    <2>5. LatestTold'
        BY <1>3, <2>1, <2>2 DEF QuietInv, LatestTold
    <2> QED BY <2>2, <2>3, <2>4, <2>5 DEF QuietInv
<1> QED
    BY <1>4, <1>5, <1>6, <1>7, <1>8, <1>9, <1>10, <1>11, <1>12, <1>13 DEF Next

\* "Latest property wins": with one browser whose answers come in time, what the context
\* records of a selection is what the page shows once every answer has arrived, also
\* after calls that overlapped.
THEOREM LatestWins == Spec => []LatestIsRecorded
<1>1. Init => LatestInv
    <2> SUFFICES ASSUME Init PROVE LatestInv
        OBVIOUS
    <2>1. NoValue \in Nat
        BY DEF NoValue
    <2>2. PageTypeOK
        BY <2>1 DEF Init, PageTypeOK
    <2>3. Sockets = {} /\ DOMAIN calls = {}
        BY DEF Init, Sockets
    <2>4. OneBrowser
        BY <2>3 DEF Init, OneBrowser
    <2>5. DraftsUntouched
        BY DEF Init, DraftsUntouched
    <2>6. OnTheWay
        BY DEF Init, OnTheWay
    <2>7. LatestTold
        BY DEF Init, LatestTold
    <2> QED BY <2>2, <2>4, <2>5, <2>6, <2>7 DEF LatestInv, QuietInv
<1>2. Spec => []AnswersInv
    BY AnswersHold
<1>3. HubTypeOK /\ AnswersInv /\ AnswersInv' /\ LatestInv /\ [Next]_vars => LatestInv'
    BY StepKeepsLatest
<1>4. HubTypeOK /\ AnswersInv /\ LatestInv => LatestIsRecorded
    <2> SUFFICES ASSUME HubTypeOK, LatestInv, Quiet,
                        NEW e \in context, NEW c \in Connections,
                        owners[e] = c, answers[c] = <<>>
                 PROVE  recorded[e] = page[c][e]
        BY DEF LatestIsRecorded, Quiet
    <2>1. QuietInv /\ e \in Selections /\ c # None
        BY PreviewAssumption DEF LatestInv, PageTypeOK
    <2>2. Here(c) /\ DOMAIN answers[c] = {}
        BY <2>1 DEF QuietInv, OneBrowser
    <2> QED BY <2>1, <2>2 DEF QuietInv, LatestTold
<1> QED BY <1>1, <1>2, <1>3, <1>4, PreviewHubTyped, PTL DEF Spec

===============================================================================

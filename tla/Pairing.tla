-------------------------------- MODULE Pairing --------------------------------
(***************************************************************************)
(* Pairing codes and credentials of the plugin (pairing.ts): an operator starts  *)
(* a pairing and gets a code, an extension completes it with the code and gets a  *)
(* token, an operator revokes it.  Starts are limited for all, failed completions  *)
(* for each extension, in fixed windows of time.                                 *)
(*                                                                         *)
(* Codes, connections and tokens are numbered as they are made; that random ones  *)
(* differ is assumed.  The clock does not go back.                               *)
(***************************************************************************)
EXTENDS Integers, Sequences, FiniteSets

CONSTANTS
    Instances,      \* extension instances
    TTL,            \* PAIRING_CODE_TTL_MS
    Window,         \* the 60 000 ms of the rate windows
    StartLimit,     \* 20 starts
    FailLimit,      \* 10 failed completions
    MaxPending,     \* MAX_PENDING_CODES
    MaxTime,        \* bound: the clock
    MaxCodes,       \* bound: codes made
    MaxFailures     \* bound: failed completions that are told apart

ASSUME PairingAssumption ==
    /\ TTL \in Nat /\ Window \in Nat
    /\ StartLimit \in Nat \ {0} /\ FailLimit \in Nat \ {0} /\ MaxPending \in Nat \ {0}
    /\ MaxTime \in Nat /\ MaxCodes \in Nat /\ MaxFailures \in Nat

VARIABLES
    now,
    issued,        \* when each code made so far expires
    pending,       \* pending: the codes that wait
    startWindow,   \* startWindow
    failWindows,   \* completeFailWindows
    connections,   \* connections, in the order they were made
    tokens,        \* tokenIndex: the connections whose token it has
    startedAt,     \* history: when a start was granted
    failedAt       \* history: when an extension failed, since it last succeeded

codeVars == <<issued, pending, startWindow, startedAt>>
failVars == <<failWindows, failedAt>>
credentialVars == <<connections, tokens>>
vars == <<now, codeVars, failVars, credentialVars>>

Codes == DOMAIN issued

-------------------------------------------------------------------------------
(* Rate windows                                                            *)

\* Mutant: a window that lasts Window is over with it.
CountedEarly(window) ==
    IF now - window.startedAt >= Window THEN [startedAt |-> now, count |-> 1]
    ELSE [window EXCEPT !.count = @ + 1]

\* A call counted in its window, or in a new one.
Counted(window) ==
    IF now - window.startedAt > Window THEN [startedAt |-> now, count |-> 1]
    ELSE [window EXCEPT !.count = @ + 1]

\* isCompleteRateLimited
Limited(i) ==
    /\ now - failWindows[i].startedAt <= Window
    /\ failWindows[i].count >= FailLimit

-------------------------------------------------------------------------------
(* Calls                                                                   *)

\* purgeExpired
Unexpired(codes) == {c \in codes : issued[c] >= now}

\* Mutant: the code that expires last goes.
EvictedNewest(codes) ==
    {c \in codes : \E d \in codes : issued[d] > issued[c] \/ (issued[d] = issued[c] /\ d > c)}

\* The code that expires first goes, of several the first.
Evicted(codes) ==
    {c \in codes : \E d \in codes : issued[d] < issued[c] \/ (issued[d] = issued[c] /\ d < c)}

Room(codes) == IF Cardinality(codes) >= MaxPending THEN Evicted(codes) ELSE codes

\* start; of the starts that are refused, one in a window stands for all.
Start ==
    /\ Len(issued) < MaxCodes
    /\ startWindow.count <= StartLimit \/ now - startWindow.startedAt > Window
    /\ startWindow' = Counted(startWindow)
    /\ IF startWindow'.count > StartLimit
       THEN UNCHANGED <<issued, pending, startedAt>>
       ELSE /\ issued' = Append(issued, now + TTL)
            /\ pending' = Room(Unexpired(pending)) \cup {Len(issued) + 1}
            /\ startedAt' = Append(startedAt, now)
    /\ UNCHANGED <<now, failVars, credentialVars>>

\* noteCompleteFailure
Failed(i) ==
    /\ Len(failedAt[i]) < MaxFailures
    /\ failWindows' = [failWindows EXCEPT ![i] = Counted(@)]
    /\ failedAt' = [failedAt EXCEPT ![i] = Append(@, now)]

\* Mutant: the code waits on.
WithoutNone(code) == Unexpired(pending)

\* The code is taken away, and those that have expired.
WithoutCode(code) == Unexpired(pending \ {code})

\* complete, with another protocol version.
CompleteIncompatible(i) ==
    /\ ~Limited(i)
    /\ Failed(i)
    /\ UNCHANGED <<now, codeVars, credentialVars>>

\* ... with a code that is not pending: wrong, used, evicted or purged.
CompleteInvalid(i) ==
    /\ ~Limited(i)
    /\ Failed(i)
    /\ pending' = Unexpired(pending)
    /\ UNCHANGED <<now, issued, startWindow, startedAt, credentialVars>>

\* ... with one that has expired and was not purged yet.
CompleteExpired(i, code) ==
    /\ ~Limited(i)
    /\ code \in pending /\ issued[code] < now
    /\ Failed(i)
    /\ pending' = WithoutCode(code)
    /\ UNCHANGED <<now, issued, startWindow, startedAt, credentialVars>>

\* ... with one that is good.
Complete(i, code) ==
    /\ ~Limited(i)
    /\ code \in pending /\ issued[code] >= now
    /\ pending' = WithoutCode(code)
    /\ failWindows' = [failWindows EXCEPT ![i] = [startedAt |-> now, count |-> 0]]
    /\ failedAt' = [failedAt EXCEPT ![i] = <<>>]
    /\ connections' = Append(connections, [code |-> code, instance |-> i, at |-> now, revoked |-> FALSE])
    /\ tokens' = tokens \cup {Len(connections) + 1}
    /\ UNCHANGED <<now, issued, startWindow, startedAt>>

\* revoke, of a connection that exists; once more is harmless.
Revoke(c) ==
    /\ c \in DOMAIN connections
    /\ connections' = [connections EXCEPT ![c].revoked = TRUE]
    /\ tokens' = tokens \ {c}
    /\ UNCHANGED <<now, codeVars, failVars>>

Tick ==
    /\ now < MaxTime
    /\ now' = now + 1
    /\ UNCHANGED <<codeVars, failVars, credentialVars>>

\* authenticateToken: in the index, and not revoked.
Authenticates(c) == c \in tokens /\ c \in DOMAIN connections /\ ~connections[c].revoked

-------------------------------------------------------------------------------
(* Specification                                                           *)

\* The first window of starts began at the epoch, long ago.
Init ==
    /\ now = Window + 1
    /\ issued = <<>>
    /\ pending = {}
    /\ startWindow = [startedAt |-> 0, count |-> 0]
    /\ failWindows = [i \in Instances |-> [startedAt |-> 0, count |-> 0]]
    /\ connections = <<>>
    /\ tokens = {}
    /\ startedAt = <<>>
    /\ failedAt = [i \in Instances |-> <<>>]

Next ==
    \/ Start
    \/ \E i \in Instances : CompleteIncompatible(i) \/ CompleteInvalid(i)
    \/ \E i \in Instances, code \in Codes : CompleteExpired(i, code) \/ Complete(i, code)
    \/ \E c \in DOMAIN connections : Revoke(c)
    \/ Tick

Spec == Init /\ [][Next]_vars

-------------------------------------------------------------------------------
(* Properties                                                              *)

\* Each connection was made by a code of its own, before the code expired, and a
\* token authenticates until its connection is revoked and never after.
CredentialsSound ==
    /\ \A c \in DOMAIN connections :
          /\ connections[c].code \in Codes
          /\ connections[c].at <= issued[connections[c].code]
          /\ \A d \in DOMAIN connections : connections[c].code = connections[d].code => c = d
    /\ \A c \in DOMAIN connections : Authenticates(c) <=> ~connections[c].revoked

Used(code) == \E c \in DOMAIN connections : connections[c].code = code

\* A code that has not expired and was not used can be completed, unless MAX_PENDING
\* newer ones were made: the user who is typing it loses it to nothing else ("new
\* code invalidates or coexists by explicit policy").
CodesStayUsable ==
    \A code \in Codes :
        issued[code] >= now /\ ~Used(code) => code \in pending \/ Len(issued) - code >= MaxPending

\* At most so many events in any stretch of Window, wherever it lies.
Spread(times, most) ==
    \A a \in DOMAIN times : a + most \in DOMAIN times => times[a + most] - times[a] > Window

\* Starts are limited, and failed completions of an extension that does not succeed in
\* between, by the most that two fixed windows grant when they meet.  A window of starts
\* is opened by one, so that the last of them counts against the window before; a
\* window of failures may have been opened by a success long before the first.
AttemptsLimited ==
    /\ Spread(startedAt, 2 * StartLimit - 1)
    /\ \A i \in Instances : Spread(failedAt[i], 2 * FailLimit)

===============================================================================

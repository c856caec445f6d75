------------------------------ MODULE PairingProofs ------------------------------
(***************************************************************************)
(* Theorems about Pairing for every value of its constants: that its variables   *)
(* have their types, that codes and tokens are good for what they were made for, *)
(* that a code is lost to newer codes only, and that both rate limits hold       *)
(* wherever the windows lie.                                                     *)
(***************************************************************************)
EXTENDS Pairing, FiniteSetTheorems, SequenceTheorems, Integers, TLAPS

-------------------------------------------------------------------------------
(* Types                                                                   *)

Connection == [code : Nat, instance : Instances, at : Nat, revoked : BOOLEAN]
RateWindow == [startedAt : Nat, count : Nat]

\* What a sequence is after one more element.
LEMMA AppendFacts ==
    ASSUME NEW S, NEW s \in Seq(S), NEW e \in S
    PROVE  /\ Append(s, e) \in Seq(S)
           /\ Len(s) \in Nat
           /\ DOMAIN s = 1 .. Len(s)
           /\ Len(Append(s, e)) = Len(s) + 1
           /\ DOMAIN Append(s, e) = 1 .. (Len(s) + 1)
           /\ \A i \in 1 .. Len(s) : Append(s, e)[i] = s[i]
           /\ Append(s, e)[Len(s) + 1] = e
OBVIOUS

\* The types of the fields of PairingService, and of the history beside them.
PairingTypeOK ==
    /\ now \in Nat
    /\ issued \in Seq(Nat)
    /\ pending \in SUBSET Codes
    /\ startWindow \in RateWindow
    /\ failWindows \in [Instances -> RateWindow]
    /\ connections \in Seq(Connection)
    /\ tokens \in SUBSET DOMAIN connections
    /\ startedAt \in Seq(Nat)
    /\ failedAt \in [Instances -> Seq(Nat)]

\* A call counted in a window leaves a window.
LEMMA CountedType ==
    ASSUME NEW window \in RateWindow, now \in Nat
    PROVE  Counted(window) \in RateWindow
BY PairingAssumption DEF Counted, RateWindow

\* A failed completion keeps the types of what it writes.
LEMMA FailedType ==
    ASSUME PairingTypeOK, NEW i \in Instances, Failed(i)
    PROVE  /\ failWindows' \in [Instances -> RateWindow]
           /\ failedAt' \in [Instances -> Seq(Nat)]
<1>1. Counted(failWindows[i]) \in RateWindow
    BY CountedType DEF PairingTypeOK
<1>2. Append(failedAt[i], now) \in Seq(Nat)
    BY AppendProperties, LenProperties DEF PairingTypeOK
<1> QED BY <1>1, <1>2 DEF Failed, PairingTypeOK

\* Start keeps the types.
LEMMA StartType ==
    ASSUME PairingTypeOK, Start
    PROVE  PairingTypeOK'
<1>1. startWindow' \in RateWindow
    BY CountedType DEF Start, PairingTypeOK
<1>2. CASE startWindow'.count > StartLimit
    BY <1>1, <1>2 DEF Start, PairingTypeOK, failVars, credentialVars, Codes
<1>3. CASE ~(startWindow'.count > StartLimit)
    <2>1. now + TTL \in Nat
        BY PairingAssumption DEF PairingTypeOK
    <2>2. /\ issued' = Append(issued, now + TTL)
          /\ pending' = Room(Unexpired(pending)) \cup {Len(issued) + 1}
          /\ startedAt' = Append(startedAt, now)
        BY <1>3 DEF Start
    <2>3. issued' \in Seq(Nat) /\ Codes' = 1 .. (Len(issued) + 1) /\ Codes = 1 .. Len(issued)
        BY <2>1, <2>2, AppendProperties, LenProperties DEF PairingTypeOK, Codes
    <2>4. startedAt' \in Seq(Nat)
        BY <2>2, AppendProperties, LenProperties DEF PairingTypeOK
    <2>5. Room(Unexpired(pending)) \subseteq Codes
        BY DEF PairingTypeOK, Room, Unexpired, Evicted
    <2>6. pending' \in SUBSET Codes'
        BY <2>2, <2>3, <2>5, AppendProperties, LenProperties DEF PairingTypeOK
    <2> QED
        BY <1>1, <2>3, <2>4, <2>6 DEF Start, PairingTypeOK, failVars, credentialVars
<1> QED BY <1>2, <1>3

\* A completion with a good code keeps the types.
LEMMA CompleteType ==
    ASSUME PairingTypeOK, NEW i \in Instances, NEW code \in Codes, Complete(i, code)
    PROVE  PairingTypeOK'
<1> DEFINE new == [code |-> code, instance |-> i, at |-> now, revoked |-> FALSE]
<1>1. new \in Connection
    BY DEF PairingTypeOK, Connection, Codes
<1>2. /\ connections' \in Seq(Connection)
      /\ DOMAIN connections = 1 .. Len(connections)
      /\ Len(connections) \in Nat
      /\ DOMAIN connections' = 1 .. (Len(connections) + 1)
    BY <1>1, AppendProperties, LenProperties DEF PairingTypeOK, Complete
<1>3. tokens' \in SUBSET DOMAIN connections'
    BY <1>2 DEF PairingTypeOK, Complete
<1>4. /\ failWindows' \in [Instances -> RateWindow]
      /\ failedAt' \in [Instances -> Seq(Nat)]
    BY DEF PairingTypeOK, Complete, RateWindow
<1>5. pending' \in SUBSET Codes'
    BY DEF PairingTypeOK, Complete, WithoutCode, Unexpired, Codes
<1> QED BY <1>2, <1>3, <1>4, <1>5 DEF PairingTypeOK, Complete

\* Every call keeps the types.
LEMMA StepType ==
    ASSUME PairingTypeOK, [Next]_vars
    PROVE  PairingTypeOK'
<1> USE DEF codeVars, failVars, credentialVars
<1>1. CASE Start
    BY <1>1, StartType
<1>2. ASSUME NEW i \in Instances, CompleteIncompatible(i)
      PROVE  PairingTypeOK'
    BY <1>2, FailedType DEF CompleteIncompatible, PairingTypeOK, Codes
<1>3. ASSUME NEW i \in Instances, CompleteInvalid(i)
      PROVE  PairingTypeOK'
    BY <1>3, FailedType DEF CompleteInvalid, PairingTypeOK, Codes, Unexpired
<1>4. ASSUME NEW i \in Instances, NEW code \in Codes, CompleteExpired(i, code)
      PROVE  PairingTypeOK'
    BY <1>4, FailedType DEF CompleteExpired, PairingTypeOK, Codes, WithoutCode, Unexpired
<1>5. ASSUME NEW i \in Instances, NEW code \in Codes, Complete(i, code)
      PROVE  PairingTypeOK'
    BY <1>5, CompleteType
<1>6. ASSUME NEW c \in DOMAIN connections, Revoke(c)
      PROVE  PairingTypeOK'
    <2>1. connections' \in Seq(Connection) /\ DOMAIN connections' = DOMAIN connections
        <3> DEFINE new == [connections[c] EXCEPT !.revoked = TRUE]
        <3>1. connections[c] \in Connection
            BY DEF PairingTypeOK
        <3>2. new \in Connection
            BY <3>1 DEF Connection
        <3>3. connections' = [connections EXCEPT ![c] = new]
            BY <1>6 DEF Revoke
        <3> HIDE DEF new
        <3> QED BY <3>2, <3>3, ExceptSeq, LenProperties DEF PairingTypeOK
    <2> QED BY <1>6, <2>1 DEF Revoke, PairingTypeOK, Codes
<1>7. CASE Tick
    BY <1>7 DEF Tick, PairingTypeOK, Codes
<1>8. CASE UNCHANGED vars
    BY <1>8 DEF vars, PairingTypeOK, Codes
<1> QED BY <1>1, <1>2, <1>3, <1>4, <1>5, <1>6, <1>7, <1>8 DEF Next

\* The variables of the pairing service always have their types.
THEOREM PairingTypeCorrect == Spec => []PairingTypeOK
<1>1. Init => PairingTypeOK
    BY PairingAssumption DEF Init, PairingTypeOK, RateWindow, Connection, Codes
<1>2. PairingTypeOK /\ [Next]_vars => PairingTypeOK'
    BY StepType
<1> QED BY <1>1, <1>2, PTL DEF Spec

-------------------------------------------------------------------------------
(* Credentials                                                             *)

\* Every connection has spent a code of its own in time, and the tokens are those
\* of the connections that are not revoked.  That a spent code is not pending is
\* what keeps a second connection from it.
CredentialInv ==
    /\ \A c \in DOMAIN connections :
          /\ connections[c].code \in Codes \ pending
          /\ connections[c].at <= issued[connections[c].code]
    /\ \A c, d \in DOMAIN connections : connections[c].code = connections[d].code => c = d
    /\ tokens = {c \in DOMAIN connections : ~connections[c].revoked}

\* A call that makes no connection, revokes none and brings back no code keeps
\* the credentials good.
LEMMA QuietKeepsCredentials ==
    ASSUME CredentialInv, UNCHANGED <<connections, tokens, issued>>, pending' \subseteq pending
    PROVE  CredentialInv'
BY DEF CredentialInv, Codes

\* A new code is none that was spent.
LEMMA StartKeepsCredentials ==
    ASSUME PairingTypeOK, CredentialInv, Start
    PROVE  CredentialInv'
<1>1. CASE startWindow'.count > StartLimit
    BY <1>1, QuietKeepsCredentials DEF Start, credentialVars
<1>2. CASE ~(startWindow'.count > StartLimit)
    <2>1. /\ issued' = Append(issued, now + TTL)
          /\ pending' = Room(Unexpired(pending)) \cup {Len(issued) + 1}
          /\ UNCHANGED <<connections, tokens>>
        BY <1>2 DEF Start, credentialVars
    <2>2. now + TTL \in Nat
        BY PairingAssumption DEF PairingTypeOK
    <2>3. /\ Codes = 1 .. Len(issued) /\ Codes' = 1 .. (Len(issued) + 1) /\ Len(issued) \in Nat
          /\ \A code \in Codes : issued'[code] = issued[code]
        BY <2>1, <2>2, AppendProperties, LenProperties DEF PairingTypeOK, Codes
    <2>4. pending' \subseteq pending \cup {Len(issued) + 1}
        BY <2>1 DEF Room, Unexpired, Evicted
    <2>5. \A c \in DOMAIN connections :
             /\ connections[c].code \in Codes' \ pending'
             /\ connections[c].at <= issued'[connections[c].code]
        BY <2>3, <2>4 DEF CredentialInv
    <2> QED BY <2>1, <2>5 DEF CredentialInv
<1> QED BY <1>1, <1>2

\* A completion spends a code that was pending, and so was not spent before.
LEMMA CompleteKeepsCredentials ==
    ASSUME PairingTypeOK, CredentialInv, NEW i \in Instances, NEW code \in Codes, Complete(i, code)
    PROVE  CredentialInv'
<1> DEFINE new == [code |-> code, instance |-> i, at |-> now, revoked |-> FALSE]
           last == Len(connections) + 1
<1>1. new \in Connection
    BY DEF PairingTypeOK, Connection, Codes
<1>2. /\ code \in pending /\ now <= issued[code]
      /\ pending' \subseteq pending \ {code}
      /\ issued' = issued
      /\ connections' = Append(connections, new)
      /\ tokens' = tokens \cup {last}
    BY DEF Complete, WithoutCode, Unexpired, PairingTypeOK, Codes
<1>3. /\ DOMAIN connections' = DOMAIN connections \cup {last}
      /\ last \notin DOMAIN connections
      /\ \A c \in DOMAIN connections : connections'[c] = connections[c]
      /\ connections'[last] = new
  <2>1. connections \in Seq(Connection)
      BY DEF PairingTypeOK
  <2>2. /\ DOMAIN connections = 1 .. Len(connections) /\ Len(connections) \in Nat
        /\ DOMAIN connections' = 1 .. (Len(connections) + 1)
        /\ connections'[Len(connections) + 1] = new
        /\ \A c \in 1 .. Len(connections) : connections'[c] = connections[c]
      BY <1>1, <1>2, <2>1, AppendFacts
  <2> QED BY <2>2
<1>4. \A c \in DOMAIN connections : connections[c].code # code
    BY <1>2 DEF CredentialInv
<1>5. /\ new.code = code /\ new.at = now /\ ~new.revoked
    OBVIOUS
<1> HIDE DEF new, last
<1>6. \A c \in DOMAIN connections' :
         /\ connections'[c].code \in Codes' \ pending'
         /\ connections'[c].at <= issued'[connections'[c].code]
    BY <1>2, <1>3, <1>5 DEF CredentialInv, Codes
<1>7. \A c, d \in DOMAIN connections' : connections'[c].code = connections'[d].code => c = d
    BY <1>3, <1>4, <1>5 DEF CredentialInv
<1>8. tokens' = {c \in DOMAIN connections' : ~connections'[c].revoked}
    BY <1>2, <1>3, <1>5 DEF CredentialInv
<1> QED BY <1>6, <1>7, <1>8 DEF CredentialInv

\* Revocation takes exactly the token of its connection.
LEMMA RevokeKeepsCredentials ==
    ASSUME PairingTypeOK, CredentialInv, NEW r \in DOMAIN connections, Revoke(r)
    PROVE  CredentialInv'
<1>1. /\ DOMAIN connections' = DOMAIN connections
      /\ \A c \in DOMAIN connections \ {r} : connections'[c] = connections[c]
      /\ connections'[r] = [connections[r] EXCEPT !.revoked = TRUE]
    BY DEF Revoke, PairingTypeOK
<1>2. connections[r] \in Connection
    BY DEF PairingTypeOK
<1>3. /\ connections'[r].code = connections[r].code
      /\ connections'[r].at = connections[r].at
      /\ connections'[r].revoked
    BY <1>1, <1>2 DEF Connection
<1>4. \A c \in DOMAIN connections :
         /\ connections'[c].code = connections[c].code
         /\ connections'[c].at = connections[c].at
    BY <1>1, <1>3
<1>5. issued' = issued /\ pending' = pending /\ tokens' = tokens \ {r}
    BY DEF Revoke, codeVars
<1>6. tokens' = {c \in DOMAIN connections' : ~connections'[c].revoked}
    BY <1>1, <1>3, <1>5 DEF CredentialInv
<1> QED BY <1>1, <1>4, <1>5, <1>6 DEF CredentialInv, Codes

\* Every call keeps the credentials good.
LEMMA StepKeepsCredentials ==
    ASSUME PairingTypeOK, CredentialInv, [Next]_vars
    PROVE  CredentialInv'
<1>1. CASE Start
    BY <1>1, StartKeepsCredentials
<1>2. ASSUME NEW i \in Instances, CompleteIncompatible(i) \/ CompleteInvalid(i)
      PROVE  CredentialInv'
    BY <1>2, QuietKeepsCredentials
       DEF CompleteIncompatible, CompleteInvalid, Unexpired, codeVars, credentialVars
<1>3. ASSUME NEW i \in Instances, NEW code \in Codes, CompleteExpired(i, code)
      PROVE  CredentialInv'
    BY <1>3, QuietKeepsCredentials DEF CompleteExpired, WithoutCode, Unexpired, credentialVars
<1>4. ASSUME NEW i \in Instances, NEW code \in Codes, Complete(i, code)
      PROVE  CredentialInv'
    BY <1>4, CompleteKeepsCredentials
<1>5. ASSUME NEW c \in DOMAIN connections, Revoke(c)
      PROVE  CredentialInv'
    BY <1>5, RevokeKeepsCredentials
<1>6. CASE Tick
    BY <1>6, QuietKeepsCredentials DEF Tick, codeVars, credentialVars
<1>7. CASE UNCHANGED vars
    BY <1>7, QuietKeepsCredentials DEF vars, codeVars, credentialVars
<1> QED BY <1>1, <1>2, <1>3, <1>4, <1>5, <1>6, <1>7 DEF Next

\* Every connection was made by a code of its own, before the code expired, and a
\* token authenticates until its connection is revoked and never after.
THEOREM CredentialsAreSound == Spec => []CredentialsSound
<1>1. Init => CredentialInv
    BY DEF Init, CredentialInv
<1>2. PairingTypeOK /\ CredentialInv /\ [Next]_vars => CredentialInv'
    BY StepKeepsCredentials
<1>3. CredentialInv => CredentialsSound
    BY DEF CredentialInv, CredentialsSound, Authenticates
<1> QED BY <1>1, <1>2, <1>3, PairingTypeCorrect, PTL DEF Spec

-------------------------------------------------------------------------------
(* Codes                                                                   *)

\* Codes expire in the order they were made, none later than one made now would.
\* Without that order the code that is evicted could be a young one.
UsableInv ==
    /\ \A a, b \in Codes : a <= b => issued[a] <= issued[b]
    /\ \A code \in Codes : issued[code] <= now + TTL
    /\ CodesStayUsable

\* The code that is evicted has MaxPending - 1 younger ones beside it.
LEMMA EvictedIsOld ==
    ASSUME PairingTypeOK, UsableInv, NEW codes \in SUBSET Codes, NEW code \in codes,
           code \notin Room(codes)
    PROVE  Len(issued) + 1 - code >= MaxPending
<1>1. Codes = 1 .. Len(issued) /\ Len(issued) \in Nat /\ code \in Nat
    BY DEF PairingTypeOK, Codes
<1>2. Cardinality(codes) >= MaxPending /\ code \notin Evicted(codes)
    BY DEF Room
<1>3. \A d \in Codes : issued[d] \in Nat
    BY DEF PairingTypeOK, Codes
<1>4. \A d \in codes : code <= d
    <2> SUFFICES ASSUME NEW d \in codes, d < code
                 PROVE  FALSE
        BY <1>1
    <2>1. issued[d] <= issued[code]
        BY <1>1 DEF UsableInv
    <2>2. ~(issued[d] < issued[code] \/ (issued[d] = issued[code] /\ d < code))
        BY <1>2 DEF Evicted
    <2> QED BY <1>3, <2>1, <2>2
<1>5. codes \subseteq code .. Len(issued)
    BY <1>1, <1>4
<1>6. /\ IsFiniteSet(code .. Len(issued))
      /\ Cardinality(code .. Len(issued)) = Len(issued) - code + 1
    BY <1>1, FS_Interval
<1>7. Cardinality(codes) \in Nat /\ Cardinality(codes) <= Len(issued) - code + 1
    BY <1>5, <1>6, FS_Subset, FS_CardinalityType
<1> QED BY <1>1, <1>2, <1>7, PairingAssumption

\* A call that makes no code keeps codes usable if those it takes away have expired
\* or been used, and time does not go back.
LEMMA QuietKeepsUsable ==
    ASSUME PairingTypeOK, UsableInv, UNCHANGED issued,
           now' \in Nat, now <= now',
           \A code \in Codes : Used(code) => Used(code)',
           \A code \in pending : issued[code] >= now /\ ~Used(code)' => code \in pending'
    PROVE  UsableInv'
<1>1. Codes' = Codes /\ \A code \in Codes : issued[code] \in Nat
    BY DEF PairingTypeOK, Codes
<1>2. \A code \in Codes : issued'[code] <= now' + TTL
    BY <1>1, PairingAssumption DEF UsableInv, PairingTypeOK
<1>3. ASSUME NEW code \in Codes, issued[code] >= now', ~Used(code)'
      PROVE  code \in pending' \/ Len(issued) - code >= MaxPending
    <2>1. issued[code] >= now /\ ~Used(code)
        BY <1>1, <1>3 DEF PairingTypeOK
    <2> QED BY <1>3, <2>1 DEF UsableInv, CodesStayUsable
<1> QED BY <1>1, <1>2, <1>3 DEF UsableInv, CodesStayUsable

\* A new code may evict an old one.
LEMMA StartKeepsUsable ==
    ASSUME PairingTypeOK, UsableInv, Start
    PROVE  UsableInv'
<1>0. now' = now /\ connections' = connections /\ now \in Nat
    BY DEF Start, credentialVars, PairingTypeOK
<1>1. CASE startWindow'.count > StartLimit
    BY <1>0, <1>1, QuietKeepsUsable DEF Start, Used
<1>2. CASE ~(startWindow'.count > StartLimit)
    <2> DEFINE n == Len(issued)
    <2>1. /\ issued' = Append(issued, now + TTL)
          /\ pending' = Room(Unexpired(pending)) \cup {n + 1}
        BY <1>2 DEF Start
    <2>2. now + TTL \in Nat
        BY PairingAssumption DEF PairingTypeOK
    <2>3. /\ Codes = 1 .. n /\ Codes' = 1 .. (n + 1) /\ n \in Nat
          /\ Len(issued') = n + 1
          /\ issued'[n + 1] = now + TTL
          /\ \A code \in Codes : issued'[code] = issued[code] /\ issued[code] \in Nat
        BY <2>1, <2>2, AppendProperties, LenProperties DEF PairingTypeOK, Codes
    <2>4. \A code \in Codes' : issued'[code] <= now' + TTL
        BY <1>0, <2>2, <2>3 DEF UsableInv
    <2>5. \A a, b \in Codes' : a <= b => issued'[a] <= issued'[b]
        BY <2>2, <2>3 DEF UsableInv
    <2>6. ASSUME NEW code \in Codes', issued'[code] >= now', ~Used(code)'
          PROVE  code \in pending' \/ Len(issued') - code >= MaxPending
        <3>1. CASE code = n + 1
            BY <2>1, <3>1
        <3>2. CASE code \in Codes
            <4>1. issued[code] >= now /\ ~Used(code)
                BY <1>0, <2>3, <2>6, <3>2 DEF Used
            <4>2. CASE n - code >= MaxPending
                BY <2>3, <3>2, <4>2, PairingAssumption
            <4>3. CASE code \in pending
                <5>1. code \in Unexpired(pending) /\ Unexpired(pending) \in SUBSET Codes
                    BY <4>1, <4>3 DEF Unexpired, PairingTypeOK
                <5>2. CASE code \in Room(Unexpired(pending))
                    BY <2>1, <5>2
                <5>3. CASE code \notin Room(Unexpired(pending))
                    BY <2>3, <5>1, <5>3, EvictedIsOld
                <5> QED BY <5>2, <5>3
            <4> QED BY <3>2, <4>1, <4>2, <4>3 DEF UsableInv, CodesStayUsable
        <3> QED BY <2>3, <3>1, <3>2
    <2> QED BY <2>4, <2>5, <2>6 DEF UsableInv, CodesStayUsable
<1> QED BY <1>1, <1>2

\* Every call keeps codes usable.
LEMMA StepKeepsUsable ==
    ASSUME PairingTypeOK, UsableInv, [Next]_vars
    PROVE  UsableInv'
<1> USE DEF codeVars, failVars, credentialVars
<1>0. now \in Nat /\ pending \subseteq Codes /\ Codes \subseteq Nat
    BY DEF PairingTypeOK, Codes
<1>1. CASE Start
    BY <1>1, StartKeepsUsable
<1>2. ASSUME NEW i \in Instances, CompleteIncompatible(i) \/ CompleteInvalid(i)
      PROVE  UsableInv'
    BY <1>0, <1>2, QuietKeepsUsable DEF CompleteIncompatible, CompleteInvalid, Unexpired, Used
<1>3. ASSUME NEW i \in Instances, NEW code \in Codes, CompleteExpired(i, code)
      PROVE  UsableInv'
    <2>1. \A c \in pending : issued[c] >= now => c \in pending'
        <3>1. issued[code] \in Nat /\ ~(issued[code] >= now)
            BY <1>0, <1>3 DEF CompleteExpired, PairingTypeOK, Codes
        <3> QED BY <1>3, <3>1 DEF CompleteExpired, WithoutCode, Unexpired
    <2> QED BY <1>0, <1>3, <2>1, QuietKeepsUsable DEF CompleteExpired, Used
<1>4. ASSUME NEW i \in Instances, NEW code \in Codes, Complete(i, code)
      PROVE  UsableInv'
    <2> DEFINE new == [code |-> code, instance |-> i, at |-> now, revoked |-> FALSE]
    <2>1. new \in Connection /\ new.code = code
        BY DEF PairingTypeOK, Connection, Codes
    <2>2. connections' = Append(connections, new)
        BY <1>4 DEF Complete
    <2> HIDE DEF new
    <2>3. /\ DOMAIN connections \subseteq DOMAIN connections'
          /\ Len(connections) + 1 \in DOMAIN connections'
          /\ connections'[Len(connections) + 1] = new
          /\ \A c \in DOMAIN connections : connections'[c] = connections[c]
      <3>1. connections \in Seq(Connection)
          BY DEF PairingTypeOK
      <3>2. /\ DOMAIN connections = 1 .. Len(connections) /\ Len(connections) \in Nat
            /\ DOMAIN connections' = 1 .. (Len(connections) + 1)
            /\ connections'[Len(connections) + 1] = new
            /\ \A c \in 1 .. Len(connections) : connections'[c] = connections[c]
          BY <2>1, <2>2, <3>1, AppendFacts
      <3> QED BY <3>2
    <2>4. Used(code)' /\ \A c \in Codes : Used(c) => Used(c)'
        BY <2>1, <2>3 DEF Used
    <2>5. \A c \in pending : issued[c] >= now /\ ~Used(c)' => c \in pending'
        BY <1>4, <2>4 DEF Complete, WithoutCode, Unexpired
    <2> QED BY <1>0, <1>4, <2>4, <2>5, QuietKeepsUsable DEF Complete
<1>5. ASSUME NEW r \in DOMAIN connections, Revoke(r)
      PROVE  UsableInv'
    <2>1. /\ DOMAIN connections' = DOMAIN connections
          /\ \A c \in DOMAIN connections \ {r} : connections'[c] = connections[c]
          /\ connections'[r] = [connections[r] EXCEPT !.revoked = TRUE]
        BY <1>5 DEF Revoke, PairingTypeOK
    <2>2. connections[r] \in Connection
        BY DEF PairingTypeOK
    <2>3. connections'[r].code = connections[r].code
        BY <2>1, <2>2 DEF Connection
    <2>4. \A code \in Codes : Used(code) <=> Used(code)'
        BY <2>1, <2>3 DEF Used
    <2> QED BY <1>0, <1>5, <2>4, QuietKeepsUsable DEF Revoke
<1>6. CASE Tick
    BY <1>0, <1>6, QuietKeepsUsable DEF Tick, Used
<1>7. CASE UNCHANGED vars
    BY <1>0, <1>7, QuietKeepsUsable DEF vars, Used
<1> QED BY <1>1, <1>2, <1>3, <1>4, <1>5, <1>6, <1>7 DEF Next

\* A code that has not expired and was not used can be completed, unless MaxPending
\* newer ones were made.
THEOREM CodesAreUsable == Spec => []CodesStayUsable
<1>1. Init => UsableInv
    BY DEF Init, UsableInv, CodesStayUsable, Codes
<1>2. PairingTypeOK /\ UsableInv /\ [Next]_vars => UsableInv'
    BY StepKeepsUsable
<1>3. UsableInv => CodesStayUsable
    BY DEF UsableInv
<1> QED BY <1>1, <1>2, <1>3, PairingTypeCorrect, PTL DEF Spec

-------------------------------------------------------------------------------
(* Rate limits                                                             *)

\* The events of the window that were granted: a refused start is counted too.
Granted(window, limit) == IF window.count <= limit THEN window.count ELSE limit

\* Why fixed windows limit any stretch of time: events that were not granted in
\* this window came before it, and all but the last limit of those came before
\* the window that ended it, longer than Window ago.  Where each window is opened by an
\* event (own = 1), that first event is no later than the window's start.
WindowSound(window, times, limit, own) ==
    /\ window.count <= limit + 1
    /\ window.startedAt <= now
    /\ Granted(window, limit) <= Len(times)
    /\ \A a \in DOMAIN times : times[a] <= now
    /\ own = 1 => window.count >= 1 \/ now - window.startedAt > Window
    /\ \A a \in DOMAIN times :
          a + Granted(window, limit) <= Len(times) + own => times[a] <= window.startedAt
    /\ \A a \in DOMAIN times :
          a + Granted(window, limit) + limit <= Len(times) + own
              => times[a] + Window < window.startedAt
    /\ Spread(times, 2 * limit - own)

\* An event that is counted within the limit keeps its window sound.
LEMMA GrantedKeepsSound ==
    ASSUME NEW window \in RateWindow, NEW times \in Seq(Nat), NEW limit \in Nat \ {0},
           NEW own \in {0, 1}, now \in Nat, WindowSound(window, times, limit, own),
           Counted(window).count <= limit
    PROVE  WindowSound(Counted(window), Append(times, now), limit, own)
<1> DEFINE n == Len(times)
           later == Append(times, now)
           start == window.startedAt
           granted == Granted(window, limit)
           most == 2 * limit - own
<1>1. /\ n \in Nat /\ DOMAIN times = 1 .. n /\ Len(later) = n + 1 /\ DOMAIN later = 1 .. (n + 1)
      /\ \A a \in 1 .. n : later[a] = times[a] /\ times[a] \in Nat
      /\ later[n + 1] = now
    BY AppendProperties, LenProperties
<1>2. /\ start \in Nat /\ window.count \in Nat /\ Window \in Nat /\ limit \in Nat /\ limit >= 1
      /\ granted \in Nat /\ granted <= limit /\ own \in Nat /\ own <= 1
    BY PairingAssumption DEF RateWindow, Granted
<1>3. /\ granted <= n /\ start <= now
      /\ \A a \in 1 .. n : times[a] <= now
      /\ own = 1 => window.count >= 1 \/ now - start > Window
      /\ \A a \in 1 .. n : a + granted <= n + own => times[a] <= start
      /\ \A a \in 1 .. n : a + granted + limit <= n + own => times[a] + Window < start
      /\ \A a \in 1 .. n : a + most \in 1 .. n => times[a + most] - times[a] > Window
    BY <1>1 DEF WindowSound, Spread
<1>7. most \in Nat /\ most >= 1 /\ most = 2 * limit - own
    BY <1>2
<1> HIDE DEF n, later, start, granted, most
<1>4. ASSUME \A a \in 1 .. n : a + most = n + 1 => times[a] + Window < now
      PROVE  Spread(later, most)
    <2> SUFFICES ASSUME NEW a \in 1 .. (n + 1), a + most \in 1 .. (n + 1)
                 PROVE  later[a + most] - later[a] > Window
        BY <1>1 DEF Spread
    <2>0. a \in 1 .. n /\ later[a] = times[a] /\ times[a] \in Nat
        BY <1>1, <1>7
    <2>1. CASE a + most = n + 1
        <3>1. later[a + most] = now
            BY <1>1, <2>1
        <3>2. times[a] \in Nat /\ Window \in Nat /\ times[a] + Window < now
            BY <1>2, <1>4, <2>0, <2>1
        <3>3. now - times[a] > Window
            BY <3>2
        <3> QED BY <2>0, <3>1, <3>3
    <2>2. CASE a + most \in 1 .. n
        BY <1>1, <1>3, <2>0, <2>2
    <2> QED BY <1>1, <1>7, <2>0, <2>1, <2>2
<1>5. CASE now - start > Window
    <2>1. Counted(window) = [startedAt |-> now, count |-> 1]
        BY <1>5 DEF Counted, start
    <2>2. Granted(Counted(window), limit) = 1
        BY <1>2, <2>1 DEF Granted
    <2>3. \A a \in 1 .. n : a + limit <= n + own => times[a] + Window < now
        <3> SUFFICES ASSUME NEW a \in 1 .. n, a + limit <= n + own
                     PROVE  times[a] + Window < now
            OBVIOUS
        <3>1. a + granted <= n + own
            BY <1>1, <1>2
        <3> QED BY <1>1, <1>2, <1>3, <1>5, <3>1
    <2>9. \A a \in 1 .. n : a + most = n + 1 => times[a] + Window < now
        <3> SUFFICES ASSUME NEW a \in 1 .. n, a + most = n + 1
                     PROVE  times[a] + Window < now
            OBVIOUS
        <3>1. a + limit <= n + own
            BY <1>1, <1>2, <1>7
        <3> QED BY <2>3, <3>1
    <2>4. Spread(later, most)
        BY <1>4, <2>9
    <2>5. \A a \in 1 .. (n + 1) : later[a] <= now
        BY <1>1, <1>3
    <2>6. \A a \in 1 .. (n + 1) :
             a + 1 + limit <= n + 1 + own => later[a] + Window < now
        <3> SUFFICES ASSUME NEW a \in 1 .. (n + 1), a + 1 + limit <= n + 1 + own
                     PROVE  later[a] + Window < now
            OBVIOUS
        <3>0. a + limit <= n + own
            BY <1>1, <1>2
        <3>1. CASE a \in 1 .. n
            BY <1>1, <2>3, <3>0, <3>1
        <3>2. CASE a = n + 1
            BY <1>1, <1>2, <3>0, <3>2
        <3> QED BY <1>1, <3>1, <3>2
    <2>8. Counted(window).startedAt = now /\ Counted(window).count = 1
        BY <2>1
    <2>10. WindowSound(Counted(window), later, limit, own)
        <3>1. 1 <= limit + 1 /\ 1 <= n + 1 /\ now <= now
            BY <1>1, <1>2
        <3>2. \A a \in 1 .. (n + 1) :
                 a + 1 + limit <= (n + 1) + own => later[a] + Window < now
            BY <2>6
        <3>3. Spread(later, 2 * limit - own)
            BY <1>7, <2>4
        <3> QED BY <1>1, <2>2, <2>5, <2>8, <3>1, <3>2, <3>3 DEF WindowSound
    <2> QED BY <2>10 DEF later
<1>6. CASE ~(now - start > Window)
    <2>1. /\ Counted(window).startedAt = start
          /\ Counted(window).count = window.count + 1
        BY <1>6 DEF Counted, RateWindow, start
    <2>2. /\ window.count + 1 <= limit
          /\ granted = window.count
          /\ Granted(Counted(window), limit) = granted + 1
        BY <1>2, <2>1 DEF Granted, granted
    <2>3. \A a \in 1 .. n : a + most = n + 1 => times[a] + Window < now
        <3> SUFFICES ASSUME NEW a \in 1 .. n, a + most = n + 1
                     PROVE  times[a] + Window < now
            OBVIOUS
        <3>0. a \in Nat /\ n \in Nat /\ limit \in Nat /\ granted \in Nat /\ granted + 1 <= limit
            BY <1>1, <1>2, <2>2
        <3>1. a + granted + limit <= n + own
            BY <1>2, <1>7, <3>0
        <3> QED BY <1>1, <1>2, <1>3, <3>1
    <2>4. Spread(later, most)
        BY <1>4, <2>3
    <2>5. \A a \in 1 .. (n + 1) : a + (granted + 1) <= n + 1 + own => later[a] <= start
        <3> SUFFICES ASSUME NEW a \in 1 .. (n + 1), a + (granted + 1) <= n + 1 + own
                     PROVE  later[a] <= start
            OBVIOUS
        <3>0. a + granted <= n + own
            BY <1>1, <1>2
        <3>1. own = 1 => granted >= 1
            BY <1>3, <1>6, <2>2
        <3>2. a \in 1 .. n
            BY <1>1, <1>2, <3>0, <3>1
        <3> QED BY <1>1, <1>3, <3>0, <3>2
    <2>6. \A a \in 1 .. (n + 1) :
             a + (granted + 1) + limit <= n + 1 + own => later[a] + Window < start
        <3> SUFFICES ASSUME NEW a \in 1 .. (n + 1), a + (granted + 1) + limit <= n + 1 + own
                     PROVE  later[a] + Window < start
            OBVIOUS
        <3>1. a \in 1 .. n /\ a + granted + limit <= n + own
            <4>1. a + granted + limit <= n + own
                BY <1>1, <1>2
            <4>2. own = 1 => granted >= 1
                BY <1>3, <1>6, <2>2
            <4> QED BY <1>1, <1>2, <4>1, <4>2
        <3> QED BY <1>1, <1>3, <3>1
    <2>7. \A a \in 1 .. (n + 1) : later[a] <= now
        <3> SUFFICES ASSUME NEW a \in 1 .. (n + 1)
                     PROVE  later[a] <= now
            OBVIOUS
        <3> QED BY <1>1, <1>3
    <2>8. /\ Counted(window).startedAt <= now
          /\ Granted(Counted(window), limit) <= Len(later)
          /\ Counted(window).count <= limit + 1
        BY <1>1, <1>2, <1>3, <2>1, <2>2
    <2>9. WindowSound(Counted(window), later, limit, own)
        <3>1. own = 1 => Counted(window).count >= 1
            BY <1>2, <2>1
        <3>2. \A a \in 1 .. (n + 1) :
                 a + (granted + 1) <= (n + 1) + own => later[a] <= start
            BY <2>5
        <3>3. \A a \in 1 .. (n + 1) :
                 a + (granted + 1) + limit <= (n + 1) + own => later[a] + Window < start
            BY <2>6
        <3>4. Spread(later, 2 * limit - own)
            BY <1>7, <2>4
        <3> QED BY Zenon, <1>1, <2>1, <2>2, <2>7, <2>8, <3>1, <3>2, <3>3, <3>4 DEF WindowSound
    <2> QED BY <2>9 DEF later
<1> QED BY <1>5, <1>6

\* A call that is counted beyond the limit and refused keeps its window sound.
LEMMA RefusedKeepsSound ==
    ASSUME NEW window \in RateWindow, NEW times \in Seq(Nat), NEW limit \in Nat \ {0},
           NEW own \in {0, 1}, now \in Nat, WindowSound(window, times, limit, own),
           window.count <= limit \/ now - window.startedAt > Window,
           Counted(window).count > limit
    PROVE  WindowSound(Counted(window), times, limit, own)
<1>1. window.startedAt \in Nat /\ window.count \in Nat
    BY DEF RateWindow
<1>2. ~(now - window.startedAt > Window)
    BY DEF Counted
<1>3. /\ Counted(window).startedAt = window.startedAt
      /\ Counted(window).count = window.count + 1
    BY <1>2 DEF Counted, RateWindow
<1>4. /\ Granted(window, limit) = limit
      /\ Granted(Counted(window), limit) = limit
      /\ Counted(window).count <= limit + 1
    BY <1>1, <1>2, <1>3 DEF Granted
<1>5. own = 1 => Counted(window).count >= 1
    BY <1>1, <1>3
<1>6. Granted(Counted(window), limit) = Granted(window, limit)
    BY <1>4
<1> HIDE DEF Counted
<1> QED BY Zenon, <1>3, <1>4, <1>5, <1>6 DEF WindowSound

\* Both limits rest on sound windows.
RateInv ==
    /\ WindowSound(startWindow, startedAt, StartLimit, 1)
    /\ \A i \in Instances : WindowSound(failWindows[i], failedAt[i], FailLimit, 0)

\* The time that passes keeps windows sound.
LEMMA LaterKeepsRates ==
    ASSUME PairingTypeOK, RateInv, UNCHANGED <<startWindow, startedAt, failVars>>,
           now' \in Nat, now <= now'
    PROVE  RateInv'
<1>1. /\ startWindow.startedAt \in Nat
      /\ \A i \in Instances : failWindows[i].startedAt \in Nat
    BY DEF PairingTypeOK, RateWindow
<1>2. ASSUME NEW window, NEW times, NEW limit, NEW own, window.startedAt \in Nat,
             times \in Seq(Nat), WindowSound(window, times, limit, own)
      PROVE  WindowSound(window, times, limit, own)'
    <2>1. now \in Nat /\ Window \in Nat
        BY PairingAssumption DEF PairingTypeOK
    <2> QED BY <1>2, <2>1 DEF WindowSound, Granted, Spread
<1> QED BY <1>1, <1>2 DEF RateInv, failVars, PairingTypeOK

\* A failed completion was not limited before.
LEMMA FailedKeepsRates ==
    ASSUME PairingTypeOK, RateInv, NEW i \in Instances, ~Limited(i), Failed(i),
           UNCHANGED <<now, startWindow, startedAt>>
    PROVE  RateInv'
<1>1. failWindows[i] \in RateWindow /\ failedAt[i] \in Seq(Nat) /\ now \in Nat
    BY DEF PairingTypeOK
<1>2. Counted(failWindows[i]).count <= FailLimit
    BY SMTT(20), <1>1, PairingAssumption DEF Limited, Counted, RateWindow
<1>3. WindowSound(Counted(failWindows[i]), Append(failedAt[i], now), FailLimit, 0)
    BY <1>1, <1>2, GrantedKeepsSound, PairingAssumption DEF RateInv
<1>4. /\ failWindows' = [failWindows EXCEPT ![i] = Counted(failWindows[i])]
      /\ failedAt' = [failedAt EXCEPT ![i] = Append(failedAt[i], now)]
    BY DEF Failed
<1>5. /\ failWindows'[i] = Counted(failWindows[i]) /\ failedAt'[i] = Append(failedAt[i], now)
      /\ \A j \in Instances \ {i} : failWindows'[j] = failWindows[j] /\ failedAt'[j] = failedAt[j]
    BY <1>4 DEF PairingTypeOK
<1>6. \A j \in Instances : WindowSound(failWindows'[j], failedAt'[j], FailLimit, 0)
    BY <1>3, <1>5 DEF RateInv
<1> QED BY <1>6 DEF RateInv, WindowSound, Granted, Spread

\* Every call keeps windows sound.
LEMMA StepKeepsRates ==
    ASSUME PairingTypeOK, RateInv, [Next]_vars
    PROVE  RateInv'
<1> USE DEF codeVars, credentialVars
<1>0. now \in Nat
    BY DEF PairingTypeOK
<1>1. CASE Start
    <2>1. /\ startWindow \in RateWindow /\ startedAt \in Seq(Nat)
          /\ startWindow' = Counted(startWindow)
          /\ UNCHANGED <<now, failWindows, failedAt>>
          /\ startWindow.count <= StartLimit \/ now - startWindow.startedAt > Window
        BY <1>1 DEF Start, PairingTypeOK, failVars
    <2>2. Counted(startWindow).count \in Nat
        BY <1>0, <2>1, CountedType DEF RateWindow
    <2>3. CASE Counted(startWindow).count > StartLimit
        <3>1. startedAt' = startedAt
            BY <1>1, <2>1, <2>3 DEF Start
        <3>2. WindowSound(Counted(startWindow), startedAt, StartLimit, 1)
            BY <1>0, <2>1, <2>3, RefusedKeepsSound, PairingAssumption DEF RateInv
        <3> QED BY <2>1, <3>1, <3>2 DEF RateInv, WindowSound, Granted, Spread
    <2>4. CASE Counted(startWindow).count <= StartLimit
        <3>1. startedAt' = Append(startedAt, now)
            BY <1>1, <2>1, <2>2, <2>4, PairingAssumption DEF Start
        <3>2. WindowSound(Counted(startWindow), Append(startedAt, now), StartLimit, 1)
            BY <1>0, <2>1, <2>4, GrantedKeepsSound, PairingAssumption DEF RateInv
        <3> QED BY <2>1, <3>1, <3>2 DEF RateInv, WindowSound, Granted, Spread
    <2> QED BY <2>2, <2>3, <2>4, PairingAssumption
<1>2. ASSUME NEW i \in Instances, CompleteIncompatible(i) \/ CompleteInvalid(i)
      PROVE  RateInv'
    BY <1>2, FailedKeepsRates DEF CompleteIncompatible, CompleteInvalid
<1>3. ASSUME NEW i \in Instances, NEW code \in Codes, CompleteExpired(i, code)
      PROVE  RateInv'
    BY <1>3, FailedKeepsRates DEF CompleteExpired
<1>4. ASSUME NEW i \in Instances, NEW code \in Codes, Complete(i, code)
      PROVE  RateInv'
    <2>1. /\ UNCHANGED <<now, startWindow, startedAt>>
          /\ failWindows'[i] = [startedAt |-> now, count |-> 0] /\ failedAt'[i] = <<>>
          /\ \A j \in Instances \ {i} :
                failWindows'[j] = failWindows[j] /\ failedAt'[j] = failedAt[j]
        BY <1>4 DEF Complete, PairingTypeOK
    <2>2. WindowSound(failWindows'[i], failedAt'[i], FailLimit, 0)
        BY <1>0, <2>1, PairingAssumption DEF WindowSound, Granted, Spread
    <2>3. \A j \in Instances : WindowSound(failWindows'[j], failedAt'[j], FailLimit, 0)
        BY <2>1, <2>2 DEF RateInv
    <2> QED BY <2>1, <2>3 DEF RateInv, WindowSound, Granted, Spread
<1>5. ASSUME NEW c \in DOMAIN connections, Revoke(c)
      PROVE  RateInv'
    BY <1>0, <1>5, LaterKeepsRates DEF Revoke
<1>6. CASE Tick
    BY <1>0, <1>6, LaterKeepsRates DEF Tick
<1>7. CASE UNCHANGED vars
    BY <1>0, <1>7, LaterKeepsRates DEF vars
<1> QED BY <1>1, <1>2, <1>3, <1>4, <1>5, <1>6, <1>7 DEF Next

\* In any stretch of Window, wherever it lies, at most 2 * StartLimit - 1 starts are
\* granted and at most 2 * FailLimit completions of an extension fail.
THEOREM AttemptsAreLimited == Spec => []AttemptsLimited
<1>1. Init => RateInv
    BY PairingAssumption DEF Init, RateInv, WindowSound, Granted, Spread
<1>2. PairingTypeOK /\ RateInv /\ [Next]_vars => RateInv'
    BY StepKeepsRates
<1>3. RateInv => AttemptsLimited
    <2> SUFFICES ASSUME RateInv PROVE AttemptsLimited
        OBVIOUS
    <2>1. Spread(startedAt, 2 * StartLimit - 1)
        BY DEF RateInv, WindowSound
    <2>2. \A i \in Instances : Spread(failedAt[i], 2 * FailLimit - 0)
        BY DEF RateInv, WindowSound
    <2>3. 2 * FailLimit - 0 = 2 * FailLimit
        BY PairingAssumption
    <2> QED BY <2>1, <2>2, <2>3 DEF AttemptsLimited
<1> QED BY <1>1, <1>2, <1>3, PairingTypeCorrect, PTL DEF Spec

===============================================================================

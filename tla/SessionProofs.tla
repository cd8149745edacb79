---------------------------- MODULE SessionProofs ----------------------------
(***************************************************************************)
(* Sessions, for any goroutines, hosts, requests and answers.              *)
(*                                                                         *)
(* First what KomServer has on its own: the type invariant, and that a     *)
(* client which NewKomClient returned can be used.  What at says of a      *)
(* goroutine is tied to what it has by then: its own KomServer and that    *)
(* one's connection when GetServer has returned, and a connection of its   *)
(* own when NewKomClient has.  The lookup in serverMap could break this by *)
(* handing out a KomServer whose client failed to connect, so the          *)
(* invariant also says that nothing is ever found there.                   *)
(*                                                                         *)
(* A session is an execution of KomServer to which the calls on the        *)
(* connected clients are added: they touch nothing of what NewKomClient    *)
(* uses, and a panic only stops it.  So all that holds in every session.   *)
(*                                                                         *)
(* Last the requests: a server reads from each line what was written, by   *)
(* the lemmas of WireProofs about the words of a line, a kind of parameter *)
(* at a time.                                                              *)
(***************************************************************************)
EXTENDS Session, WireProofs

-----------------------------------------------------------------------------
(* NewKomClient. *)

\* Nothing is stored in serverMap.
NothingShared == \A h \in Hosts : serverMap[h] = Nobody

\* GetServer has returned a KomServer of the goroutine's own, with a connection.
HasServer ==
  \A c \in Clients : at[c] \in {"dialing", "connected"} =>
    server[c] = c /\ HasSocket(c, "server", host[c])

\* NewKomClient has returned a client with a connection.
HasClient == \A c \in Clients : at[c] = "connected" => HasSocket(c, "client", host[c])

ServerInv == ServerTypeOK /\ NothingShared /\ HasServer /\ HasClient

LEMMA InitServerInv == ServerInit => ServerInv
  BY DEF ServerInit, ServerInv, ServerTypeOK, NothingShared, HasServer, HasClient, Places

\* A dial adds a connection of the client to the host it was to connect to.
LEMMA DialType ==
  ASSUME ServerTypeOK, NEW c \in Clients, NEW use \in {"server", "client"}, Dial(c, use)
  PROVE  sockets' \subseteq Socket
<1>1. host[c] \in Hosts /\ sockets \subseteq Socket
  BY DEF ServerTypeOK
<1>2. [client |-> c, use |-> use, host |-> host[c]] \in Socket
  BY <1>1 DEF Socket
<1> QED
  BY <1>1, <1>2 DEF Dial

\* Every step of NewKomClient keeps the invariant.
LEMMA StepServerInv == ServerInv /\ [ServerNext]_serverVars => ServerInv'
<1> SUFFICES ASSUME ServerInv, [ServerNext]_serverVars PROVE ServerInv'
  OBVIOUS
<1> USE DEF ServerInv
<1>1. CASE UNCHANGED serverVars
  BY <1>1 DEF serverVars, ServerTypeOK, NothingShared, HasServer, HasClient, HasSocket
<1>2. ASSUME NEW c \in Clients, CallGetServer(c) PROVE ServerInv'
  BY <1>2 DEF CallGetServer, Goes, ServerTypeOK, NothingShared, HasServer, HasClient, HasSocket, Places
<1>3. ASSUME NEW c \in Clients, LookUpServer(c) PROVE ServerInv'
  <2>1. host[c] \in Hosts /\ serverMap[host[c]] = Nobody
    BY DEF ServerTypeOK, NothingShared
  <2>2. at' = [at EXCEPT ![c] = "dialing server"] /\ serverLock' = c
    BY <1>3, <2>1 DEF LookUpServer, Goes
  <2>3. server' = [server EXCEPT ![c] = Nobody]
    BY <1>3, <2>1 DEF LookUpServer
  <2>4. UNCHANGED <<serverMap, host, sockets>> /\ at[c] = "locking"
    BY <1>3 DEF LookUpServer, Goes
  <2> QED
    BY <2>2, <2>3, <2>4 DEF ServerTypeOK, NothingShared, HasServer, HasClient, HasSocket, Places
<1>4. ASSUME NEW c \in Clients, DialServer(c) PROVE ServerInv'
  <2>1. sockets' \subseteq Socket
    BY <1>4, DialType DEF DialServer
  <2>2. ServerTypeOK' /\ NothingShared'
    BY <1>4, <2>1 DEF DialServer, Goes, ServerTypeOK, NothingShared, Places
  <2>3. HasServer'
    BY <1>4 DEF DialServer, Dial, Goes, ServerTypeOK, HasServer, HasSocket
  <2>4. HasClient'
    BY <1>4 DEF DialServer, Dial, Goes, ServerTypeOK, HasClient, HasSocket
  <2> QED
    BY <2>2, <2>3, <2>4
<1>5. ASSUME NEW c \in Clients, DialServerFails(c) PROVE ServerInv'
  BY <1>5 DEF DialServerFails, Goes, ServerTypeOK, NothingShared, HasServer, HasClient, HasSocket, Places
<1>6. ASSUME NEW c \in Clients, DialClient(c) PROVE ServerInv'
  <2>1. sockets' \subseteq Socket
    BY <1>6, DialType DEF DialClient
  <2>2. ServerTypeOK' /\ NothingShared'
    BY <1>6, <2>1 DEF DialClient, Goes, ServerTypeOK, NothingShared, Places
  <2>3. HasServer'
    BY <1>6 DEF DialClient, Dial, Goes, ServerTypeOK, HasServer, HasSocket
  <2>4. HasClient'
    BY <1>6 DEF DialClient, Dial, Goes, ServerTypeOK, HasClient, HasSocket
  <2> QED
    BY <2>2, <2>3, <2>4
<1>7. ASSUME NEW c \in Clients, DialClientFails(c) PROVE ServerInv'
  BY <1>7 DEF DialClientFails, Goes, ServerTypeOK, NothingShared, HasServer, HasClient, HasSocket, Places
<1> QED
  BY <1>1, <1>2, <1>3, <1>4, <1>5, <1>6, <1>7 DEF ServerNext, ServerStepOf

LEMMA ServerInvHolds == ServerSpec => []ServerInv
  BY InitServerInv, StepServerInv, PTL DEF ServerSpec

\* The locals and globals of GetServer and NewKomClient keep their types.
THEOREM ServerTypeCorrect == ServerSpec => []ServerTypeOK
<1>1. ServerInv => ServerTypeOK
  BY DEF ServerInv
<1> QED
  BY <1>1, ServerInvHolds, PTL

\* Whatever dials fail and however the goroutines interleave, a client that NewKomClient
\* returned has its two connections, and its KomServer is no nil pointer.
THEOREM UsableClientHolds == ServerSpec => []UsableClient
<1>1. ServerInv => UsableClient
  BY KomServerAssumption DEF ServerInv, HasServer, HasClient, UsableClient
<1> QED
  BY <1>1, ServerInvHolds, PTL

-----------------------------------------------------------------------------
(* The lock. *)

\* Only LookUpServer takes the lock, and it finds it free; every way out of the dial that
\* follows gives it back.
LEMMA StepLockHeld == ServerTypeOK /\ LockHeld /\ [ServerNext]_serverVars => LockHeld'
<1> SUFFICES ASSUME ServerTypeOK, LockHeld, [ServerNext]_serverVars PROVE LockHeld'
  OBVIOUS
<1> USE KomServerAssumption DEF ServerTypeOK, LockHeld
<1>1. CASE UNCHANGED serverVars
  BY <1>1 DEF serverVars
<1>2. ASSUME NEW c \in Clients, CallGetServer(c) PROVE LockHeld'
  BY <1>2 DEF CallGetServer, Goes
<1>3. ASSUME NEW c \in Clients, LookUpServer(c) PROVE LockHeld'
  <2>1. \A d \in Clients : at[d] # "dialing server"
    BY <1>3 DEF LookUpServer
  <2>2. CASE serverMap[host[c]] = Nobody
    BY <1>3, <2>1, <2>2 DEF LookUpServer, Goes
  <2>3. CASE serverMap[host[c]] # Nobody
    BY <1>3, <2>1, <2>3 DEF LookUpServer, Goes
  <2> QED
    BY <2>2, <2>3
<1>4. ASSUME NEW c \in Clients, DialServer(c) \/ DialServerFails(c) PROVE LockHeld'
  BY <1>4 DEF DialServer, DialServerFails, Goes
<1>5. ASSUME NEW c \in Clients, DialClient(c) \/ DialClientFails(c) PROVE LockHeld'
  <2>1. at[c] = "dialing" /\ serverLock' = serverLock
    BY <1>5 DEF DialClient, DialClientFails, Goes
  <2>2. PICK p \in {"connected", "failed"} : at' = [at EXCEPT ![c] = p]
    BY <1>5 DEF DialClient, DialClientFails, Goes
  <2> QED
    BY <2>1, <2>2
<1> QED
  BY <1>1, <1>2, <1>3, <1>4, <1>5 DEF ServerNext, ServerStepOf

\* For any goroutines and hosts the lock is held by the goroutine that dials for a
\* KomServer, also when its dial fails, and by nobody else.
THEOREM LockHeldHolds == ServerSpec => []LockHeld
<1>1. ServerInit => LockHeld
  BY KomServerAssumption DEF ServerInit, LockHeld
<1> QED
  BY <1>1, StepLockHeld, ServerTypeCorrect, PTL DEF ServerSpec

-----------------------------------------------------------------------------
(* A session implements it. *)

LEMMA SessionStep == [SessionNext]_sessionVars => [ServerNext]_serverVars
<1> SUFFICES ASSUME [SessionNext]_sessionVars PROVE [ServerNext]_serverVars
  OBVIOUS
<1>1. CASE UNCHANGED sessionVars
  BY <1>1 DEF sessionVars
<1>2. ASSUME NEW c \in Clients, BeginConnecting(c) PROVE ServerNext
  BY <1>2 DEF BeginConnecting, ServerNext
<1>3. ASSUME NEW c \in Clients, Connect(c) PROVE ServerNext
  BY <1>3 DEF Connect, ServerNext
<1>4. ASSUME NEW c \in Clients, Ask(c) \/ Answer(c) \/ Return(c) \/ Panic(c) \/ PanicAfter(c)
      PROVE  UNCHANGED serverVars
  BY <1>4 DEF Ask, Answer, Return, Panic, PanicAfter
<1> QED
  BY <1>1, <1>2, <1>3, <1>4 DEF SessionNext

\* Every session implements KomServer: its steps are steps of NewKomClient or leave what
\* NewKomClient uses alone.
THEOREM SessionImplementsServer == SessionSpec => ServerSpec
<1>1. SessionInit => ServerInit
  BY DEF SessionInit
<1> QED
  BY <1>1, SessionStep, PTL DEF SessionSpec, ServerSpec

\* In every session a client that NewKomClient returned has its two connections, and its
\* KomServer is no nil pointer.
THEOREM SessionUsableClient == SessionSpec => []UsableClient
  BY SessionImplementsServer, UsableClientHolds, PTL

\* In every session serverLock is held by the goroutine that dials for a KomServer, and by
\* nobody else: no call, answer or panic leaves it taken.
THEOREM SessionLockHeld == SessionSpec => []LockHeld
  BY SessionImplementsServer, LockHeldHolds, PTL

-----------------------------------------------------------------------------
(* What the server reads. *)

\* A word ends at q: with a blank, with the line feed or with the line.
Ends(s, q) == q <= Len(s) => s[q] \in {" ", "LF"}

LEMMA EndsNoDigit ==
  ASSUME NEW s, NEW q, Ends(s, q), q <= Len(s) PROVE s[q] \notin DigitChars
  BY NoDigits, Zenon DEF Ends

\* The first i of some values.
First(vs, i) == [j \in 1..i |-> vs[j]]

LEMMA FirstGrows ==
  ASSUME NEW vs, NEW n \in Nat, NEW i \in 1..n
  PROVE  First(vs, i) = Append(First(vs, i - 1), vs[i])
<1> DEFINE S == {vs[j] : j \in 1..n}
<1>1. \A j \in 1..n : vs[j] \in S
  OBVIOUS
<1> HIDE DEF S
<1>2. PICK k \in Nat : k = i - 1 /\ i = k + 1 /\ \A j \in 1..k : j \in 1..n
  <2>1. i - 1 \in Nat /\ i = (i - 1) + 1 /\ \A j \in 1..(i - 1) : j \in 1..n
    OBVIOUS
  <2> QED
    BY <2>1
<1>3. First(vs, k) \in Seq(S) /\ Len(First(vs, k)) = k /\ \A j \in 1..k : First(vs, k)[j] = vs[j]
  BY <1>1, <1>2 DEF First
<1>4. PICK a \in Seq(S) : a = First(vs, k)
  BY <1>3
<1>5. Append(a, vs[i]) \in Seq(S) /\ Len(Append(a, vs[i])) = k + 1
      /\ (\A j \in 1..k : Append(a, vs[i])[j] = a[j]) /\ Append(a, vs[i])[k + 1] = vs[i]
  BY <1>1, <1>3, <1>4
<1>6. \A j \in 1..i : Append(a, vs[i])[j] = vs[j]
  <2>1. \A j \in 1..i : j \in 1..k \/ j = k + 1
    BY <1>2
  <2> QED
    BY <1>2, <1>3, <1>4, <1>5, <2>1
<1>7. DOMAIN Append(a, vs[i]) = 1..i
  BY <1>2, <1>5
<1>8. Append(a, vs[i]) = [j \in 1..i |-> vs[j]]
  BY <1>5, <1>6, <1>7
<1> QED
  BY <1>2, <1>4, <1>8, Zenon DEF First

\* Numbers that stand in s from pos[1], pos[2] and so on, with a character after each.
NumbersAt(s, ns, n, pos) ==
  /\ pos \in [1..(n + 1) -> Nat]
  /\ \A i \in 1..n : /\ ns[i] \in Nat /\ ns[i] < Word
                     /\ Holds(s, pos[i], Decimal[ns[i]])
                     /\ pos[i + 1] = pos[i] + Len(Decimal[ns[i]]) + 1
                     /\ Ends(s, pos[i + 1] - 1)

\* They are read one after the other.
LEMMA NumberedReads ==
  ASSUME NEW s \in Texts, NEW n \in Nat, NEW ns, NEW pos, NumbersAt(s, ns, n, pos)
  PROVE  Numbered(s, pos[1], n) = Value(First(ns, n), pos[n + 1])
<1> DEFINE Body(g) ==
      [i \in 0..n |-> IF i = 0 THEN Value(<<>>, pos[1])
                      ELSE LET before == g[i - 1]
                               number == ReadUInt32(s, before.next)
                           IN  Value(Append(before.v, number.v), number.next)]
           f == [i \in 0..n |-> Value(First(ns, i), pos[i + 1])]
           read == CHOOSE g : g = Body(g)
<1>1. ASSUME NEW i \in 1..n PROVE ReadUInt32(s, pos[i]) = Value(ns[i], pos[i + 1])
  <2>1. /\ ns[i] \in Nat /\ ns[i] < Word /\ pos[i] \in Nat
        /\ Holds(s, pos[i], Decimal[ns[i]])
        /\ pos[i + 1] = pos[i] + Len(Decimal[ns[i]]) + 1
        /\ Ends(s, pos[i + 1] - 1)
    <3>1. i \in 1..(n + 1)
      OBVIOUS
    <3>2. pos[i] \in Nat
      BY <3>1 DEF NumbersAt
    <3> QED
      BY <3>2, Zenon DEF NumbersAt
  <2>2. PICK q : q = pos[i] + Len(Decimal[ns[i]])
    OBVIOUS
  <2>3. Len(Decimal[ns[i]]) \in Nat
    BY <2>1, DecimalInTexts
  <2>4. pos[i + 1] - 1 = q
    BY <2>1, <2>2, <2>3
  <2>5. q <= Len(s) => s[q] \notin DigitChars
    BY <2>1, <2>4, EndsNoDigit
  <2>6. ReadUInt32(s, pos[i]) = Value(ns[i], pos[i] + Len(Decimal[ns[i]]) + 1)
    BY <2>1, <2>2, <2>5, ReadUInt32Reads
  <2> QED
    BY <2>1, <2>6
<1>2. \A v, next : Value(v, next).v = v /\ Value(v, next).next = next
  BY DEF Value
<1>3. \A i \in 1..n : i - 1 \in 0..n /\ i # 0 /\ (i - 1) + 1 = i
  OBVIOUS
<1>4. \A i \in 0..n : i = 0 \/ i \in 1..n
  OBVIOUS
<1>5. \A i \in 1..n : f[i - 1] = Value(First(ns, i - 1), pos[i])
  BY <1>3
<1>6. ASSUME NEW i \in 0..n PROVE f[i] = Body(f)[i]
  <2>1. CASE i = 0
    <3>1. First(ns, 0) = <<>>
      BY DEF First
    <3> QED
      BY <2>1, <3>1
  <2>2. CASE i \in 1..n
    <3>1. First(ns, i) = Append(First(ns, i - 1), ns[i])
      BY <2>2, FirstGrows
    <3>2. f[i] = Value(First(ns, i), pos[i + 1])
      OBVIOUS
    <3>3. f[i - 1].v = First(ns, i - 1) /\ f[i - 1].next = pos[i]
      BY <1>2, <1>5, <2>2
    <3>4. /\ ReadUInt32(s, f[i - 1].next).v = ns[i]
          /\ ReadUInt32(s, f[i - 1].next).next = pos[i + 1]
      BY <1>1, <1>2, <2>2, <3>3
    <3> HIDE DEF f
    <3>5. Body(f)[i] = Value(Append(f[i - 1].v, ReadUInt32(s, f[i - 1].next).v),
                             ReadUInt32(s, f[i - 1].next).next)
      BY <1>3, <2>2
    <3> QED
      BY <3>1, <3>2, <3>3, <3>4, <3>5
  <2> QED
    BY <1>4, <2>1, <2>2
<1>7. f = Body(f)
  <2>1. f = [i \in 0..n |-> f[i]] /\ Body(f) = [i \in 0..n |-> Body(f)[i]]
    OBVIOUS
  <2> HIDE DEF f, Body
  <2> QED
    BY <1>6, <2>1, Zenon
<1>8. read = Body(read)
  <2> HIDE DEF Body
  <2> QED
    BY <1>7
<1>9. Numbered(s, pos[1], n) = read[n]
  BY DEF Numbered
<1> HIDE DEF read
<1>10. \A i \in 0..n : read[i] = Body(read)[i]
  BY <1>8, Zenon
<1>11. \A i \in 0..n : read[i] = f[i]
  <2>1. ASSUME NEW i \in 1..n, read[i - 1] = f[i - 1] PROVE read[i] = f[i]
    <3>1. i \in 0..n /\ i # 0
      BY <1>3
    <3>2. Body(read)[i] = Body(f)[i]
      <4> HIDE DEF f
      <4> QED
        BY <2>1, <3>1
    <3> HIDE DEF Body, f
    <3> QED
      BY <1>6, <1>10, <3>1, <3>2
  <2>2. read[0] = f[0]
    <3>1. 0 \in 0..n
      OBVIOUS
    <3>2. Body(read)[0] = Body(f)[0]
      BY <3>1
    <3> HIDE DEF Body, f
    <3> QED
      BY <1>6, <1>10, <3>1, <3>2
  <2>3. GoOnAlike(read, f, n)
    BY <2>1, <2>2, Zenon DEF GoOnAlike
  <2> HIDE DEF f
  <2> QED
    BY <2>3, SameRecursion
<1>12. n \in 0..n
  OBVIOUS
<1> QED
  BY <1>9, <1>11, <1>12

\* Numbers that are fields of a line.
LEMMA NumbersRead ==
  ASSUME NEW s \in Texts, NEW ns \in Seq(UInt32), NEW n \in Nat \ {0}, n = Len(ns),
         NEW p \in Nat, Holds(s, p, Numbers(ns)),
         NEW q \in Nat, q = p + Len(Numbers(ns)), Ends(s, q)
  PROVE  Numbered(s, p, n) = Value(ns, q + 1)
<1> DEFINE words == [i \in DOMAIN ns |-> Decimal[ns[i]]]
<1>1. \A i \in 1..n : ns[i] \in Nat /\ ns[i] < Word
  BY WireAssumption DEF UInt32
<1>2. words \in Seq(Texts) /\ Len(words) = n /\ \A i \in 1..n : words[i] = Decimal[ns[i]]
  <2>1. DOMAIN ns = 1..n
    OBVIOUS
  <2>2. \A i \in 1..n : Decimal[ns[i]] \in Texts
    BY <1>1, DecimalInTexts
  <2> QED
    BY <2>1, <2>2
<1>3. Numbers(ns) = Spaced(words)
  BY DEF Numbers
<1> HIDE DEF words
<1>4. PICK pos : /\ WordsAt(s, words, pos) /\ pos[1] = p
                 /\ pos[n + 1] = p + Len(Spaced(words)) + 1
  <2>1. \E pos : /\ WordsAt(s, words, pos) /\ pos[1] = p
                 /\ pos[Len(words) + 1] = p + Len(Spaced(words)) + 1
    <3>1. Len(words) > 0 /\ Holds(s, p, Spaced(words))
      BY <1>2, <1>3
    <3> QED
      BY <1>2, <3>1, SpacedWords
  <2> QED
    BY <1>2, <2>1, Zenon
<1>5. pos[n + 1] = q + 1
  BY <1>3, <1>4
<1>6. pos \in [1..(n + 1) -> Nat]
  BY <1>2, <1>4 DEF WordsAt
<1>7. ASSUME NEW i \in 1..n
      PROVE  /\ Holds(s, pos[i], Decimal[ns[i]])
             /\ pos[i + 1] = pos[i] + Len(Decimal[ns[i]]) + 1
             /\ Ends(s, pos[i + 1] - 1)
  <2>1. i \in 1..Len(words) /\ words[i] = Decimal[ns[i]]
    BY <1>2
  <2>2. /\ Holds(s, pos[i], words[i]) /\ pos[i + 1] = pos[i] + Len(words[i]) + 1
        /\ i < Len(words) => At(s, pos[i + 1] - 1, {" "})
    BY <1>4, <2>1, Zenon DEF WordsAt
  <2>3. ASSUME i = n PROVE Ends(s, pos[i + 1] - 1)
    BY <1>5, <2>3
  <2>4. ASSUME i < n PROVE Ends(s, pos[i + 1] - 1)
    <3>1. At(s, pos[i + 1] - 1, {" "})
      BY <1>2, <2>2, <2>4
    <3> QED
      BY <3>1, Zenon DEF At, Ends
  <2>5. i = n \/ i < n
    OBVIOUS
  <2> QED
    BY <2>1, <2>2, <2>3, <2>4, <2>5
<1>8. NumbersAt(s, ns, n, pos)
  BY <1>1, <1>6, <1>7, Zenon DEF NumbersAt
<1>9. First(ns, n) = ns
  BY DEF First
<1>10. Numbered(s, pos[1], n) = Value(First(ns, n), pos[n + 1])
  BY <1>8, NumberedReads
<1> QED
  BY <1>4, <1>5, <1>9, <1>10

LEMMA WordSize == Word \in Nat /\ Word > 81
  BY WireAssumption, ArgumentsAssumption, Zenon

\* What stands from p up to q is read as an argument and the character at q with it.
Reads(kind, arg, s, p, q) ==
  /\ FieldAt(kind, s, p).next = q + 1
  /\ kind \notin Lookups => FieldAt(kind, s, p).v = Sayable(kind, arg)

\* The argument stands in s from p up to q, where it ends.
Stands(kind, arg, s, p, q) ==
  /\ Typed(kind, arg) /\ Holds(s, p, Field(kind, arg))
  /\ p \in Nat /\ q \in Nat /\ q = p + Len(Field(kind, arg)) /\ Ends(s, q)

LEMMA NumberReads ==
  ASSUME NEW s \in Texts, NEW n \in UInt32, NEW p \in Nat, Holds(s, p, Decimal[n]),
         NEW q \in Nat, q = p + Len(Decimal[n]), Ends(s, q)
  PROVE  ReadUInt32(s, p) = Value(n, q + 1)
<1>1. n \in Nat /\ n < Word
  BY WireAssumption DEF UInt32
<1>2. q <= Len(s) => s[q] \notin DigitChars
  BY EndsNoDigit
<1>3. ReadUInt32(s, p) = Value(n, p + Len(Decimal[n]) + 1)
  BY <1>1, <1>2, ReadUInt32Reads
<1> QED
  BY <1>3

LEMMA ValueParts == \A v, next : Value(v, next).v = v /\ Value(v, next).next = next
  BY DEF Value

LEMMA NumberField ==
  ASSUME NEW s \in Texts, NEW arg, NEW p, NEW q, NEW kind \in Lookups \cup {"number"},
         Stands(kind, arg, s, p, q)
  PROVE  Reads(kind, arg, s, p, q)
<1>1. FieldAt(kind, s, p) = ReadUInt32(s, p)
  BY DEF FieldAt, Lookups
<1>2. CASE kind = "number"
  <2>1. Field(kind, arg) = Decimal[arg] /\ arg \in UInt32 /\ Sayable(kind, arg) = arg
    BY <1>2 DEF Field, Stands, Typed, Sayable, Lookups
  <2>2. ReadUInt32(s, p) = Value(arg, q + 1)
    BY <2>1, NumberReads DEF Stands
  <2> QED
    BY <1>1, <2>1, <2>2, ValueParts DEF Reads
<1>3. CASE kind \in Lookups
  <2>1. Field(kind, arg) = Decimal[NumberOf(arg)]
    BY <1>3 DEF Field, Lookups
  <2>2. NumberOf(arg) = 0
    BY DEF NumberOf, KnownNames
  <2>3. 0 \in UInt32
    BY WireAssumption DEF UInt32
  <2>4. ReadUInt32(s, p) = Value(0, q + 1)
    BY <2>1, <2>2, <2>3, NumberReads DEF Stands
  <2> QED
    BY <1>1, <1>3, <2>4, ValueParts DEF Reads
<1> QED
  BY <1>2, <1>3

LEMMA FlagField ==
  ASSUME NEW s \in Texts, NEW arg, NEW p, NEW q, Stands("flag", arg, s, p, q)
  PROVE  Reads("flag", arg, s, p, q)
<1>1. arg \in BOOLEAN
  BY DEF Stands, Typed, Lookups
<1>2. PICK n : n = IF arg THEN 1 ELSE 0
  OBVIOUS
<1>3. n \in UInt32 /\ (n = 1 <=> arg)
  BY <1>1, <1>2, WordSize DEF UInt32
<1>4. Field("flag", arg) = Decimal[n]
  BY <1>2 DEF Field, Lookups
<1>5. ReadUInt32(s, p) = Value(n, q + 1)
  BY <1>3, <1>4, NumberReads DEF Stands
<1>6. Sayable("flag", arg) = arg
  BY DEF Sayable
<1>7. FieldAt("flag", s, p) = Value(arg, q + 1)
  <2>1. (ReadUInt32(s, p).v = 1) = arg /\ ReadUInt32(s, p).next = q + 1
    BY <1>1, <1>3, <1>5, ValueParts
  <2>2. FieldAt("flag", s, p) = FlagAt(s, p)
    BY DEF FieldAt, Lookups
  <2> QED
    BY <2>1, <2>2, Zenon DEF FlagAt
<1>8. FieldAt("flag", s, p).next = q + 1 /\ FieldAt("flag", s, p).v = arg
  BY <1>7, ValueParts, Zenon
<1> QED
  BY <1>6, <1>8, Zenon DEF Reads

LEMMA StringsAreTexts == ASSUME NEW t \in Seq(STRING) PROVE t \in Texts
<1>1. PICK S : S = STRING
  OBVIOUS
<1>2. S \subseteq Chars
  BY <1>1, MoreChars, Zenon
<1>3. t \in Seq(S)
  BY <1>1, Zenon
<1> QED
  BY <1>2, <1>3 DEF Texts

LEMMA TextField ==
  ASSUME NEW s \in Texts, NEW arg, NEW p, NEW q, Stands("text", arg, s, p, q)
  PROVE  Reads("text", arg, s, p, q)
<1>1. arg \in Seq(STRING) /\ Len(arg) < Word
  BY DEF Stands, Typed, Lookups
<1>2. arg \in Texts
  BY <1>1, StringsAreTexts
<1>3. Field("text", arg) = Sprint(arg)
  BY DEF Field, Lookups
<1>4. Holds(s, p, Sprint(arg)) /\ p \in Nat \ {0} /\ q = p + Len(Sprint(arg))
  BY <1>3 DEF Stands, Holds
<1>5. Blanks(s, p, p)
  <2>1. \A r : r \notin p..(p - 1)
    BY <1>4
  <2> QED
    BY <2>1, Zenon DEF Blanks
<1>6. Scan(s, p) = [v |-> arg, next |-> p + Len(Sprint(arg)), ok |-> TRUE]
  BY <1>1, <1>2, <1>4, <1>5, ScanReads
<1>7. FieldAt("text", s, p) = Value(Scan(s, p).v, Scan(s, p).next + 1)
  BY DEF FieldAt, TextAt, Lookups
<1>8. Sayable("text", arg) = arg
  BY DEF Sayable
<1> QED
  BY <1>4, <1>6, <1>7, <1>8, ValueParts DEF Reads

LEMMA InfoField ==
  ASSUME NEW s \in Texts, NEW arg, NEW p, NEW q, Stands("info", arg, s, p, q)
  PROVE  Reads("info", arg, s, p, q)
<1>1. arg \in Seq(UInt32)
  BY DEF Stands, Typed, Lookups
<1>2. Field("info", arg) = Numbers(arg) /\ Sayable("info", arg) = arg
  BY DEF Field, Sayable, Lookups
<1>7. Len(arg) = 6
  BY DEF Stands, Typed, Lookups
<1>3. PICK n \in Nat \ {0} : n = Len(arg)
  BY <1>7
<1>4. /\ Holds(s, p, Numbers(arg)) /\ p \in Nat /\ q \in Nat /\ q = p + Len(Numbers(arg))
      /\ Ends(s, q)
  BY <1>2 DEF Stands
<1>5. Numbered(s, p, n) = Value(arg, q + 1)
  BY <1>1, <1>3, <1>4, NumbersRead
<1>6. FieldAt("info", s, p) = Numbered(s, p, n)
  BY <1>7, <1>3 DEF FieldAt, Lookups
<1> QED
  BY <1>2, <1>5, <1>6, ValueParts DEF Reads

\* Three changes to a sequence.
LEMMA Except3 ==
  ASSUME NEW S, NEW f \in Seq(S), NEW i \in DOMAIN f, NEW j \in DOMAIN f, NEW k \in DOMAIN f,
         i # j, i # k, j # k, NEW a \in S, NEW b \in S, NEW c \in S
  PROVE  LET g == [f EXCEPT ![i] = a, ![j] = b, ![k] = c]
         IN  /\ g \in Seq(S) /\ Len(g) = Len(f) /\ g[i] = a /\ g[j] = b /\ g[k] = c
             /\ \A x \in DOMAIN f \ {i, j, k} : g[x] = f[x]
<1>1. [f EXCEPT ![i] = a, ![j] = b, ![k] = c] \in Seq(S)
  OBVIOUS
<1>2. Len([f EXCEPT ![i] = a, ![j] = b, ![k] = c]) = Len(f)
  OBVIOUS
<1> QED
  BY <1>1, <1>2

LEMMA SameSeq ==
  ASSUME NEW S, NEW f \in Seq(S), NEW g \in Seq(S), Len(f) = Len(g),
         \A i \in DOMAIN f : f[i] = g[i]
  PROVE  f = g
  OBVIOUS

\* StringTime's numbers.
TmOf(when) == [when EXCEPT ![5] = @ - 1, ![6] = @ - 1900, ![8] = @ - 1]

LEMMA TmNumbers ==
  ASSUME NEW arg, Typed("time", arg)
  PROVE  \E n \in Nat \ {0} :
           /\ n = Len(arg) /\ n = 9 /\ DOMAIN arg = 1..n /\ \A i \in 1..n : arg[i] \in UInt32
           /\ TmOf(arg) \in Seq(UInt32) /\ Len(TmOf(arg)) = n
           /\ TmOf(arg)[5] + 1 = arg[5] /\ TmOf(arg)[6] + 1900 = arg[6]
           /\ TmOf(arg)[8] + 1 = arg[8]
           /\ \A i \in DOMAIN arg \ {5, 6, 8} : TmOf(arg)[i] = arg[i]
<1> DEFINE tm == TmOf(arg)
<1>1. /\ arg \in Seq(UInt32) /\ Len(arg) = 9 /\ Word \in Nat
      /\ arg[5] >= 1 /\ arg[6] >= 1900 /\ arg[8] >= 1
  BY WordSize DEF Typed, Lookups
<1>2. PICK n \in Nat \ {0} : n = Len(arg) /\ n = 9
  BY <1>1
<1>3. DOMAIN arg = 1..n /\ \A i \in 1..n : arg[i] \in UInt32
  <2>1. arg \in Seq(UInt32) /\ n = Len(arg)
    BY <1>1, <1>2
  <2> QED
    BY <2>1
<1>4. 5 \in DOMAIN arg /\ 6 \in DOMAIN arg /\ 8 \in DOMAIN arg
  BY <1>2, <1>3
<1>5. PICK a \in UInt32, b \in UInt32, c \in UInt32 :
        /\ a = arg[5] - 1 /\ a + 1 = arg[5] /\ b = arg[6] - 1900 /\ b + 1900 = arg[6]
        /\ c = arg[8] - 1 /\ c + 1 = arg[8]
  <2>1. \A m \in UInt32 : m >= 1 => m - 1 \in UInt32 /\ (m - 1) + 1 = m
    BY <1>1 DEF UInt32
  <2>2. \A m \in UInt32 : m >= 1900 => m - 1900 \in UInt32 /\ (m - 1900) + 1900 = m
    BY <1>1 DEF UInt32
  <2>3. arg[5] \in UInt32 /\ arg[6] \in UInt32 /\ arg[8] \in UInt32
    BY <1>3, <1>4
  <2> QED
    BY <1>1, <2>1, <2>2, <2>3
<1>6. tm = [arg EXCEPT ![5] = a, ![6] = b, ![8] = c]
  <2>1. tm = [arg EXCEPT ![5] = arg[5] - 1, ![6] = arg[6] - 1900, ![8] = arg[8] - 1]
    BY Zenon DEF TmOf
  <2> HIDE DEF tm
  <2> QED
    BY <1>5, <2>1
<1> HIDE DEF tm
<1>7. /\ tm \in Seq(UInt32) /\ Len(tm) = n /\ tm[5] = a /\ tm[6] = b /\ tm[8] = c
      /\ \A i \in DOMAIN arg \ {5, 6, 8} : tm[i] = arg[i]
  BY <1>1, <1>2, <1>4, <1>6, Except3
<1>8. tm[5] + 1 = arg[5] /\ tm[6] + 1900 = arg[6] /\ tm[8] + 1 = arg[8]
  BY <1>5, <1>7
<1> USE DEF tm
<1> WITNESS n \in Nat \ {0}
<1> QED
  BY <1>2, <1>3, <1>7, <1>8

LEMMA TimeField ==
  ASSUME NEW s \in Texts, NEW arg, NEW p, NEW q, Stands("time", arg, s, p, q)
  PROVE  Reads("time", arg, s, p, q)
<1> DEFINE tm == TmOf(arg)
           back(ns) == [ns EXCEPT ![5] = @ + 1, ![6] = @ + 1900, ![8] = @ + 1]
<1>0. Typed("time", arg)
  BY DEF Stands
<1>1. arg \in Seq(UInt32)
  BY <1>0 DEF Typed, Lookups
<1>2. PICK n \in Nat \ {0} :
        /\ n = Len(arg) /\ n = 9 /\ DOMAIN arg = 1..n /\ \A i \in 1..n : arg[i] \in UInt32
        /\ tm \in Seq(UInt32) /\ Len(tm) = n
        /\ tm[5] + 1 = arg[5] /\ tm[6] + 1900 = arg[6] /\ tm[8] + 1 = arg[8]
        /\ \A i \in DOMAIN arg \ {5, 6, 8} : tm[i] = arg[i]
  BY <1>0, TmNumbers
<1> HIDE DEF tm
<1>3. DOMAIN arg = 1..n /\ \A i \in 1..n : arg[i] \in UInt32
  BY <1>2
<1>4. 5 \in DOMAIN arg /\ 6 \in DOMAIN arg /\ 8 \in DOMAIN arg
  BY <1>2
<1>5. tm[5] + 1 = arg[5] /\ tm[6] + 1900 = arg[6] /\ tm[8] + 1 = arg[8]
  BY <1>2
<1>7. /\ tm \in Seq(UInt32) /\ Len(tm) = n
      /\ \A i \in DOMAIN arg \ {5, 6, 8} : tm[i] = arg[i]
  BY <1>2
<1>8. DOMAIN tm = 1..n /\ DOMAIN tm = DOMAIN arg
  BY <1>3, <1>7
<1>9. back(tm) = [tm EXCEPT ![5] = arg[5], ![6] = arg[6], ![8] = arg[8]]
  <2>1. back(tm) = [tm EXCEPT ![5] = tm[5] + 1, ![6] = tm[6] + 1900, ![8] = tm[8] + 1]
    BY Zenon
  <2> HIDE DEF back
  <2>2. PICK x, y, z : x = tm[5] + 1 /\ y = tm[6] + 1900 /\ z = tm[8] + 1
    OBVIOUS
  <2>3. back(tm) = [tm EXCEPT ![5] = x, ![6] = y, ![8] = z]
    BY <2>1, <2>2
  <2>4. x = arg[5] /\ y = arg[6] /\ z = arg[8]
    BY <1>5, <2>2
  <2> QED
    BY <2>3, <2>4, Zenon
<1> HIDE DEF back
<1>10. /\ back(tm) \in Seq(UInt32) /\ Len(back(tm)) = n
       /\ back(tm)[5] = arg[5] /\ back(tm)[6] = arg[6] /\ back(tm)[8] = arg[8]
       /\ \A i \in DOMAIN tm \ {5, 6, 8} : back(tm)[i] = tm[i]
  <2>1. arg[5] \in UInt32 /\ arg[6] \in UInt32 /\ arg[8] \in UInt32
    BY <1>3, <1>4
  <2> QED
    BY <1>4, <1>7, <1>8, <1>9, <2>1, Except3
<1>11. back(tm) = arg
  <2>1. \A i \in DOMAIN arg : arg[i] = back(tm)[i]
    BY <1>7, <1>8, <1>10
  <2>2. arg \in Seq(UInt32) /\ back(tm) \in Seq(UInt32) /\ Len(arg) = Len(back(tm))
    BY <1>1, <1>2, <1>10
  <2> QED
    BY <2>1, <2>2, SameSeq
<1>12. Field("time", arg) = Numbers(tm) /\ Sayable("time", arg) = arg
  BY DEF Field, StringTime, Sayable, Lookups, TmOf, tm
<1>13. FieldAt("time", s, p) = Value(back(Numbered(s, p, n).v), Numbered(s, p, n).next)
  BY <1>2 DEF FieldAt, TimeAt, Lookups, back
<1>14. Numbered(s, p, n) = Value(tm, q + 1)
  <2>1. /\ Holds(s, p, Numbers(tm)) /\ p \in Nat /\ q \in Nat /\ q = p + Len(Numbers(tm))
        /\ Ends(s, q)
    BY <1>12 DEF Stands
  <2> QED
    BY <1>7, <2>1, NumbersRead
<1> QED
  BY <1>11, <1>12, <1>13, <1>14, ValueParts DEF Reads

\* Flags that are written with a list are read with it.
LEMMA BitsRead ==
  ASSUME NEW s \in Texts, NEW p \in Nat, NEW b, NEW n \in Nat \ {0}, BitText(b, n),
         Holds(s, p, b), NEW q \in Nat, q = p + n, Ends(s, q),
         NEW list, DOMAIN list \subseteq 1..n
  PROVE  BitsAt(s, p, list, n) = Value(Marked(list, b), q + 1)
<1>1. p \in Nat \ {0} /\ p <= p
  BY DEF Holds
<1>2. Blanks(s, p, p)
  <2>1. \A r : r \notin p..(p - 1)
    BY <1>1
  <2> QED
    BY <2>1, Zenon DEF Blanks
<1>3. q <= Len(s) => s[q] \notin Bits
  BY EndsNoDigit, BitsAreDigits
<1>4. ReadFlags(s, p, list, n) = Value(Marked(list, b), q)
  BY <1>1, <1>2, <1>3, ReadFlagsReads
<1> QED
  BY <1>4, ValueParts DEF BitsAt

LEMMA FlagsRead ==
  ASSUME NEW s \in Texts, NEW p \in Nat, NEW n \in Nat \ {0}, NEW list, Len(list) \in Nat,
         Len(list) <= n, DOMAIN list = 1..Len(list), NEW flags \in FlagsOf(list),
         Holds(s, p, BitsOf(flags, list, n)), NEW q \in Nat, q = p + n, Ends(s, q)
  PROVE  BitsAt(s, p, list, n) = Value(flags, q + 1)
<1>1. BitText(BitsOf(flags, list, n), n)
  BY BitsOfText
<1>2. Marked(list, BitsOf(flags, list, n)) = flags
  <2>1. \A f \in flags : \E i \in 1..Len(list) : list[i] = f
    BY DEF FlagsOf
  <2> QED
    BY <2>1, FlagsOfBits
<1>3. DOMAIN list \subseteq 1..n
  OBVIOUS
<1> QED
  BY <1>1, <1>2, <1>3, BitsRead

LEMMA PrivField ==
  ASSUME NEW s \in Texts, NEW arg, NEW p, NEW q, Stands("priv", arg, s, p, q)
  PROVE  Reads("priv", arg, s, p, q)
<1>1. arg \in FlagsOf(PrivFlags)
  BY DEF Stands, Typed, Lookups
<1>2. Field("priv", arg) = BitsOf(arg, PrivFlags, 16) /\ Sayable("priv", arg) = arg
  BY DEF Field, PrivRepr, Sayable, Lookups
<1>3. Len(PrivFlags) = 6 /\ DOMAIN PrivFlags = 1..6
  BY DEF PrivFlags
<1>4. PICK n \in Nat \ {0} : n = 16
  OBVIOUS
<1>5. Holds(s, p, BitsOf(arg, PrivFlags, n)) /\ p \in Nat /\ q \in Nat /\ Ends(s, q)
  BY <1>2, <1>4 DEF Stands
<1>6. q = p + n
  <2>1. Len(BitsOf(arg, PrivFlags, n)) = n
    BY BitsOfText DEF BitText
  <2> QED
    BY <1>2, <1>4, <2>1 DEF Stands
<1>7. BitsAt(s, p, PrivFlags, n) = Value(arg, q + 1)
  <2>1. Len(PrivFlags) \in Nat /\ Len(PrivFlags) <= n /\ DOMAIN PrivFlags = 1..Len(PrivFlags)
    BY <1>3, <1>4
  <2> QED
    BY <1>1, <1>5, <1>6, <2>1, FlagsRead
<1>8. FieldAt("priv", s, p) = BitsAt(s, p, PrivFlags, n)
  BY <1>4 DEF FieldAt, Lookups
<1> QED
  BY <1>2, <1>7, <1>8, ValueParts DEF Reads

\* A bit field ends with its last bit.
LEMMA BitsEnd ==
  ASSUME NEW s \in Texts, NEW p \in Nat, NEW b, NEW n \in Nat \ {0}, BitText(b, n),
         Holds(s, p, b), NEW q \in Nat, q = p + n, Ends(s, q)
  PROVE  SkipOver(s, p, DigitChars) = q
<1>1. b \in Texts /\ Len(b) = n /\ \A i \in 1..Len(b) : b[i] \in DigitChars
  BY BitsAreDigits DEF BitText
<1>2. p <= q /\ q <= Len(s) + 1 /\ \A r \in p..(q - 1) : s[r] \in DigitChars
  BY <1>1, HoldsIn
<1>3. q <= Len(s) => s[q] \notin DigitChars
  BY EndsNoDigit
<1> QED
  BY <1>2, <1>3, SkipOverAt DEF Holds

LEMMA FourOf ==
  ASSUME NEW S, NEW a \in S, NEW b \in S, NEW c \in S, NEW d \in S
  PROVE  <<a, b, c, d>> \in Seq(S) /\ Len(<<a, b, c, d>>) = 4
<1>1. Len(<<a, b, c, d>>) = 4
  OBVIOUS
<1>2. DOMAIN <<a, b, c, d>> = 1..4 /\ \A i \in 1..4 : <<a, b, c, d>>[i] \in S
  OBVIOUS
<1>3. <<a, b, c, d>> \in Seq(S)
  OBVIOUS
<1> QED
  BY <1>1, <1>3

LEMMA SeqConcat ==
  ASSUME NEW S, NEW u \in Seq(S), NEW w \in Seq(S)
  PROVE  /\ u \o w \in Seq(S) /\ Len(u \o w) = Len(u) + Len(w)
         /\ \A i \in 1..Len(u) : (u \o w)[i] = u[i]
         /\ \A i \in 1..Len(w) : (u \o w)[Len(u) + i] = w[i]
<1>1. u \o w \in Seq(S) /\ Len(u \o w) = Len(u) + Len(w)
  OBVIOUS
<1>2. \A i \in 1..Len(u) : (u \o w)[i] = u[i]
  OBVIOUS
<1>3. \A i \in 1..Len(w) : (u \o w)[Len(u) + i] = w[i]
  OBVIOUS
<1> QED
  BY <1>1, <1>2, <1>3

LEMMA ExtendedList ==
  /\ Len(ExtendedFlags) = 8 /\ DOMAIN ExtendedFlags = 1..8
  /\ Len(SubSeq(ExtendedFlags, 1, 6)) = 6
  /\ \A i \in 1..6 : /\ SubSeq(ExtendedFlags, 1, 6)[i] = ExtendedFlags[i]
                     /\ ExtendedFlags[i] \notin {"Reserved2", "Reserved3"}
  /\ ExtendedFlags[7] = "Reserved2" /\ ExtendedFlags[8] = "Reserved3"
<1> DEFINE more == <<"AllowAnonymous", "ForbidSecret", "Reserved2", "Reserved3">>
<1>1. PICK S : S = {"RdProt", "Original", "Secret", "LetterBox",
                    "AllowAnonymous", "ForbidSecret", "Reserved2", "Reserved3"}
  OBVIOUS
<1>2. PICK u \in Seq(S) : u = ConfFlags /\ Len(u) = 4 /\ \A i \in 1..4 : u[i] = ConfFlags[i]
  <2>1. ConfFlags \in Seq(S) /\ Len(ConfFlags) = 4
    BY <1>1, FourOf DEF ConfFlags
  <2> QED
    BY <2>1
<1>3. PICK w \in Seq(S) : w = more /\ Len(w) = 4 /\ \A i \in 1..4 : w[i] = more[i]
  BY <1>1, FourOf
<1>4. /\ u \o w \in Seq(S) /\ Len(u \o w) = 8
      /\ \A i \in 1..4 : (u \o w)[i] = u[i] /\ (u \o w)[4 + i] = w[i]
  <2>1. /\ u \o w \in Seq(S) /\ Len(u \o w) = Len(u) + Len(w)
        /\ \A i \in 1..Len(u) : (u \o w)[i] = u[i]
        /\ \A i \in 1..Len(w) : (u \o w)[Len(u) + i] = w[i]
    BY SeqConcat
  <2>2. Len(u) = 4 /\ Len(w) = 4
    BY <1>2, <1>3
  <2> QED
    BY <2>1, <2>2
<1>5. PICK x \in Seq(S) : x = ExtendedFlags /\ x = u \o w
  BY <1>2, <1>3, <1>4 DEF ExtendedFlags
<1>6. Len(x) = 8 /\ \A i \in 1..4 : x[i] = ConfFlags[i] /\ x[4 + i] = more[i]
  BY <1>2, <1>3, <1>4, <1>5
<1>7. /\ x[1] = "RdProt" /\ x[2] = "Original" /\ x[3] = "Secret" /\ x[4] = "LetterBox"
      /\ x[5] = "AllowAnonymous" /\ x[6] = "ForbidSecret"
      /\ x[7] = "Reserved2" /\ x[8] = "Reserved3"
  BY <1>6 DEF ConfFlags
<1>8. \A i \in 1..6 : x[i] \notin {"Reserved2", "Reserved3"}
  BY <1>7
<1>9. DOMAIN x = 1..8
  <2>1. PICK n : n = Len(x)
    OBVIOUS
  <2>2. DOMAIN x = 1..n
    BY <2>1
  <2> QED
    BY <1>6, <2>1, <2>2
<1>10. Len(SubSeq(x, 1, 6)) = 6 /\ \A i \in 1..6 : SubSeq(x, 1, 6)[i] = x[i]
  BY <1>6
<1> QED
  BY <1>5, <1>6, <1>7, <1>8, <1>9, <1>10

LEMMA ConfTypeField ==
  ASSUME NEW s \in Texts, NEW arg, NEW p, NEW q, Stands("conftype", arg, s, p, q)
  PROVE  Reads("conftype", arg, s, p, q)
<1>1. FieldAt("conftype", s, p) = ConfTypeAt(s, p)
  BY DEF FieldAt, Lookups
<1>2. arg \in ConfTypes
  BY DEF Stands, Typed, Lookups
<1>3. p \in Nat /\ q \in Nat /\ Ends(s, q)
  BY DEF Stands
<1>4. CASE arg.extended = FALSE
  <2>1. PICK flags \in FlagsOf(ConfFlags) : arg = [extended |-> FALSE, flags |-> flags]
    BY <1>2, <1>4 DEF ConfTypes
  <2>2. PICK n \in Nat \ {0} : n = 4
    OBVIOUS
  <2>3. Field("conftype", arg) = BitsOf(flags, ConfFlags, n)
    BY <2>1, <2>2 DEF Field, ConfBitField, Lookups
  <2>4. BitText(BitsOf(flags, ConfFlags, n), n)
    BY BitsOfText
  <2>5. Holds(s, p, BitsOf(flags, ConfFlags, n)) /\ q = p + n
    BY <2>3, <2>4 DEF Stands, BitText
  <2>6. SkipOver(s, p, DigitChars) = q
    BY <1>3, <2>4, <2>5, BitsEnd
  <2>7. q # p + 8
    BY <1>3, <2>2, <2>5
  <2>8. BitsAt(s, p, ConfFlags, n) = Value(flags, q + 1)
    <3>1. Len(ConfFlags) \in Nat /\ Len(ConfFlags) <= n /\ DOMAIN ConfFlags = 1..Len(ConfFlags)
      BY <2>2 DEF ConfFlags
    <3> QED
      BY <1>3, <2>5, <3>1, FlagsRead
  <2>9. ConfTypeAt(s, p) = Value([extended |-> FALSE, flags |-> flags], q + 1)
    <3>1. (SkipOver(s, p, DigitChars) = p + 8) = FALSE
      BY <2>6, <2>7
    <3>2. BitsAt(s, p, ConfFlags, 4).v = flags /\ BitsAt(s, p, ConfFlags, 4).next = q + 1
      BY <2>2, <2>8, ValueParts
    <3> QED
      BY <3>1, <3>2, Zenon DEF ConfTypeAt
  <2>10. Sayable("conftype", arg) = arg
    BY <1>4 DEF Sayable
  <2> QED
    BY <1>1, <2>1, <2>9, <2>10, ValueParts DEF Reads
<1>5. CASE arg.extended = TRUE
  <2>1. PICK flags \in FlagsOf(ExtendedFlags) : arg = [extended |-> TRUE, flags |-> flags]
    BY <1>2, <1>5 DEF ConfTypes
  <2>2. PICK n \in Nat \ {0} : n = 8
    OBVIOUS
  <2>3. PICK b : b = BitsOf(flags, SubSeq(ExtendedFlags, 1, 6), n)
    OBVIOUS
  <2>4. Field("conftype", arg) = b
    BY <2>1, <2>2, <2>3 DEF Field, ExtendedBitField, Lookups
  <2>5. BitText(b, n) /\ \A i \in 1..n : b[i] = "1" <=> i <= 6 /\ ExtendedFlags[i] \in flags
    <3>1. BitText(b, n) /\ \A i \in 1..n : b[i] = "1" <=>
            /\ i <= Len(SubSeq(ExtendedFlags, 1, 6))
            /\ SubSeq(ExtendedFlags, 1, 6)[i] \in flags
      <4>1. PICK list : list = SubSeq(ExtendedFlags, 1, 6)
        OBVIOUS
      <4>2. b = BitsOf(flags, list, n)
        BY <2>3, <4>1
      <4>3. BitText(b, n) /\ \A i \in 1..n : b[i] = "1" <=> i <= Len(list) /\ list[i] \in flags
        BY <4>2, BitsOfText
      <4> QED
        BY <4>1, <4>3
    <3> QED
      BY <3>1, ExtendedList
  <2>6. Holds(s, p, b) /\ q = p + n
    BY <2>4, <2>5 DEF Stands, BitText
  <2>7. SkipOver(s, p, DigitChars) = q
    BY <1>3, <2>5, <2>6, BitsEnd
  <2>8. Marked(ExtendedFlags, b) = flags \ {"Reserved2", "Reserved3"}
    <3>1. \A f \in flags : \E i \in 1..8 : ExtendedFlags[i] = f
      BY ExtendedList DEF FlagsOf
    <3>2. \A i \in 1..8 : b[i] = "1" <=>
            ExtendedFlags[i] \in flags \ {"Reserved2", "Reserved3"}
      BY <2>2, <2>5, ExtendedList
    <3>3. PICK D, x : D = 1..8 /\ x = flags \ {"Reserved2", "Reserved3"}
      OBVIOUS
    <3>4. DOMAIN ExtendedFlags = D /\ \A i \in D : b[i] = "1" <=> ExtendedFlags[i] \in x
      BY <3>2, <3>3, ExtendedList
    <3>5. \A f \in x : \E i \in D : ExtendedFlags[i] = f
      BY <3>1, <3>3
    <3>6. Marked(ExtendedFlags, b) = x
      BY <3>4, <3>5, Zenon DEF Marked
    <3> QED
      BY <3>3, <3>6
  <2>9. BitsAt(s, p, ExtendedFlags, n) = Value(flags \ {"Reserved2", "Reserved3"}, q + 1)
    <3>1. DOMAIN ExtendedFlags \subseteq 1..n
      BY <2>2, ExtendedList
    <3> QED
      BY <1>3, <2>5, <2>6, <2>8, <3>1, BitsRead
  <2>10. ConfTypeAt(s, p)
           = Value([extended |-> TRUE, flags |-> flags \ {"Reserved2", "Reserved3"}], q + 1)
    <3>1. (SkipOver(s, p, DigitChars) = p + 8) = TRUE
      BY <2>2, <2>6, <2>7
    <3>2. /\ BitsAt(s, p, ExtendedFlags, 8).v = flags \ {"Reserved2", "Reserved3"}
          /\ BitsAt(s, p, ExtendedFlags, 8).next = q + 1
      BY <2>2, <2>9, ValueParts
    <3> QED
      BY <3>1, <3>2, Zenon DEF ConfTypeAt
  <2>11. Sayable("conftype", arg)
           = [extended |-> TRUE, flags |-> flags \ {"Reserved2", "Reserved3"}]
    BY <2>1 DEF Sayable
  <2>12. FieldAt("conftype", s, p) = Value(Sayable("conftype", arg), q + 1)
    BY <1>1, <2>10, <2>11, Zenon
  <2> QED
    BY <2>12, ValueParts DEF Reads
<1> QED
  BY <1>2, <1>4, <1>5 DEF ConfTypes

\* A list with two words before it and one after it.
LEMMA ListWords ==
  ASSUME NEW S, NEW a \in S, NEW b \in S, NEW words \in Seq(S), NEW c \in S,
         NEW n \in Nat, n = Len(words)
  PROVE  LET all == <<a, b>> \o words \o <<c>>
         IN  /\ all \in Seq(S) /\ Len(all) = n + 3 /\ all[1] = a /\ all[2] = b
             /\ \A i \in 1..n : all[i + 2] = words[i]
             /\ all[n + 3] = c
<1>1. PICK u \in Seq(S) : u = <<a, b>> /\ Len(u) = 2 /\ u[1] = a /\ u[2] = b
  <2>1. <<a, b>> \in Seq(S) /\ Len(<<a, b>>) = 2
    OBVIOUS
  <2>2. <<a, b>>[1] = a /\ <<a, b>>[2] = b
    OBVIOUS
  <2> QED
    BY <2>1, <2>2, Zenon
<1>2. PICK v : v = u \o words
  OBVIOUS
<1>3. /\ v \in Seq(S) /\ Len(v) = n + 2 /\ v[1] = a /\ v[2] = b
      /\ \A i \in 1..n : v[i + 2] = words[i]
  <2>1. /\ v \in Seq(S) /\ Len(v) = Len(u) + Len(words)
        /\ \A i \in 1..Len(u) : v[i] = u[i]
        /\ \A i \in 1..Len(words) : v[Len(u) + i] = words[i]
    BY <1>2, SeqConcat
  <2>2. Len(v) = n + 2 /\ v[1] = a /\ v[2] = b
    BY <1>1, <2>1
  <2>3. ASSUME NEW i \in 1..n PROVE v[i + 2] = words[i]
    <3>1. v[2 + i] = words[i] /\ i + 2 = 2 + i
      BY <1>1, <2>1
    <3> QED
      BY <3>1
  <2> QED
    BY <2>1, <2>2, <2>3
<1>4. PICK w \in Seq(S) : w = <<c>> /\ Len(w) = 1 /\ w[1] = c
  <2>1. <<c>> \in Seq(S) /\ Len(<<c>>) = 1
    OBVIOUS
  <2>2. <<c>>[1] = c
    OBVIOUS
  <2> QED
    BY <2>1, <2>2, Zenon
<1>5. PICK all : all = v \o w
  OBVIOUS
<1>6. /\ all \in Seq(S) /\ Len(all) = n + 3 /\ \A i \in 1..(n + 2) : all[i] = v[i]
      /\ all[n + 3] = c
  <2>1. /\ all \in Seq(S) /\ Len(all) = Len(v) + Len(w)
        /\ \A i \in 1..Len(v) : all[i] = v[i]
        /\ \A i \in 1..Len(w) : all[Len(v) + i] = w[i]
    <3>1. v \in Seq(S)
      BY <1>3
    <3>2. /\ v \o w \in Seq(S) /\ Len(v \o w) = Len(v) + Len(w)
          /\ \A i \in 1..Len(v) : (v \o w)[i] = v[i]
          /\ \A i \in 1..Len(w) : (v \o w)[Len(v) + i] = w[i]
      BY <3>1, SeqConcat
    <3> QED
      BY <1>5, <3>2, Zenon
  <2>2. 1 \in 1..Len(w) /\ Len(v) + 1 = n + 3
    BY <1>3, <1>4
  <2>3. all[Len(v) + 1] = c
    BY <1>4, <2>1, <2>2
  <2> QED
    BY <1>3, <1>4, <2>1, <2>2, <2>3
<1>7. \A i \in 1..n : i + 2 \in 1..(n + 2)
  OBVIOUS
<1>8. 1 \in 1..(n + 2) /\ 2 \in 1..(n + 2)
  OBVIOUS
<1>9. /\ all \in Seq(S) /\ Len(all) = n + 3 /\ all[1] = a /\ all[2] = b
      /\ \A i \in 1..n : all[i + 2] = words[i]
      /\ all[n + 3] = c
  BY <1>3, <1>6, <1>7, <1>8
<1>10. all = <<a, b>> \o words \o <<c>>
  BY <1>1, <1>2, <1>4, <1>5
<1> QED
  BY <1>9, <1>10, Zenon

LEMMA ListField ==
  ASSUME NEW s \in Texts, NEW arg, NEW p, NEW q, Stands("list", arg, s, p, q)
  PROVE  Reads("list", arg, s, p, q)
<1> DEFINE words == [i \in DOMAIN arg |-> Decimal[arg[i]]]
<1>1. arg \in Seq(UInt32) /\ Len(arg) < Word
  BY DEF Stands, Typed, Lookups
<1>2. PICK n \in Nat : n = Len(arg)
  BY <1>1
<1>3. n \in UInt32 /\ \A i \in 1..n : arg[i] \in UInt32 /\ arg[i] \in Nat /\ arg[i] < Word
  BY <1>1, <1>2, WordSize DEF UInt32
<1>4. words \in Seq(Texts) /\ n = Len(words) /\ \A i \in 1..n : words[i] = Decimal[arg[i]]
  <2>1. DOMAIN arg = 1..n
    BY <1>1, <1>2
  <2>2. \A i \in 1..n : Decimal[arg[i]] \in Texts
    BY <1>3, DecimalInTexts
  <2> QED
    BY <2>1, <2>2
<1>5. PICK open \in Chars, close \in Chars : open = "{" /\ close = "}"
  BY MoreChars, Zenon
<1>6. PICK all : all = <<Decimal[Len(arg)], <<open>> >> \o words \o << <<close>> >>
  OBVIOUS
<1>7. Field("list", arg) = Spaced(all)
  <2>1. Field("list", arg) = ArrayOf(arg)
    BY DEF Field, Lookups
  <2>2. ArrayOf(arg) = Spaced(all)
    BY <1>5, <1>6, Zenon DEF ArrayOf
  <2> QED
    BY <2>1, <2>2
<1> HIDE DEF words
<1>8. <<open>> \in Texts /\ <<close>> \in Texts /\ Len(<<open>>) = 1 /\ Len(<<close>>) = 1
      /\ Decimal[n] \in Texts
  BY DecimalInTexts DEF Texts
<1>9. /\ all \in Seq(Texts) /\ Len(all) = n + 3 /\ all[1] = Decimal[n] /\ all[2] = <<open>>
      /\ \A i \in 1..n : all[i + 2] = Decimal[arg[i]]
      /\ all[n + 3] = <<close>>
  <2>1. all = <<Decimal[n], <<open>> >> \o words \o << <<close>> >>
    BY <1>2, <1>6, Zenon
  <2>2. /\ all \in Seq(Texts) /\ Len(all) = n + 3 /\ all[1] = Decimal[n] /\ all[2] = <<open>>
        /\ \A i \in 1..n : all[i + 2] = words[i]
        /\ all[n + 3] = <<close>>
    BY <1>4, <1>8, <2>1, ListWords
  <2> QED
    BY <1>4, <2>2
<1>10. PICK pos : /\ WordsAt(s, all, pos) /\ pos[1] = p /\ pos[n + 4] = q + 1
  <2>1. Len(all) > 0 /\ Holds(s, p, Spaced(all)) /\ p \in Nat /\ q = p + Len(Spaced(all))
    BY <1>7, <1>9 DEF Stands
  <2>2. \E pos : /\ WordsAt(s, all, pos) /\ pos[1] = p
                 /\ pos[Len(all) + 1] = p + Len(Spaced(all)) + 1
    BY <1>9, <2>1, SpacedWords
  <2>3. Len(all) + 1 = n + 4
    BY <1>9
  <2> QED
    BY <2>1, <2>2, <2>3
<1>11. pos \in [1..(n + 4) -> Nat]
  <2>1. Len(all) + 1 = n + 4
    BY <1>9
  <2> QED
    BY <1>10, <2>1, Zenon DEF WordsAt
<1>12. \A i \in 1..(n + 3) :
         /\ Holds(s, pos[i], all[i]) /\ pos[i + 1] = pos[i] + Len(all[i]) + 1
         /\ i < n + 3 => At(s, pos[i + 1] - 1, {" "})
  BY <1>9, <1>10, Zenon DEF WordsAt
<1>13. \A i \in 1..(n + 3) : i < n + 3 => Ends(s, pos[i + 1] - 1)
  BY <1>12, Zenon DEF At, Ends
<1>14. ReadUInt32(s, p) = Value(n, pos[2])
  <2>1. 1 \in 1..(n + 3) /\ 1 < n + 3 /\ 1 + 1 = 2 /\ 2 \in 1..(n + 4)
    OBVIOUS
  <2>2. /\ Holds(s, p, Decimal[n]) /\ pos[2] = p + Len(Decimal[n]) + 1
        /\ Ends(s, pos[2] - 1) /\ pos[2] \in Nat
    BY <1>9, <1>10, <1>11, <1>12, <1>13, <2>1
  <2>3. PICK e : e = p + Len(Decimal[n])
    OBVIOUS
  <2>4. p \in Nat /\ Len(Decimal[n]) \in Nat
    BY DecimalInTexts DEF Stands
  <2>5. e \in Nat /\ pos[2] - 1 = e /\ pos[2] = e + 1
    BY <2>2, <2>3, <2>4
  <2>6. ReadUInt32(s, p) = Value(n, e + 1)
    BY <1>3, <2>2, <2>3, <2>4, <2>5, NumberReads
  <2> QED
    BY <2>5, <2>6
<1>15. pos[3] = pos[2] + 2 /\ pos[2] \in DOMAIN s /\ s[pos[2]] = open
  <2>1. 2 \in 1..(n + 3) /\ 2 + 1 = 3 /\ 2 \in 1..(n + 4)
    OBVIOUS
  <2>2. Holds(s, pos[2], <<open>>) /\ pos[3] = pos[2] + 1 + 1 /\ pos[2] \in Nat
    BY <1>8, <1>9, <1>11, <1>12, <2>1
  <2>3. pos[2] \in DOMAIN s /\ s[pos[2]] = open
    BY <2>2, HoldsOne
  <2> QED
    BY <2>2, <2>3
<1> DEFINE shifted == [i \in 1..(n + 1) |-> pos[i + 2]]
<1>16. NumbersAt(s, arg, n, shifted)
  <2>1. ASSUME NEW i \in 1..n
        PROVE  /\ arg[i] \in Nat /\ arg[i] < Word
               /\ Holds(s, shifted[i], Decimal[arg[i]])
               /\ shifted[i + 1] = shifted[i] + Len(Decimal[arg[i]]) + 1
               /\ Ends(s, shifted[i + 1] - 1)
    <3>1. PICK j \in 1..(n + 3) : j = i + 2 /\ j < n + 3 /\ j + 1 = i + 1 + 2
      OBVIOUS
    <3>2. i \in 1..(n + 1) /\ i + 1 \in 1..(n + 1)
      OBVIOUS
    <3>3. shifted[i] = pos[j] /\ shifted[i + 1] = pos[j + 1]
      BY <3>1, <3>2
    <3>4. all[j] = Decimal[arg[i]]
      BY <1>9, <3>1
    <3> HIDE DEF shifted
    <3>5. Holds(s, pos[j], all[j]) /\ pos[j + 1] = pos[j] + Len(all[j]) + 1
      BY <1>12
    <3>6. Ends(s, pos[j + 1] - 1)
      BY <1>13, <3>1
    <3> QED
      BY <1>3, <3>3, <3>4, <3>5, <3>6
  <2>2. shifted \in [1..(n + 1) -> Nat]
    <3>1. \A i \in 1..(n + 1) : i + 2 \in 1..(n + 4)
      OBVIOUS
    <3> QED
      BY <1>11, <3>1
  <2> HIDE DEF shifted
  <2> QED
    BY <2>1, <2>2, Zenon DEF NumbersAt
<1>17. shifted[1] = pos[3] /\ shifted[n + 1] = pos[n + 3]
  <2>1. 1 \in 1..(n + 1) /\ 1 + 2 = 3 /\ n + 1 \in 1..(n + 1) /\ n + 1 + 2 = n + 3
    OBVIOUS
  <2> QED
    BY <2>1
<1> HIDE DEF shifted
<1>18. Numbered(s, pos[3], n) = Value(arg, pos[n + 3])
  <2>1. Numbered(s, shifted[1], n) = Value(First(arg, n), shifted[n + 1])
    BY <1>16, NumberedReads
  <2>2. First(arg, n) = arg
    BY <1>1, <1>2 DEF First
  <2> QED
    BY <1>17, <2>1, <2>2
<1>19. pos[n + 3] + 2 = q + 1
  <2>1. n + 3 \in 1..(n + 3) /\ n + 3 + 1 = n + 4 /\ n + 3 \in 1..(n + 4)
    OBVIOUS
  <2>2. pos[n + 4] = pos[n + 3] + 1 + 1 /\ pos[n + 3] \in Nat
    BY <1>8, <1>9, <1>11, <1>12, <2>1
  <2> QED
    BY <1>10, <2>2
<1>20. ListAt(s, p) = Value(arg, q + 1)
  <2>1. ReadUInt32(s, p).v = n /\ ReadUInt32(s, p).next = pos[2]
    BY <1>14, ValueParts
  <2>2. Numbered(s, pos[2] + 2, n).v = arg /\ Numbered(s, pos[2] + 2, n).next = pos[n + 3]
    BY <1>15, <1>18, ValueParts
  <2>3. At(s, pos[2], {"{"})
    BY <1>5, <1>15, Zenon DEF At
  <2>4. ListAt(s, p) = Value(arg, pos[n + 3] + 2)
    BY <2>1, <2>2, <2>3, Zenon DEF ListAt
  <2> QED
    BY <1>19, <2>4
<1>21. FieldAt("list", s, p) = ListAt(s, p) /\ Sayable("list", arg) = arg
  BY DEF FieldAt, Sayable, Lookups
<1> QED
  BY <1>20, <1>21, ValueParts DEF Reads

\* A server reads every argument as the request wrote it, and the character after it.
LEMMA FieldReads ==
  ASSUME NEW s \in Texts, NEW kind \in Kinds, NEW arg, NEW p, NEW q, Stands(kind, arg, s, p, q)
  PROVE  Reads(kind, arg, s, p, q)
<1>1. \/ kind \in Lookups \cup {"number"}
      \/ kind \in {"flag", "text", "priv", "conftype", "list", "time", "info"}
  BY DEF Kinds
<1> QED
  BY <1>1, NumberField, FlagField, TextField, PrivField, ConfTypeField, ListField, TimeField, InfoField

-----------------------------------------------------------------------------
(* The requests there are. *)

\* The fields of a request come from its parameters.
WellFormed(r) ==
  /\ Len(r.fields) \in Nat /\ DOMAIN r.fields = 1..Len(r.fields)
  /\ Len(r.params) \in Nat /\ DOMAIN r.params = 1..Len(r.params)
  /\ \A i \in DOMAIN r.fields : r.fields[i] \in DOMAIN r.params
  /\ \A i \in DOMAIN r.params : r.params[i] \in Kinds

Operation(r) == WellFormed(r) /\ r.no \in 1..81

LEMMA NoParam ==
  ASSUME NEW no \in 1..81, NEW callback PROVE Operation(Asks(no, callback, <<>>))
  BY DEF Operation, WellFormed, Asks

LEMMA OneParam ==
  ASSUME NEW no \in 1..81, NEW callback, NEW a \in Kinds
  PROVE  Operation(Asks(no, callback, <<a>>))
  BY DEF Operation, WellFormed, Asks

LEMMA TwoParams ==
  ASSUME NEW no \in 1..81, NEW callback, NEW a \in Kinds, NEW b \in Kinds
  PROVE  /\ Operation(Asks(no, callback, <<a, b>>))
         /\ Operation(AsksIn(no, callback, <<a, b>>, <<2, 1>>))
         /\ Operation(AsksIn(no, callback, <<a, b>>, <<1, 1>>))
<1>1. Operation(Asks(no, callback, <<a, b>>))
  BY DEF Operation, WellFormed, Asks
<1>2. Operation(AsksIn(no, callback, <<a, b>>, <<2, 1>>))
  BY DEF Operation, WellFormed, AsksIn
<1>3. Operation(AsksIn(no, callback, <<a, b>>, <<1, 1>>))
  BY DEF Operation, WellFormed, AsksIn
<1> QED
  BY <1>1, <1>2, <1>3

LEMMA ThreeParams ==
  ASSUME NEW no \in 1..81, NEW callback, NEW a \in Kinds, NEW b \in Kinds, NEW c \in Kinds
  PROVE  /\ Operation(Asks(no, callback, <<a, b, c>>))
         /\ Operation(AsksIn(no, callback, <<a, b, c>>, <<1, 3, 2>>))
<1>1. Operation(Asks(no, callback, <<a, b, c>>))
  BY DEF Operation, WellFormed, Asks
<1>2. Operation(AsksIn(no, callback, <<a, b, c>>, <<1, 3, 2>>))
  BY DEF Operation, WellFormed, AsksIn
<1> QED
  BY <1>1, <1>2

LEMMA AllOperations == \A r \in Requests : Operation(r)
<1>1. /\ "person" \in Kinds /\ "conf" \in Kinds /\ "number" \in Kinds /\ "flag" \in Kinds
      /\ "text" \in Kinds /\ "priv" \in Kinds /\ "conftype" \in Kinds /\ "list" \in Kinds
      /\ "time" \in Kinds /\ "info" \in Kinds
  BY DEF Kinds, Lookups
<1>2. \A r \in Requests1to19 : Operation(r)
  <2>1. /\ 1 \in 1..81 /\ 2 \in 1..81 /\ 3 \in 1..81 /\ 4 \in 1..81 /\ 7 \in 1..81
        /\ 8 \in 1..81 /\ 11 \in 1..81 /\ 15 \in 1..81 /\ 16 \in 1..81 /\ 17 \in 1..81
        /\ 18 \in 1..81 /\ 19 \in 1..81
    OBVIOUS
  <2>2. /\ Operation(Does(1, <<>>)) /\ Operation(Does(2, <<"conf">>))
        /\ Operation(Does(3, <<"conf", "text">>)) /\ Operation(Does(4, <<"text">>))
        /\ Operation(Does(7, <<"number", "priv">>))
        /\ Operation(Does(8, <<"number", "text", "text">>)) /\ Operation(Does(11, <<"conf">>))
        /\ Operation(AsksIn(15, "generic", <<"person", "conf">>, <<2, 1>>))
        /\ Operation(Does(16, <<"conf", "number">>))
        /\ Operation(Does(17, <<"conf", "number">>))
        /\ Operation(AsksIn(18, "generic", <<"conf", "conf">>, <<1, 1>>))
        /\ Operation(AsksIn(19, "generic", <<"conf", "conf">>, <<1, 1>>))
    BY <1>1, <2>1, NoParam, OneParam, TwoParams, ThreeParams, Zenon DEF Does
  <2> QED
    BY <2>2, Zenon DEF Requests1to19
<1>3. \A r \in Requests20to35 : Operation(r)
  <2>1. /\ 20 \in 1..81 /\ 21 \in 1..81 /\ 22 \in 1..81 /\ 23 \in 1..81 /\ 25 \in 1..81
        /\ 27 \in 1..81 /\ 29 \in 1..81 /\ 30 \in 1..81 /\ 31 \in 1..81 /\ 32 \in 1..81
        /\ 33 \in 1..81 /\ 35 \in 1..81
    OBVIOUS
  <2>2. /\ Operation(AsksIn(20, "generic", <<"conf", "conf">>, <<1, 1>>))
        /\ Operation(Does(21, <<"conf", "conftype">>))
        /\ Operation(Does(22, <<"conf", "number">>)) /\ Operation(Asks(23, "marks", <<>>))
        /\ Operation(Asks(25, "text", <<"number", "number", "number">>))
        /\ Operation(Does(27, <<"conf", "list">>)) /\ Operation(Does(29, <<"number">>))
        /\ Operation(Does(30, <<"number", "conf", "number">>))
        /\ Operation(Does(31, <<"number", "conf">>))
        /\ Operation(Does(32, <<"number", "number">>))
        /\ Operation(Does(33, <<"number", "number">>)) /\ Operation(Asks(35, "time", <<>>))
    BY <1>1, <2>1, NoParam, OneParam, TwoParams, ThreeParams, Zenon DEF Does
  <2> QED
    BY <2>2, Zenon DEF Requests20to35
<1>4. \A r \in Requests37to58 : Operation(r)
  <2>1. /\ 37 \in 1..81 /\ 38 \in 1..81 /\ 40 \in 1..81 /\ 41 \in 1..81 /\ 42 \in 1..81
        /\ 43 \in 1..81 /\ 44 \in 1..81 /\ 49 \in 1..81 /\ 52 \in 1..81 /\ 53 \in 1..81
        /\ 55 \in 1..81 /\ 56 \in 1..81 /\ 57 \in 1..81 /\ 58 \in 1..81
    OBVIOUS
  <2>2. /\ Operation(Does(37, <<"number", "number">>))
        /\ Operation(Does(38, <<"number", "number">>))
        /\ Operation(Does(40, <<"conf", "number">>)) /\ Operation(Does(41, <<"number">>))
        /\ Operation(Does(42, <<"number">>)) /\ Operation(Does(43, <<>>))
        /\ Operation(Does(44, <<"number">>)) /\ Operation(Asks(49, "person", <<"number">>))
        /\ Operation(Asks(52, "unread", <<"number">>))
        /\ Operation(Does(53, <<"number", "text">>)) /\ Operation(Does(55, <<"number">>))
        /\ Operation(Asks(56, "number", <<>>)) /\ Operation(Does(57, <<"number", "number">>))
        /\ Operation(Asks(58, "number", <<"time">>))
    BY <1>1, <2>1, NoParam, OneParam, TwoParams, ThreeParams, Zenon DEF Does
  <2> QED
    BY <2>2, Zenon DEF Requests37to58
<1>5. \A r \in Requests60to76 : Operation(r)
  <2>1. /\ 60 \in 1..81 /\ 61 \in 1..81 /\ 62 \in 1..81 /\ 69 \in 1..81 /\ 70 \in 1..81
        /\ 71 \in 1..81 /\ 72 \in 1..81 /\ 73 \in 1..81 /\ 74 \in 1..81 /\ 75 \in 1..81
        /\ 76 \in 1..81
    OBVIOUS
  <2>2. /\ Operation(Asks(60, "number", <<"number">>))
        /\ Operation(Asks(61, "number", <<"number">>))
        /\ Operation(Does(62, <<"person", "text", "flag">>))
        /\ Operation(Does(69, <<"text", "text">>)) /\ Operation(Asks(70, "text", <<"number">>))
        /\ Operation(Asks(71, "text", <<"number">>))
        /\ Operation(Does(72, <<"number", "number">>)) /\ Operation(Does(73, <<"number">>))
        /\ Operation(Asks(74, "zconf", <<"text", "flag", "flag">>))
        /\ Operation(Asks(75, "version", <<>>))
        /\ Operation(AsksIn(76, "zconf", <<"text", "flag", "flag">>, <<1, 3, 2>>))
    BY <1>1, <2>1, NoParam, OneParam, TwoParams, ThreeParams, Zenon DEF Does
  <2> QED
    BY <2>2, Zenon DEF Requests60to76
<1>6. \A r \in Requests77to81 : Operation(r)
  <2>1. /\ 77 \in 1..81 /\ 78 \in 1..81 /\ 79 \in 1..81 /\ 80 \in 1..81 /\ 81 \in 1..81
    OBVIOUS
  <2>2. /\ Operation(Does(77, <<"number", "number">>))
        /\ Operation(Asks(78, "uconf", <<"number">>)) /\ Operation(Does(79, <<"info">>))
        /\ Operation(Does(80, <<"list">>)) /\ Operation(Asks(81, "async", <<>>))
    BY <1>1, <2>1, NoParam, OneParam, TwoParams, ThreeParams, Zenon DEF Does
  <2> QED
    BY <2>2, Zenon DEF Requests77to81
<1> QED
  BY <1>2, <1>3, <1>4, <1>5, <1>6 DEF Requests

LEMMA RequestTable == \A n \in DOMAIN Request : WellFormed(Request[n]) /\ n \in 1..81
<1> SUFFICES ASSUME NEW n \in DOMAIN Request PROVE WellFormed(Request[n]) /\ n \in 1..81
  OBVIOUS
<1>1. n \in {r.no : r \in Requests}
  BY DEF Request
<1>2. PICK r \in Requests : r.no = n
  BY <1>1
<1>3. Request[n] = CHOOSE q \in Requests : q.no = n
  BY <1>1 DEF Request
<1>4. Request[n] \in Requests
  BY <1>2, <1>3
<1> QED
  BY <1>2, <1>4, AllOperations DEF Operation

\* Functions from 1..i whose values come from given sets.
Choices(sets, U, i) == {g \in [1..i -> U] : \A j \in 1..i : g[j] \in sets[j]}

LEMMA NoChoice == ASSUME NEW sets, NEW U PROVE Choices(sets, U, 0) = {<<>>}
<1>1. ASSUME NEW g \in Choices(sets, U, 0) PROVE g = <<>>
  BY DEF Choices
<1>2. <<>> \in Choices(sets, U, 0)
  BY DEF Choices
<1> QED
  BY <1>1, <1>2

LEMMA SeqIsFunction ==
  ASSUME NEW S, NEW a \in Seq(S), NEW n, n = Len(a) PROVE a \in [1..n -> S]
  OBVIOUS

\* A function from 1..k as a sequence, with x after it.
Appended(h, g, x, k, U) ==
  h \in [1..(k + 1) -> U] /\ (\A j \in 1..k : h[j] = g[j]) /\ h[k + 1] = x

LEMMA AppendedAlways ==
  \A U, x, k, g : k \in Nat /\ g \in [1..k -> U] /\ x \in U => Appended(Append(g, x), g, x, k, U)
<1> SUFFICES ASSUME NEW U, NEW x \in U, NEW k \in Nat, NEW g \in [1..k -> U]
             PROVE  Appended(Append(g, x), g, x, k, U)
  OBVIOUS
<1>1. g \in Seq(U) /\ Len(g) = k
  OBVIOUS
<1>2. PICK h \in Seq(U) : h = g
  BY <1>1
<1>3. /\ Append(h, x) \in Seq(U) /\ Len(Append(h, x)) = k + 1
      /\ (\A j \in 1..k : Append(h, x)[j] = h[j]) /\ Append(h, x)[k + 1] = x
  BY <1>1, <1>2
<1>4. Append(h, x) \in [1..(k + 1) -> U]
  <2>1. Append(h, x) \in Seq(U) /\ k + 1 = Len(Append(h, x))
    BY <1>3
  <2> QED
    BY <2>1, SeqIsFunction
<1> QED
  BY <1>2, <1>3, <1>4, Zenon DEF Appended

LEMMA MoreChoices ==
  ASSUME NEW sets, NEW U, NEW n \in Nat, NEW i \in 1..n, \A j \in 1..n : sets[j] \subseteq U
  PROVE  Longer(Choices(sets, U, i - 1), sets[i]) = Choices(sets, U, i)
<1>1. PICK k \in Nat : k = i - 1 /\ k + 1 = i
  <2>1. i - 1 \in Nat /\ (i - 1) + 1 = i
    OBVIOUS
  <2> QED
    BY <2>1
<1>2. \A j \in 1..i : j \in 1..k \/ j = i
  BY <1>1
<1>3. \A j \in 1..k : j \in 1..i
  BY <1>1
<1>4. ASSUME NEW g \in [1..k -> U], NEW x \in U, \A j \in 1..k : g[j] \in sets[j], x \in sets[i]
      PROVE  Append(g, x) \in Choices(sets, U, i)
  <2>1. Appended(Append(g, x), g, x, k, U)
    BY AppendedAlways
  <2>2. Append(g, x) \in [1..i -> U] /\ Append(g, x)[i] = x /\ \A j \in 1..k : Append(g, x)[j] = g[j]
    BY <1>1, <2>1, Zenon DEF Appended
  <2>3. \A j \in 1..i : Append(g, x)[j] \in sets[j]
    BY <1>2, <1>4, <2>2, Zenon
  <2> QED
    BY <2>2, <2>3, Zenon DEF Choices
<1>5. ASSUME NEW h \in Choices(sets, U, i)
      PROVE  \E g \in Choices(sets, U, k), x \in sets[i] : h = Append(g, x)
  <2>1. h \in [1..i -> U] /\ \A j \in 1..i : h[j] \in sets[j]
    BY DEF Choices
  <2>2. First(h, i) = Append(First(h, k), h[i])
    BY <1>1, FirstGrows
  <2>3. First(h, i) = h
    BY <2>1 DEF First
  <2>4. First(h, k) \in [1..k -> U] /\ \A j \in 1..k : First(h, k)[j] = h[j]
    BY <1>3, <2>1 DEF First
  <2>5. First(h, k) \in Choices(sets, U, k)
    BY <1>3, <2>1, <2>4, Zenon DEF Choices
  <2>6. h = Append(First(h, k), h[i]) /\ h[i] \in sets[i]
    <3>1. i \in 1..i
      OBVIOUS
    <3> QED
      BY <2>1, <2>2, <2>3, <3>1, Zenon
  <2> QED
    BY <2>5, <2>6, Zenon
<1>6. \A y : y \in Longer(Choices(sets, U, k), sets[i]) <=> y \in Choices(sets, U, i)
  <2>1. PICK X, A, Y : X = Choices(sets, U, k) /\ A = sets[i] /\ Y = Choices(sets, U, i)
    OBVIOUS
  <2>2. \A g \in X : \A x \in A : Append(g, x) \in Y
    <3>1. A \subseteq U
      BY <2>1
    <3>2. \A g \in X : g \in [1..k -> U] /\ \A j \in 1..k : g[j] \in sets[j]
      BY <2>1 DEF Choices
    <3> QED
      BY <1>4, <2>1, <3>1, <3>2, Zenon
  <2>3. \A h \in Y : \E g \in X : \E x \in A : h = Append(g, x)
    BY <1>5, <2>1
  <2>4. \A y : y \in Longer(X, A) <=> \E g \in X : \E x \in A : y = Append(g, x)
    BY DEF Longer
  <2>5. \A y : y \in Longer(X, A) <=> y \in Y
    BY <2>2, <2>3, <2>4, ZenonT(30)
  <2> QED
    BY <2>1, <2>5
<1> QED
  BY <1>1, <1>6

\* The arguments of a request are of its parameters' kinds.
LEMMA ArgumentsTyped ==
  ASSUME NEW n \in DOMAIN Request, NEW args \in ArgumentsOf(n)
  PROVE  \A i \in DOMAIN Request[n].params : Typed(Request[n].params[i], args[i])
<1> DEFINE params == Request[n].params
           m == Len(params)
<1>1. WellFormed(Request[n])
  BY RequestTable
<1>2. m \in Nat /\ DOMAIN params = 1..m /\ \A i \in 1..m : params[i] \in Kinds
  BY <1>1 DEF WellFormed
<1> HIDE DEF params, m
<1>3. PICK sets : sets = [i \in 1..m |-> Arguments[params[i]]]
  OBVIOUS
<1>4. PICK U : U = UNION {sets[i] : i \in 1..m}
  OBVIOUS
<1>5. \A i \in 1..m : sets[i] \subseteq U
  BY <1>4
<1> DEFINE Body(g) ==
      [i \in 0..m |-> IF i = 0 THEN {<<>>}
                      ELSE Longer(g[i - 1], Arguments[params[i]])]
           f == [i \in 0..m |-> Choices(sets, U, i)]
           all == CHOOSE g : g = Body(g)
<1>6. \A i \in 1..m : i - 1 \in 0..m /\ i # 0 /\ i \in 0..m
  BY <1>2
<1>7. \A i \in 0..m : i = 0 \/ i \in 1..m
  BY <1>2
<1>8. ASSUME NEW i \in 0..m PROVE f[i] = Body(f)[i]
  <2>1. CASE i = 0
    BY <2>1, NoChoice
  <2>2. CASE i \in 1..m
    <3>1. f[i] = Choices(sets, U, i) /\ f[i - 1] = Choices(sets, U, i - 1)
      BY <1>6, <2>2
    <3> HIDE DEF f
    <3>2. Body(f)[i] = Longer(f[i - 1], Arguments[params[i]])
      BY <1>6, <2>2
    <3>3. sets[i] = Arguments[params[i]]
      BY <1>3, <2>2
    <3>4. Longer(Choices(sets, U, i - 1), sets[i]) = Choices(sets, U, i)
      BY <1>2, <1>5, <2>2, MoreChoices
    <3> HIDE DEF Body
    <3> QED
      BY <3>1, <3>2, <3>3, <3>4
  <2> QED
    BY <1>7, <2>1, <2>2
<1>9. f = Body(f)
  <2>1. f = [i \in 0..m |-> f[i]] /\ Body(f) = [i \in 0..m |-> Body(f)[i]]
    OBVIOUS
  <2> HIDE DEF f, Body
  <2> QED
    BY <1>8, <2>1, Zenon
<1>10. all = Body(all)
  <2> HIDE DEF Body
  <2> QED
    BY <1>9
<1>11. ArgumentsOf(n) = all[m]
  BY Zenon DEF ArgumentsOf, params, m
<1> HIDE DEF all
<1>12. \A i \in 0..m : all[i] = Body(all)[i]
  BY <1>10, Zenon
<1>13. \A i \in 0..m : all[i] = f[i]
  <2>1. ASSUME NEW i \in 1..m, all[i - 1] = f[i - 1] PROVE all[i] = f[i]
    <3>1. i \in 0..m /\ i # 0
      BY <1>6
    <3>2. Body(all)[i] = Body(f)[i]
      <4> HIDE DEF f
      <4> QED
        BY <2>1, <3>1
    <3> HIDE DEF Body, f
    <3> QED
      BY <1>8, <1>12, <3>1, <3>2
  <2>2. all[0] = f[0]
    <3>1. 0 \in 0..m
      BY <1>2
    <3>2. Body(all)[0] = Body(f)[0]
      BY <3>1
    <3> HIDE DEF Body, f
    <3> QED
      BY <1>8, <1>12, <3>1, <3>2
  <2>3. GoOnAlike(all, f, m)
    BY <1>2, <2>1, <2>2, Zenon DEF GoOnAlike
  <2> HIDE DEF f
  <2> QED
    BY <2>3, SameRecursion
<1>14. args \in Choices(sets, U, m)
  <2>1. m \in 0..m
    BY <1>2
  <2> QED
    BY <1>11, <1>13, <2>1
<1>15. ASSUME NEW i \in 1..m PROVE Typed(params[i], args[i])
  <2>1. args[i] \in Arguments[params[i]]
    BY <1>3, <1>14 DEF Choices
  <2> QED
    BY <1>2, <2>1, ArgumentsAssumption, Zenon
<1> QED
  BY <1>2, <1>15, Zenon DEF params, m

LEMMA NumbersText ==
  ASSUME NEW ns \in Seq(UInt32) PROVE Numbers(ns) \in Texts
<1> DEFINE words == [i \in DOMAIN ns |-> Decimal[ns[i]]]
<1>1. \A i \in DOMAIN ns : ns[i] \in Nat
  BY WireAssumption DEF UInt32
<1>2. \A i \in DOMAIN ns : Decimal[ns[i]] \in Texts
  BY <1>1, DecimalInTexts
<1>3. words \in Seq(Texts)
  BY <1>2
<1> HIDE DEF words
<1>4. Spaced(words) \in Texts
  BY <1>3, SpacedText
<1> QED
  BY <1>4, Zenon DEF Numbers, words

LEMMA ArrayText ==
  ASSUME NEW ns \in Seq(UInt32) PROVE ArrayOf(ns) \in Texts
<1> DEFINE words == [i \in DOMAIN ns |-> Decimal[ns[i]]]
<1>1. \A i \in DOMAIN ns : ns[i] \in Nat
  BY WireAssumption DEF UInt32
<1>2. \A i \in DOMAIN ns : Decimal[ns[i]] \in Texts
  BY <1>1, DecimalInTexts
<1>3. words \in Seq(Texts) /\ Len(words) \in Nat
  BY <1>2
<1> HIDE DEF words
<1>4. PICK open \in Chars, close \in Chars : open = "{" /\ close = "}"
  BY MoreChars, Zenon
<1>5. PICK all : all = <<Decimal[Len(ns)], <<open>> >> \o words \o << <<close>> >>
  OBVIOUS
<1>6. <<open>> \in Texts /\ <<close>> \in Texts /\ Decimal[Len(ns)] \in Texts
  BY DecimalInTexts DEF Texts
<1>7. all \in Seq(Texts)
  BY <1>3, <1>5, <1>6, ListWords
<1>8. Spaced(all) \in Texts
  BY <1>7, SpacedText
<1> QED
  BY <1>4, <1>5, <1>8, Zenon DEF ArrayOf, words

\* What a request writes for an argument is text.
LEMMA FieldInTexts ==
  ASSUME NEW kind \in Kinds, NEW arg, Typed(kind, arg) PROVE Field(kind, arg) \in Texts
<1>1. \/ kind \in Lookups \/ kind = "number" \/ kind = "flag" \/ kind = "text" \/ kind = "priv"
      \/ kind = "conftype" \/ kind = "list" \/ kind = "time" \/ kind = "info"
  BY DEF Kinds
<1>2. \A n \in UInt32 : Decimal[n] \in Texts
  <2>1. \A n \in UInt32 : n \in Nat
    BY WireAssumption DEF UInt32
  <2> QED
    BY <2>1, DecimalInTexts
<1>3. \A flags, list : \A n \in Nat : BitsOf(flags, list, n) \in Texts
  BY BitsOfText DEF BitText
<1>4. CASE kind \in Lookups
  <2>1. Field(kind, arg) = Decimal[NumberOf(arg)]
    BY <1>4 DEF Field, Lookups
  <2>2. NumberOf(arg) = 0
    BY DEF NumberOf, KnownNames
  <2> QED
    BY <2>1, <2>2, DecimalInTexts
<1>5. CASE kind = "number"
  <2>1. Field(kind, arg) = Decimal[arg] /\ arg \in UInt32
    BY <1>5 DEF Field, Typed, Lookups
  <2> QED
    BY <1>2, <2>1
<1>6. CASE kind = "flag"
  <2>1. PICK n \in {0, 1} : n = IF arg THEN 1 ELSE 0
    OBVIOUS
  <2>2. Field(kind, arg) = Decimal[n]
    BY <1>6, <2>1 DEF Field, Lookups
  <2> QED
    BY <2>2, DecimalInTexts
<1>7. CASE kind = "text"
  <2>1. Field(kind, arg) = Sprint(arg) /\ arg \in Seq(STRING)
    BY <1>7 DEF Field, Typed, Lookups
  <2>2. arg \in Texts
    BY <2>1, StringsAreTexts
  <2> QED
    BY <2>1, <2>2, SprintText
<1>8. CASE kind = "priv"
  <2>1. Field(kind, arg) = BitsOf(arg, PrivFlags, 16)
    BY <1>8 DEF Field, PrivRepr, Lookups
  <2> QED
    BY <1>3, <2>1
<1>9. CASE kind = "conftype"
  <2>1. \/ Field(kind, arg) = BitsOf(arg.flags, SubSeq(ExtendedFlags, 1, 6), 8)
        \/ Field(kind, arg) = BitsOf(arg.flags, ConfFlags, 4)
    <3>1. Field(kind, arg) = IF arg.extended THEN ExtendedBitField(arg.flags)
                                             ELSE ConfBitField(arg.flags)
      BY <1>9 DEF Field, Lookups
    <3> QED
      BY <3>1, Zenon DEF ExtendedBitField, ConfBitField
  <2>2. 8 \in Nat /\ 4 \in Nat
    OBVIOUS
  <2> QED
    BY <1>3, <2>1, <2>2, Zenon
<1>10. CASE kind = "list"
  <2>1. Field(kind, arg) = ArrayOf(arg) /\ arg \in Seq(UInt32)
    BY <1>10 DEF Field, Typed, Lookups
  <2> QED
    BY <2>1, ArrayText
<1>11. CASE kind = "time"
  <2>1. Field(kind, arg) = Numbers(TmOf(arg))
    BY <1>11 DEF Field, StringTime, TmOf, Lookups
  <2>2. TmOf(arg) \in Seq(UInt32)
    BY <1>11, TmNumbers
  <2> QED
    BY <2>1, <2>2, NumbersText
<1>12. CASE kind = "info"
  <2>1. Field(kind, arg) = Numbers(arg) /\ arg \in Seq(UInt32)
    BY <1>12 DEF Field, Typed, Lookups
  <2> QED
    BY <2>1, NumbersText
<1> QED
  BY <1>1, <1>4, <1>5, <1>6, <1>7, <1>8, <1>9, <1>10, <1>11, <1>12

-----------------------------------------------------------------------------
(* The line of a request. *)

KindOf(r, i) == r.params[r.fields[i]]
ArgOf(r, args, i) == args[r.fields[i]]

\* The fields of a request stand in s from pos[1], pos[2] and so on, with a character
\* after each.
FieldsStand(s, r, args, n, pos) ==
  /\ pos \in [1..(n + 1) -> Nat]
  /\ \A i \in 1..n : Stands(KindOf(r, i), ArgOf(r, args, i), s, pos[i], pos[i + 1] - 1)

\* The fields are read one after the other.
LEMMA FieldsRead ==
  ASSUME NEW s \in Texts, NEW r, WellFormed(r), NEW args, NEW pos,
         FieldsStand(s, r, args, Len(r.fields), pos)
  PROVE  /\ FieldsAt(r, s, pos[1]).next = pos[Len(r.fields) + 1]
         /\ \A i \in DOMAIN r.fields :
              KindOf(r, i) \notin Lookups =>
                FieldsAt(r, s, pos[1]).v[i] = Sayable(KindOf(r, i), ArgOf(r, args, i))
<1> DEFINE n == Len(r.fields)
           vs == [i \in 1..n |-> FieldAt(KindOf(r, i), s, pos[i]).v]
           Body(g) ==
             [i \in 0..n |-> IF i = 0 THEN Value(<<>>, pos[1])
                             ELSE LET before == g[i - 1]
                                      field == FieldAt(r.params[r.fields[i]], s, before.next)
                                  IN  Value(Append(before.v, field.v), field.next)]
           f == [i \in 0..n |-> Value(First(vs, i), pos[i + 1])]
           read == CHOOSE g : g = Body(g)
<1>1. n \in Nat /\ DOMAIN r.fields = 1..n /\ \A i \in 1..n : KindOf(r, i) \in Kinds
  BY DEF WellFormed, KindOf
<1>2. FieldsAt(r, s, pos[1]) = read[n]
  BY Zenon DEF FieldsAt
<1>3. FieldsStand(s, r, args, n, pos)
  OBVIOUS
<1> HIDE DEF n
<1>4. ASSUME NEW i \in 1..n
      PROVE  /\ FieldAt(KindOf(r, i), s, pos[i]).v = vs[i]
             /\ FieldAt(KindOf(r, i), s, pos[i]).next = pos[i + 1]
             /\ KindOf(r, i) \notin Lookups => vs[i] = Sayable(KindOf(r, i), ArgOf(r, args, i))
  <2>1. PICK p, q : p = pos[i] /\ q = pos[i + 1] - 1
    OBVIOUS
  <2>2. i + 1 \in 1..(n + 1)
    BY <1>1
  <2>3. pos[i + 1] \in Nat
    BY <1>3, <2>2 DEF FieldsStand
  <2>4. Stands(KindOf(r, i), ArgOf(r, args, i), s, p, q)
    BY <1>3, <2>1, Zenon DEF FieldsStand
  <2>5. Reads(KindOf(r, i), ArgOf(r, args, i), s, p, q)
    BY <1>1, <2>4, FieldReads
  <2>6. q + 1 = pos[i + 1]
    BY <2>1, <2>3
  <2>7. vs[i] = FieldAt(KindOf(r, i), s, pos[i]).v
    OBVIOUS
  <2> HIDE DEF vs
  <2> QED
    BY <2>1, <2>5, <2>6, <2>7, Zenon DEF Reads
<1> HIDE DEF vs
<1>5. \A i \in 1..n : i - 1 \in 0..n /\ i # 0 /\ (i - 1) + 1 = i /\ i \in 0..n
  BY <1>1
<1>6. \A i \in 0..n : i = 0 \/ i \in 1..n
  BY <1>1
<1>7. \A i \in 1..n : f[i - 1] = Value(First(vs, i - 1), pos[i])
  BY <1>5
<1>8. ASSUME NEW i \in 0..n PROVE f[i] = Body(f)[i]
  <2>1. CASE i = 0
    <3>1. First(vs, 0) = <<>>
      BY DEF First
    <3> QED
      BY <2>1, <3>1
  <2>2. CASE i \in 1..n
    <3>1. First(vs, i) = Append(First(vs, i - 1), vs[i])
      BY <1>1, <2>2, FirstGrows
    <3>2. f[i] = Value(First(vs, i), pos[i + 1])
      OBVIOUS
    <3>3. f[i - 1].v = First(vs, i - 1) /\ f[i - 1].next = pos[i]
      BY <1>7, <2>2, ValueParts
    <3> HIDE DEF f
    <3>4. PICK field : field = FieldAt(KindOf(r, i), s, f[i - 1].next)
      OBVIOUS
    <3>5. field.v = vs[i] /\ field.next = pos[i + 1]
      BY <1>4, <2>2, <3>3, <3>4
    <3>6. Body(f)[i] = Value(Append(f[i - 1].v, field.v), field.next)
      <4>1. field = FieldAt(r.params[r.fields[i]], s, f[i - 1].next)
        BY <3>4 DEF KindOf
      <4> QED
        BY <1>5, <2>2, <4>1
    <3> QED
      BY <3>1, <3>2, <3>3, <3>5, <3>6
  <2> QED
    BY <1>6, <2>1, <2>2
<1>9. f = Body(f)
  <2>1. f = [i \in 0..n |-> f[i]] /\ Body(f) = [i \in 0..n |-> Body(f)[i]]
    OBVIOUS
  <2> HIDE DEF f, Body
  <2> QED
    BY <1>8, <2>1, Zenon
<1>10. read = Body(read)
  <2> HIDE DEF Body
  <2> QED
    BY <1>9
<1> HIDE DEF read
<1>11. \A i \in 0..n : read[i] = Body(read)[i]
  BY <1>10, Zenon
<1>12. \A i \in 0..n : read[i] = f[i]
  <2>1. ASSUME NEW i \in 1..n, read[i - 1] = f[i - 1] PROVE read[i] = f[i]
    <3>1. i \in 0..n /\ i # 0
      BY <1>5
    <3>2. Body(read)[i] = Body(f)[i]
      <4> HIDE DEF f
      <4> QED
        BY <2>1, <3>1
    <3> HIDE DEF Body, f
    <3> QED
      BY <1>8, <1>11, <3>1, <3>2
  <2>2. read[0] = f[0]
    <3>1. 0 \in 0..n
      BY <1>1
    <3>2. Body(read)[0] = Body(f)[0]
      BY <3>1
    <3> HIDE DEF Body, f
    <3> QED
      BY <1>8, <1>11, <3>1, <3>2
  <2>3. GoOnAlike(read, f, n)
    BY <1>1, <2>1, <2>2, Zenon DEF GoOnAlike
  <2> HIDE DEF f
  <2> QED
    BY <2>3, SameRecursion
<1>13. FieldsAt(r, s, pos[1]) = Value(First(vs, n), pos[n + 1])
  <2>1. n \in 0..n
    BY <1>1
  <2> QED
    BY <1>2, <1>12, <2>1
<1>14. \A i \in 1..n : First(vs, n)[i] = vs[i]
  BY DEF First
<1>15. /\ FieldsAt(r, s, pos[1]).next = pos[n + 1]
       /\ \A i \in 1..n : FieldsAt(r, s, pos[1]).v[i] = vs[i]
  BY <1>13, <1>14, ValueParts
<1> QED
  BY <1>1, <1>4, <1>15, Zenon DEF n

\* Two words and more words after them.
LEMMA AfterTwo ==
  ASSUME NEW S, NEW a \in S, NEW b \in S, NEW words \in Seq(S), NEW n \in Nat, n = Len(words)
  PROVE  LET all == <<a, b>> \o words
         IN  /\ all \in Seq(S) /\ Len(all) = n + 2 /\ all[1] = a /\ all[2] = b
             /\ \A i \in 1..n : all[i + 2] = words[i]
<1>1. PICK u \in Seq(S) : u = <<a, b>> /\ Len(u) = 2 /\ u[1] = a /\ u[2] = b
  <2>1. <<a, b>> \in Seq(S) /\ Len(<<a, b>>) = 2
    OBVIOUS
  <2>2. <<a, b>>[1] = a /\ <<a, b>>[2] = b
    OBVIOUS
  <2> QED
    BY <2>1, <2>2, Zenon
<1>2. PICK v : v = u \o words
  OBVIOUS
<1>3. /\ v \in Seq(S) /\ Len(v) = Len(u) + Len(words)
      /\ \A i \in 1..Len(u) : v[i] = u[i]
      /\ \A i \in 1..Len(words) : v[Len(u) + i] = words[i]
  BY <1>2, SeqConcat
<1>4. Len(v) = n + 2 /\ v[1] = a /\ v[2] = b
  BY <1>1, <1>3
<1>5. ASSUME NEW i \in 1..n PROVE v[i + 2] = words[i]
  <2>1. v[2 + i] = words[i] /\ i + 2 = 2 + i
    BY <1>1, <1>3
  <2> QED
    BY <2>1
<1>6. /\ v \in Seq(S) /\ Len(v) = n + 2 /\ v[1] = a /\ v[2] = b
      /\ \A i \in 1..n : v[i + 2] = words[i]
  BY <1>3, <1>4, <1>5
<1>7. v = <<a, b>> \o words
  BY <1>1, <1>2
<1> QED
  BY <1>6, <1>7, Zenon

\* A number stands in s from p up to the character before next, where it ends.
NumberStands(s, n, p, next) ==
  /\ n \in UInt32 /\ p \in Nat /\ next \in Nat /\ Holds(s, p, Decimal[n])
  /\ next = p + Len(Decimal[n]) + 1 /\ Ends(s, next - 1)

LEMMA NumberStandsReads ==
  ASSUME NEW s \in Texts, NEW n, NEW p, NEW next, NumberStands(s, n, p, next)
  PROVE  ReadUInt32(s, p) = Value(n, next)
<1>1. n \in UInt32 /\ p \in Nat /\ next \in Nat /\ Holds(s, p, Decimal[n])
      /\ next = p + Len(Decimal[n]) + 1 /\ Ends(s, next - 1)
  BY DEF NumberStands
<1>2. n \in Nat
  BY <1>1, WireAssumption DEF UInt32
<1>3. Len(Decimal[n]) \in Nat
  BY <1>2, DecimalInTexts
<1>4. PICK q \in Nat : q = p + Len(Decimal[n])
  BY <1>1, <1>3
<1>5. next = q + 1 /\ next - 1 = q
  BY <1>1, <1>4
<1> QED
  BY <1>1, <1>4, <1>5, NumberReads

\* The two numbers and the fields of a request stand in s, one after the other.
LineStands(s, id, n, args, pos) ==
  /\ s \in Texts /\ pos \in [1..(Len(Request[n].fields) + 3) -> Nat]
  /\ pos[1] = 1 /\ pos[Len(Request[n].fields) + 3] = Len(s) + 1
  /\ NumberStands(s, id, pos[1], pos[2]) /\ NumberStands(s, n, pos[2], pos[3])
  /\ \A i \in 1..Len(Request[n].fields) :
       Stands(KindOf(Request[n], i), ArgOf(Request[n], args, i), s, pos[i + 2], pos[i + 3] - 1)

LEMMA LineWritten ==
  ASSUME NEW id \in UInt32, NEW n \in DOMAIN Request, NEW args,
         \A i \in DOMAIN Request[n].params : Typed(Request[n].params[i], args[i])
  PROVE  \E pos : LineStands(Line(id, n, args), id, n, args, pos)
<1> DEFINE r == Request[n]
           m == Len(r.fields)
           words == [i \in DOMAIN r.fields |-> Field(r.params[r.fields[i]], args[r.fields[i]])]
           s == Line(id, n, args)
<1>1. WellFormed(r) /\ n \in 1..81
  BY RequestTable
<1>2. n \in UInt32 /\ n \in Nat /\ id \in Nat
  BY <1>1, WordSize DEF UInt32
<1>3. m \in Nat /\ DOMAIN r.fields = 1..m
      /\ \A i \in 1..m : KindOf(r, i) \in Kinds /\ Typed(KindOf(r, i), ArgOf(r, args, i))
  BY <1>1 DEF WellFormed, KindOf, ArgOf
<1>4. ASSUME NEW i \in 1..m PROVE Field(KindOf(r, i), ArgOf(r, args, i)) \in Texts
  BY <1>3, FieldInTexts
<1>5. words = [i \in 1..m |-> Field(KindOf(r, i), ArgOf(r, args, i))]
  BY <1>3, Zenon DEF KindOf, ArgOf
<1>6. PICK lf \in Chars : lf = "LF"
  BY MoreChars, Zenon
<1>7. s = Spaced(<<Decimal[id], Decimal[n]>> \o words) \o <<lf>>
  BY <1>6, Zenon DEF Line
<1> HIDE DEF words, m, s
<1>8. words \in Seq(Texts) /\ m = Len(words)
      /\ \A i \in 1..m : words[i] = Field(KindOf(r, i), ArgOf(r, args, i))
  BY <1>3, <1>4, <1>5
<1>9. PICK all : all = <<Decimal[id], Decimal[n]>> \o words
  OBVIOUS
<1>10. /\ all \in Seq(Texts) /\ Len(all) = m + 2 /\ all[1] = Decimal[id] /\ all[2] = Decimal[n]
       /\ \A i \in 1..m : all[i + 2] = words[i]
  <2>1. Decimal[id] \in Texts /\ Decimal[n] \in Texts
    BY <1>2, DecimalInTexts
  <2> QED
    BY <1>3, <1>8, <1>9, <2>1, AfterTwo
<1>11. PICK x \in Texts : x = Spaced(all)
  BY <1>10, SpacedText
<1>12. <<lf>> \in Texts /\ Len(<<lf>>) = 1
  BY DEF Texts
<1>13. s = x \o <<lf>>
  BY <1>7, <1>9, <1>11
<1>14. s \in Texts /\ Len(s) = Len(x) + 1
  BY <1>12, <1>13, TextConcat
<1>15. Holds(s, 1, x) /\ Holds(s, 1 + Len(x), <<lf>>)
  <2>1. Holds(s, 1, x \o <<lf>>)
    BY <1>13, <1>14, HoldsAll
  <2> QED
    BY <1>12, <1>14, <2>1, HoldsConcat
<1>16. PICK pos : /\ WordsAt(s, all, pos) /\ pos[1] = 1 /\ pos[m + 3] = Len(s) + 1
  <2>1. Len(all) > 0 /\ Holds(s, 1, Spaced(all)) /\ 1 \in Nat
    BY <1>3, <1>10, <1>11, <1>15
  <2>2. PICK pos : /\ WordsAt(s, all, pos) /\ pos[1] = 1
                   /\ pos[Len(all) + 1] = 1 + Len(Spaced(all)) + 1
    BY <1>10, <1>14, <2>1, SpacedWords
  <2>3. Len(all) + 1 = m + 3
    BY <1>3, <1>10
  <2>4. 1 + Len(Spaced(all)) + 1 = Len(s) + 1
    BY <1>11, <1>14, TextLen
  <2> QED
    BY <2>2, <2>3, <2>4
<1>17. pos \in [1..(m + 3) -> Nat]
  <2>1. Len(all) + 1 = m + 3
    BY <1>3, <1>10
  <2> QED
    BY <1>16, <2>1, Zenon DEF WordsAt
<1>18. \A i \in 1..(m + 2) :
         /\ Holds(s, pos[i], all[i]) /\ pos[i + 1] = pos[i] + Len(all[i]) + 1
         /\ i < m + 2 => At(s, pos[i + 1] - 1, {" "})
  BY <1>10, <1>16, Zenon DEF WordsAt
<1>19. \A i \in 1..(m + 2) : i < m + 2 => Ends(s, pos[i + 1] - 1)
  BY <1>18, Zenon DEF At, Ends
<1>20. Ends(s, pos[m + 3] - 1)
  <2>1. PICK q : q = 1 + Len(x)
    OBVIOUS
  <2>2. s[q] = lf
    BY <1>14, <1>15, <2>1, HoldsOne
  <2>3. pos[m + 3] - 1 = q
    BY <1>14, <1>16, <2>1, TextLen
  <2>4. Ends(s, q)
    BY <1>6, <2>2, Zenon DEF Ends
  <2> QED
    BY <2>3, <2>4
<1>21. ASSUME NEW i \in 1..(m + 2)
       PROVE  /\ Holds(s, pos[i], all[i]) /\ pos[i + 1] = pos[i] + Len(all[i]) + 1
              /\ Ends(s, pos[i + 1] - 1) /\ pos[i] \in Nat /\ pos[i + 1] \in Nat
  <2>1. i \in 1..(m + 3) /\ i + 1 \in 1..(m + 3)
    BY <1>3
  <2>2. pos[i] \in Nat /\ pos[i + 1] \in Nat
    BY <1>17, <2>1
  <2>3. i < m + 2 \/ i + 1 = m + 3
    BY <1>3
  <2> QED
    BY <1>18, <1>19, <1>20, <2>2, <2>3, Zenon
<1>22. NumberStands(s, id, pos[1], pos[2]) /\ NumberStands(s, n, pos[2], pos[3])
  <2>1. 1 \in 1..(m + 2) /\ 2 \in 1..(m + 2) /\ 1 + 1 = 2 /\ 2 + 1 = 3
    BY <1>3
  <2>2. /\ Holds(s, pos[1], all[1]) /\ pos[2] = pos[1] + Len(all[1]) + 1
        /\ Ends(s, pos[2] - 1) /\ pos[1] \in Nat /\ pos[2] \in Nat
    BY <1>21, <2>1
  <2>3. /\ Holds(s, pos[2], all[2]) /\ pos[3] = pos[2] + Len(all[2]) + 1
        /\ Ends(s, pos[3] - 1) /\ pos[3] \in Nat
    BY <1>21, <2>1
  <2> QED
    BY <1>2, <1>10, <2>2, <2>3, Zenon DEF NumberStands
<1>23. ASSUME NEW i \in 1..m
       PROVE  Stands(KindOf(r, i), ArgOf(r, args, i), s, pos[i + 2], pos[i + 3] - 1)
  <2>1. PICK j \in 1..(m + 2) : j = i + 2 /\ j + 1 = i + 3
    <3>1. i + 2 \in 1..(m + 2) /\ i + 2 + 1 = i + 3
      BY <1>3
    <3> QED
      BY <3>1
  <2>2. PICK w : w = Field(KindOf(r, i), ArgOf(r, args, i))
    OBVIOUS
  <2>3. all[j] = w
    BY <1>8, <1>10, <2>1, <2>2
  <2>4. PICK p, next : p = pos[j] /\ next = pos[j + 1]
    OBVIOUS
  <2>5. Holds(s, p, w) /\ next = p + Len(w) + 1 /\ Ends(s, next - 1) /\ p \in Nat /\ next \in Nat
    BY <1>21, <2>3, <2>4
  <2>6. Len(w) \in Nat
    BY <1>4, <2>2, TextLen
  <2>7. next - 1 = p + Len(w) /\ next - 1 \in Nat
    BY <2>5, <2>6
  <2>8. Stands(KindOf(r, i), ArgOf(r, args, i), s, p, next - 1)
    BY <1>3, <2>2, <2>5, <2>7, Zenon DEF Stands
  <2> QED
    BY <2>1, <2>4, <2>8
<1>24. LineStands(s, id, n, args, pos)
  BY <1>14, <1>16, <1>17, <1>22, <1>23, Zenon DEF LineStands, m
<1> QED
  BY <1>24, Zenon DEF s

\* What the server understands of a request's line.
LEMMA UnderstoodReads ==
  ASSUME NEW id \in UInt32, NEW n \in DOMAIN Request, NEW args,
         \A i \in DOMAIN Request[n].params : Typed(Request[n].params[i], args[i])
  PROVE  LET s == Line(id, n, args)
             r == Request[n]
         IN  /\ Understood(s).id = id /\ Understood(s).no = n
             /\ Understood(s).next = Len(s) + 1
             /\ \A i \in DOMAIN r.fields :
                  KindOf(r, i) \notin Lookups =>
                    Understood(s).fields[i] = Sayable(KindOf(r, i), ArgOf(r, args, i))
<1> DEFINE s == Line(id, n, args)
           r == Request[n]
           m == Len(r.fields)
<1>1. PICK pos : LineStands(s, id, n, args, pos)
  BY LineWritten
<1> HIDE DEF s
<1>2. WellFormed(r)
  BY RequestTable
<1>3. m \in Nat
  BY <1>2 DEF WellFormed
<1>4. /\ s \in Texts /\ pos \in [1..(m + 3) -> Nat] /\ pos[1] = 1 /\ pos[m + 3] = Len(s) + 1
      /\ NumberStands(s, id, pos[1], pos[2]) /\ NumberStands(s, n, pos[2], pos[3])
      /\ \A i \in 1..m :
           Stands(KindOf(r, i), ArgOf(r, args, i), s, pos[i + 2], pos[i + 3] - 1)
  BY <1>1, Zenon DEF LineStands
<1>5. ReadUInt32(s, 1) = Value(id, pos[2]) /\ ReadUInt32(s, pos[2]) = Value(n, pos[3])
  BY <1>4, NumberStandsReads
<1> DEFINE rest == [i \in 1..(m + 1) |-> pos[i + 2]]
<1>6. rest[1] = pos[3] /\ rest[m + 1] = pos[m + 3]
  <2>1. 1 \in 1..(m + 1) /\ 1 + 2 = 3 /\ m + 1 \in 1..(m + 1) /\ m + 1 + 2 = m + 3
    BY <1>3
  <2> HIDE DEF m
  <2> QED
    BY <2>1
<1>7. FieldsStand(s, r, args, m, rest)
  <2> HIDE DEF m
  <2>1. rest \in [1..(m + 1) -> Nat]
    <3>1. \A i \in 1..(m + 1) : i + 2 \in 1..(m + 3)
      BY <1>3
    <3> QED
      BY <1>4, <3>1
  <2>2. ASSUME NEW i \in 1..m
        PROVE  Stands(KindOf(r, i), ArgOf(r, args, i), s, rest[i], rest[i + 1] - 1)
    <3>1. i \in 1..(m + 1) /\ i + 1 \in 1..(m + 1) /\ i + 1 + 2 = i + 3
      BY <1>3
    <3>2. rest[i] = pos[i + 2] /\ rest[i + 1] = pos[i + 3]
      BY <3>1
    <3> HIDE DEF rest
    <3> QED
      BY <1>4, <3>2
  <2> HIDE DEF rest
  <2> QED
    BY <2>1, <2>2, Zenon DEF FieldsStand
<1> HIDE DEF rest
<1>8. /\ FieldsAt(r, s, pos[3]).next = pos[m + 3]
      /\ \A i \in DOMAIN r.fields :
           KindOf(r, i) \notin Lookups =>
             FieldsAt(r, s, pos[3]).v[i] = Sayable(KindOf(r, i), ArgOf(r, args, i))
  <2>1. FieldsStand(s, r, args, Len(r.fields), rest)
    BY <1>7, Zenon
  <2>2. /\ FieldsAt(r, s, rest[1]).next = rest[Len(r.fields) + 1]
        /\ \A i \in DOMAIN r.fields :
             KindOf(r, i) \notin Lookups =>
               FieldsAt(r, s, rest[1]).v[i] = Sayable(KindOf(r, i), ArgOf(r, args, i))
    BY <1>2, <1>4, <2>1, FieldsRead
  <2> QED
    BY <1>6, <2>2, Zenon
<1>9. PICK fields : fields = FieldsAt(r, s, pos[3])
  OBVIOUS
<1>10. Understood(s) = [id |-> id, no |-> n, fields |-> fields.v, next |-> fields.next]
  <2>1. /\ ReadUInt32(s, 1).v = id /\ ReadUInt32(s, 1).next = pos[2]
        /\ ReadUInt32(s, pos[2]).v = n /\ ReadUInt32(s, pos[2]).next = pos[3]
    BY <1>5, ValueParts
  <2> QED
    BY <1>9, <2>1, Zenon DEF Understood
<1>11. /\ Understood(s).id = id /\ Understood(s).no = n
       /\ Understood(s).fields = fields.v /\ Understood(s).next = fields.next
  BY <1>10
<1> QED
  BY <1>4, <1>8, <1>9, <1>11, Zenon DEF s

-----------------------------------------------------------------------------
(* The calls of a session. *)

\* What an exchange holds once the request is written, once it is answered and once the
\* call has returned.
IsAsked(e) ==
  /\ e.no \in DOMAIN Request /\ e.id \in UInt32
  /\ \A i \in DOMAIN Request[e.no].params : Typed(Request[e.no].params[i], e.args[i])
  /\ e.line = Line(e.id, e.no, e.args)

RunOf(callback, answer, line) ==
  IF answer.ok THEN ValueOK(callback, line, 1) ELSE Gives({ValueError(callback, line, 1)})

IsAnswer(callback, answer) == callback \in DOMAIN Answers /\ answer \in Answers[callback]
IsAnswered(e) ==
  /\ IsAnswer(Request[e.no].callback, e.answer)
  /\ e.line = ReplyLine(Request[e.no].callback, e.answer)
IsReturned(e) ==
  /\ IsAnswer(Request[e.no].callback, e.answer)
  /\ LET line == ReplyLine(Request[e.no].callback, e.answer)
         run == RunOf(Request[e.no].callback, e.answer, line)
     IN  e.got \in run.responses /\ e.senders = run.senders - 1 /\ e.panics = run.panics

InStep(e) ==
  /\ e.step = "asked" => IsAsked(e)
  /\ e.step = "answered" => IsAnswered(e)
  /\ e.step = "returned" => IsReturned(e)

\* What its callback made of the answer can end the program.
Fatal(c) ==
  \/ exchange[c].step = "answered" /\ Run(c).panics
  \/ exchange[c].step = "returned" /\ (exchange[c].senders > 0 \/ exchange[c].panics)

\* The inductive invariant of the calls.
ExchangeInv ==
  /\ DOMAIN exchange = Clients
  /\ \A c \in Clients : InStep(exchange[c])
  /\ ~running => \E c \in Clients : Fatal(c)

LEMMA InitExchangeInv == SessionInit => ExchangeInv
<1> SUFFICES ASSUME SessionInit PROVE ExchangeInv
  OBVIOUS
<1>1. DOMAIN exchange = Clients /\ running = TRUE
  BY DEF SessionInit
<1>2. \A c \in Clients : exchange[c].step = "idle"
  BY DEF SessionInit
<1> QED
  BY <1>1, <1>2 DEF ExchangeInv, InStep

\* A step of a call gives one client's exchange another value.
LEMMA OneExchange ==
  ASSUME ExchangeInv, NEW c \in Clients, NEW e, InStep(e),
         exchange' = [exchange EXCEPT ![c] = e], running, running' = running
  PROVE  ExchangeInv'
<1>1. DOMAIN exchange' = Clients
  BY DEF ExchangeInv
<1>2. \A d \in Clients : exchange'[d] = e \/ exchange'[d] = exchange[d]
  BY DEF ExchangeInv
<1>3. \A d \in Clients : InStep(exchange'[d])
  BY <1>2 DEF ExchangeInv
<1> QED
  BY <1>1, <1>3, Zenon DEF ExchangeInv, InStep, IsAsked, IsAnswered, IsReturned

LEMMA StepExchangeInv == ExchangeInv /\ [SessionNext]_sessionVars => ExchangeInv'
<1> SUFFICES ASSUME ExchangeInv, [SessionNext]_sessionVars PROVE ExchangeInv'
  OBVIOUS
<1>1. ASSUME UNCHANGED <<exchange, running>> PROVE ExchangeInv'
  BY <1>1, Zenon DEF ExchangeInv, InStep, IsAsked, IsAnswered, IsReturned, Fatal, Run, CallbackOf
<1>2. CASE UNCHANGED sessionVars
  BY <1>1, <1>2 DEF sessionVars
<1>3. ASSUME NEW c \in Clients, BeginConnecting(c) PROVE ExchangeInv'
  BY <1>1, <1>3 DEF BeginConnecting
<1>4. ASSUME NEW c \in Clients, Connect(c) PROVE ExchangeInv'
  BY <1>1, <1>4 DEF Connect
<1>5. ASSUME NEW c \in Clients, Ask(c) PROVE ExchangeInv'
  <2>1. PICK id \in Numbering, n \in DOMAIN Request : \E args \in ArgumentsOf(n) :
          exchange' = [exchange EXCEPT ![c] =
            [step |-> "asked", no |-> n, id |-> id, args |-> args, line |-> Line(id, n, args)]]
    BY <1>5 DEF Ask
  <2>2. PICK args \in ArgumentsOf(n) :
          exchange' = [exchange EXCEPT ![c] =
            [step |-> "asked", no |-> n, id |-> id, args |-> args, line |-> Line(id, n, args)]]
    BY <2>1
  <2>3. PICK e : e = [step |-> "asked", no |-> n, id |-> id, args |-> args,
                      line |-> Line(id, n, args)]
    OBVIOUS
  <2>4. IsAsked(e)
    <3>1. e.no = n /\ e.id = id /\ e.args = args /\ e.line = Line(id, n, args)
      BY <2>3
    <3>2. \A i \in DOMAIN Request[n].params : Typed(Request[n].params[i], args[i])
      BY ArgumentsTyped
    <3>3. id \in UInt32
      BY SessionAssumption DEF UInt32
    <3> QED
      BY <3>1, <3>2, <3>3, Zenon DEF IsAsked
  <2>5. InStep(e)
    BY <2>3, <2>4 DEF InStep
  <2>6. exchange' = [exchange EXCEPT ![c] = e] /\ running /\ running' = running
    BY <1>5, <2>2, <2>3 DEF Ask
  <2> QED
    BY <2>5, <2>6, OneExchange
<1>6. ASSUME NEW c \in Clients, Answer(c) PROVE ExchangeInv'
  <2>1. PICK answer \in Answers[CallbackOf(c)] :
          exchange' = [exchange EXCEPT ![c] =
            [step |-> "answered", no |-> exchange[c].no, answer |-> answer,
             line |-> ReplyLine(CallbackOf(c), answer)]]
    BY <1>6 DEF Answer
  <2>2. PICK e : e = [step |-> "answered", no |-> exchange[c].no, answer |-> answer,
                      line |-> ReplyLine(CallbackOf(c), answer)]
    OBVIOUS
  <2>3. IsAnswered(e)
    <3>1. /\ e.no = exchange[c].no /\ e.answer = answer
          /\ e.line = ReplyLine(CallbackOf(c), answer)
      BY <2>2
    <3>2. Request[e.no].callback = CallbackOf(c)
      BY <3>1 DEF CallbackOf
    <3>3. CallbackOf(c) \in DOMAIN Answers
      BY <1>6 DEF Answer
    <3> QED
      BY <3>1, <3>2, <3>3, Zenon DEF IsAnswered, IsAnswer
  <2>4. InStep(e)
    BY <2>2, <2>3 DEF InStep
  <2>5. exchange' = [exchange EXCEPT ![c] = e] /\ running /\ running' = running
    BY <1>6, <2>1, <2>2 DEF Answer
  <2> QED
    BY <2>4, <2>5, OneExchange
<1>7. ASSUME NEW c \in Clients, Return(c) PROVE ExchangeInv'
  <2>1. PICK run : run = Run(c)
    OBVIOUS
  <2>2. PICK response \in run.responses :
          exchange' = [exchange EXCEPT ![c] =
            [step |-> "returned", no |-> @.no, answer |-> @.answer, got |-> response,
             senders |-> run.senders - 1, panics |-> run.panics]]
    BY <1>7, <2>1, Zenon DEF Return
  <2>3. PICK e : e = [step |-> "returned", no |-> exchange[c].no,
                      answer |-> exchange[c].answer, got |-> response,
                      senders |-> run.senders - 1, panics |-> run.panics]
    OBVIOUS
  <2>4. IsReturned(e)
    <3>1. /\ e.no = exchange[c].no /\ e.answer = exchange[c].answer /\ e.got = response
          /\ e.senders = run.senders - 1 /\ e.panics = run.panics
      BY <2>3
    <3>2. IsAnswered(exchange[c])
      BY <1>7 DEF Return, ExchangeInv, InStep
    <3>3. run = RunOf(Request[e.no].callback, e.answer, exchange[c].line)
      BY <2>1, <3>1, Zenon DEF Run, RunOf, CallbackOf
    <3> QED
      BY <2>2, <3>1, <3>2, <3>3, Zenon DEF IsAnswered, IsReturned
  <2>5. InStep(e)
    BY <2>3, <2>4 DEF InStep
  <2>6. exchange' = [exchange EXCEPT ![c] = e] /\ running /\ running' = running
    <3>1. [exchange EXCEPT ![c] = [step |-> "returned", no |-> @.no, answer |-> @.answer,
                                   got |-> response, senders |-> run.senders - 1,
                                   panics |-> run.panics]]
            = [exchange EXCEPT ![c] = [step |-> "returned", no |-> exchange[c].no,
                                       answer |-> exchange[c].answer, got |-> response,
                                       senders |-> run.senders - 1, panics |-> run.panics]]
      BY Zenon
    <3>2. running /\ running' = running
      BY <1>7 DEF Return
    <3> QED
      BY <2>2, <2>3, <3>1, <3>2, Zenon
  <2> QED
    BY <2>5, <2>6, OneExchange
<1>8. ASSUME NEW c \in Clients, Fatal(c), exchange' = exchange PROVE ExchangeInv'
  <2>1. (Fatal(c))'
    BY <1>8, Zenon DEF Fatal, Run, CallbackOf
  <2> QED
    BY <1>8, <2>1, Zenon DEF ExchangeInv, InStep, IsAsked, IsAnswered, IsReturned
<1>9. ASSUME NEW c \in Clients, Panic(c) \/ PanicAfter(c) PROVE ExchangeInv'
  <2>1. Fatal(c) /\ exchange' = exchange
    BY <1>9, Zenon DEF Panic, PanicAfter, Fatal
  <2> QED
    BY <1>8, <2>1
<1> QED
  BY <1>2, <1>3, <1>4, <1>5, <1>6, <1>7, <1>9 DEF SessionNext

LEMMA ExchangeInvHolds == SessionSpec => []ExchangeInv
  BY InitExchangeInv, StepExchangeInv, PTL DEF SessionSpec

\* The server reads from the line of every request the number it was given, the operation
\* and every argument that is no name, and nothing else, whatever the arguments, the request
\* numbers and the width of a number are (the async* methods, hollerith.Sprint, StringTime).
THEOREM RequestsReadBackHolds == SessionSpec => []RequestsReadBack
<1>1. ExchangeInv => RequestsReadBack
  <2> SUFFICES ASSUME ExchangeInv, NEW c \in Clients, exchange[c].step = "asked"
               PROVE  SaysTheCall(Understood(exchange[c].line), exchange[c])
    BY Zenon DEF RequestsReadBack
  <2>1. PICK e : e = exchange[c]
    OBVIOUS
  <2>2. IsAsked(e)
    BY <2>1 DEF ExchangeInv, InStep
  <2>3. PICK id, n, args : id = e.id /\ n = e.no /\ args = e.args
    OBVIOUS
  <2>4. /\ n \in DOMAIN Request /\ id \in UInt32 /\ e.line = Line(id, n, args)
        /\ \A i \in DOMAIN Request[n].params : Typed(Request[n].params[i], args[i])
    BY <2>2, <2>3, Zenon DEF IsAsked
  <2>5. PICK read : read = Understood(Line(id, n, args))
    OBVIOUS
  <2>6. /\ read.id = id /\ read.no = n /\ read.next = Len(Line(id, n, args)) + 1
        /\ \A i \in DOMAIN Request[n].fields :
             KindOf(Request[n], i) \notin Lookups =>
               read.fields[i] = Sayable(KindOf(Request[n], i), ArgOf(Request[n], args, i))
    BY <2>4, <2>5, UnderstoodReads
  <2> QED
    BY <2>1, <2>3, <2>4, <2>5, <2>6, Zenon DEF SaysTheCall, KindOf, ArgOf
<1> QED
  BY <1>1, ExchangeInvHolds, PTL
=============================================================================

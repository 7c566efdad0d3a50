---------------------------- MODULE ConverterProofs ----------------------------
(***************************************************************************)
(* Proofs about Converter, for replies and key files of any length: what   *)
(* counts as converted, and that an exchange in which nothing fails        *)
(* converts.                                                               *)
(***************************************************************************)
EXTENDS Converter, SequenceTheorems, TLAPS

Sending == {"open", "connect", "request", "send", "receive"}
Reading == {"query", "read", "close", "parse"}

\* What has been read is the beginning of what has arrived.
Prefix ==
  /\ reply \in Reply /\ arrived \in 0..reply.length
  /\ resp \in Seq(Nat) /\ Len(resp) <= arrived /\ resp = Pieces(0, Len(resp))
  /\ at = "read" => avail \in 1..(arrived - Len(resp))

\* What was asked, and under which status the answer came.
Asked ==
  /\ at \in {"start", "answer", "done"} \cup Sending \cup Reading
  /\ at \in Sending \cup Reading => (backend = "openai" => ApiKey # <<>>)
  /\ at \in {"start"} \cup Sending => resp = <<>> /\ status = 0
  /\ status \in {0, reply.status}
  /\ at = "parse" => status = 200 /\ resp # <<>>
  /\ at \in {"start"} \cup Sending \cup Reading => ok = FALSE

\* Nothing failed: the reply has its status, and a body that is left is whole.
Clean ==
  ~refused =>
    /\ ~broken
    /\ at \in Reading => status = reply.status
    /\ at \in {"close", "parse"} => Len(resp) = reply.length

\* What a conversion that is over has come to.
Judged ==
  at \in {"answer", "done"} /\ ~refused =>
    \/ ok
    \/ reply.status # 200 \/ reply.blank \/ ~Complete
    \/ reply.shape # (IF backend = "openai" THEN "choices" ELSE "message")
    \/ backend = "openai" /\ ApiKey = <<>>

IInv == Prefix /\ Asked /\ OkMeansWholeObject

----------------------------------------------------------------------------
LEMMA PiecesProperties ==
  ASSUME NEW from \in Nat, NEW to \in Nat, NEW r \in Nat, to = from + r
  PROVE  /\ Pieces(from, to) \in Seq(Nat) /\ Len(Pieces(from, to)) = r
         /\ \A i \in 1..r : Pieces(from, to)[i] = from + i
<1>1. to - from = r
  OBVIOUS
<1>2. Pieces(from, to) = [i \in 1..r |-> from + i]
  BY <1>1 DEF Pieces
<1>3. \A i \in 1..r : from + i \in Nat
  OBVIOUS
<1>4. QED BY <1>2, <1>3

\* Two pieces of a reply that follow each other are one.
LEMMA PiecesFollow ==
  ASSUME NEW n \in Nat, NEW r \in Nat
  PROVE  Pieces(0, n) \o Pieces(n, n + r) = Pieces(0, n + r)
<1> DEFINE left  == Pieces(0, n)
           right == Pieces(n, n + r)
           whole == Pieces(0, n + r)
<1>1. left \in Seq(Nat) /\ Len(left) = n /\ \A i \in 1..n : left[i] = 0 + i
  <2>1. n = 0 + n
    OBVIOUS
  <2>2. QED BY <2>1, PiecesProperties
<1>2. right \in Seq(Nat) /\ Len(right) = r /\ \A i \in 1..r : right[i] = n + i
  BY PiecesProperties
<1>3. whole \in Seq(Nat) /\ Len(whole) = n + r /\ \A i \in 1..(n + r) : whole[i] = 0 + i
  <2>1. n + r = 0 + (n + r) /\ n + r \in Nat
    OBVIOUS
  <2>2. QED BY <2>1, PiecesProperties
<1> HIDE DEF left, right, whole
<1>4. /\ left \o right \in Seq(Nat) /\ Len(left \o right) = n + r
      /\ \A i \in 1..(n + r) :
           (left \o right)[i] = IF i <= n THEN left[i] ELSE right[i - n]
  BY <1>1, <1>2, ConcatProperties
<1>5. \A i \in 1..(n + r) : (left \o right)[i] = whole[i]
  BY <1>1, <1>2, <1>3, <1>4
<1>6. left \o right = whole
  BY <1>3, <1>4, <1>5, SeqEqual
<1>7. QED BY <1>6 DEF left, right, whole

----------------------------------------------------------------------------
USE DEF Sending, Reading, network, given

LEMMA InitEstablishes == Init => IInv /\ Clean /\ Judged
<1> SUFFICES ASSUME Init PROVE IInv /\ Clean /\ Judged
  OBVIOUS
<1>1. resp \in Seq(Nat) /\ Len(resp) = 0 /\ resp = Pieces(0, Len(resp))
  BY DEF Init, Pieces
<1>2. Prefix
  BY <1>1 DEF Init, Prefix, Reply
<1>3. Asked /\ OkMeansWholeObject /\ Clean /\ Judged
  BY DEF Init, Asked, OkMeansWholeObject, Clean, Judged
<1>4. QED BY <1>2, <1>3 DEF IInv

\* The key is not made anew while Convert runs.
LEMMA KeyStays == UNCHANGED given => UNCHANGED ApiKey
BY DEF ApiKey

\* Reading: what comes next follows what is there.
LEMMA ReadAppends ==
  ASSUME Prefix, ReadData
  PROVE  /\ resp' \in Seq(Nat) /\ Len(resp') <= arrived
         /\ resp' = Pieces(0, Len(resp'))
         /\ at' = "query" => resp' # <<>>
<1>1. CASE UNCHANGED resp /\ at' = "close"
  BY <1>1 DEF Prefix
<1>2. ASSUME NEW read \in 1..avail,
             resp' = resp \o Pieces(Len(resp), Len(resp) + read)
      PROVE  /\ resp' \in Seq(Nat) /\ Len(resp') <= arrived
             /\ resp' = Pieces(0, Len(resp')) /\ resp' # <<>>
  <2>1. /\ Len(resp) \in Nat /\ read \in Nat \ {0} /\ arrived \in Nat
        /\ Len(resp) + read <= arrived
    BY DEF Prefix, ReadData, Reply
  <2>2. resp' = Pieces(0, Len(resp) + read)
    BY <1>2, <2>1, PiecesFollow DEF Prefix
  <2> DEFINE n == Len(resp) + read
  <2>3. n \in Nat \ {0} /\ resp' = Pieces(0, n)
    BY <2>1, <2>2
  <2> HIDE DEF n
  <2>4. resp' \in Seq(Nat) /\ Len(resp') = n
    BY <2>3, PiecesProperties
  <2>5. QED BY <2>1, <2>3, <2>4 DEF n
<1>3. QED BY <1>1, <1>2 DEF ReadData

LEMMA PrefixHolds ==
  ASSUME IInv, [Next]_vars
  PROVE  Prefix'
<1> USE DEF IInv, Prefix, Asked, Reply
<1>1. CASE Arrive
  BY <1>1 DEF Arrive
<1>2. CASE Break
  BY <1>2 DEF Break
<1>3. CASE Convert
  BY <1>3 DEF Convert
<1>4. ASSUME NEW from, NEW handle, NEW to \in {"connect", "request", "send"},
             OpenHandle(from, handle, to)
      PROVE  Prefix'
  BY <1>4 DEF OpenHandle
<1>5. CASE Send \/ ReceiveResponse
  BY <1>5 DEF Send, ReceiveResponse
<1>6. CASE QueryDataAvailable
  BY <1>6 DEF QueryDataAvailable
<1>7. CASE ReadData
  <2>1. UNCHANGED <<reply, arrived>> /\ at' # "read"
    BY <1>7 DEF ReadData
  <2>2. QED BY <1>7, <2>1, ReadAppends
<1>8. CASE Close \/ Parse \/ OnDone
  BY <1>8 DEF Close, Parse, OnDone
<1>9. CASE Done \/ UNCHANGED vars
  BY <1>9 DEF Done, vars
<1>10. QED BY <1>1, <1>2, <1>3, <1>4, <1>5, <1>6, <1>7, <1>8, <1>9 DEF Next, Work

\* An object that parses has been read to its end.
LEMMA TextIsRead ==
  ASSUME Prefix, Parses
  PROVE  \A i \in 1..reply.closes : i <= Len(resp) /\ resp[i] = i
<1>1. Len(resp) \in Nat /\ reply.closes \in Nat /\ reply.closes <= Len(resp)
  BY DEF Prefix, Parses, Reply
<1>2. Len(resp) = 0 + Len(resp)
  BY <1>1
<1>3. \A i \in 1..Len(resp) : Pieces(0, Len(resp))[i] = 0 + i
  BY <1>1, <1>2, PiecesProperties
<1>4. \A i \in 1..Len(resp) : resp[i] = i
  BY <1>3 DEF Parses
<1>5. QED BY <1>1, <1>4

\* What goes to the service, and what is said to come from it.
LEMMA AskedHolds ==
  ASSUME IInv, [Next]_vars
  PROVE  Asked' /\ OkMeansWholeObject'
<1>1. CASE Arrive \/ Break
  BY <1>1, KeyStays DEF Arrive, Break, IInv, Asked, OkMeansWholeObject
<1>2. CASE Convert
  BY <1>2, KeyStays DEF Convert, IInv, Asked, OkMeansWholeObject
<1>3. CASE \/ OpenHandle("open", "session", "connect")
           \/ OpenHandle("connect", "connection", "request")
           \/ OpenHandle("request", "request", "send")
  BY <1>3, KeyStays DEF OpenHandle, IInv, Asked, OkMeansWholeObject
<1>4. CASE Send \/ ReceiveResponse
  BY <1>4, KeyStays DEF Send, ReceiveResponse, IInv, Asked, OkMeansWholeObject
<1>5. CASE QueryDataAvailable
  BY <1>5, KeyStays DEF QueryDataAvailable, IInv, Asked, OkMeansWholeObject
<1>6. CASE ReadData
  BY <1>6, KeyStays DEF ReadData, IInv, Asked, OkMeansWholeObject
<1>7. CASE Close
  BY <1>7, KeyStays DEF Close, IInv, Asked, OkMeansWholeObject
<1>8. CASE Parse
  <2>1. ok' => (\A i \in 1..reply.closes : i <= Len(resp) /\ resp[i] = i) /\ ~reply.blank
    BY <1>8, TextIsRead DEF Parse, OpenAiHasText, OllamaHasText, IInv
  <2>2. /\ at = "parse" /\ at' = "answer"
        /\ UNCHANGED <<given, reply, status, resp>>
    BY <1>8 DEF Parse
  <2>3. QED BY <2>1, <2>2, KeyStays DEF IInv, Asked, OkMeansWholeObject
<1>9. CASE OnDone
  BY <1>9, KeyStays DEF OnDone, IInv, Asked, OkMeansWholeObject
<1>10. CASE Done \/ UNCHANGED vars
  BY <1>10, KeyStays DEF Done, vars, IInv, Asked, OkMeansWholeObject
<1>11. QED BY <1>1, <1>2, <1>3, <1>4, <1>5, <1>6, <1>7, <1>8, <1>9, <1>10 DEF Next, Work

\* A conversion that counts gives the text of an object that was read to its end
\* under a status 200, whatever breaks and however it is read (HttpJson.cpp:46
\* and 60).
THEOREM CountsOnlyWholeObjects == Spec => []OkMeansWholeObject
<1>1. IInv /\ [Next]_vars => IInv'
  BY PrefixHolds, AskedHolds DEF IInv
<1>2. IInv => OkMeansWholeObject
  BY DEF IInv
<1>3. QED BY <1>1, <1>2, InitEstablishes, PTL DEF Spec

----------------------------------------------------------------------------
\* Where nothing fails, the loop over the pieces ends with the last one.
LEMMA CleanHolds ==
  ASSUME IInv, Clean, [Next]_vars
  PROVE  Clean'
<1> USE DEF IInv, Prefix, Asked, Clean
<1>1. CASE Arrive \/ Break
  BY <1>1 DEF Arrive, Break
<1>2. CASE Convert
  BY <1>2 DEF Convert
<1>3. CASE \/ OpenHandle("open", "session", "connect")
           \/ OpenHandle("connect", "connection", "request")
           \/ OpenHandle("request", "request", "send")
  BY <1>3 DEF OpenHandle
<1>4. CASE Send \/ ReceiveResponse
  BY <1>4 DEF Send, ReceiveResponse
<1>5. CASE QueryDataAvailable
  BY <1>5 DEF QueryDataAvailable
<1>6. CASE ReadData
  BY <1>6 DEF ReadData
<1>7. CASE Close \/ Parse \/ OnDone
  BY <1>7 DEF Close, Parse, OnDone
<1>8. CASE Done \/ UNCHANGED vars
  BY <1>8 DEF Done, vars
<1>9. QED BY <1>1, <1>2, <1>3, <1>4, <1>5, <1>6, <1>7, <1>8 DEF Next, Work

\* A reply that is a JSON is not empty, and has been read if nothing failed.
LEMMA CompleteHasBody ==
  ASSUME Prefix, Clean, ~refused, at = "close", Complete
  PROVE  resp # <<>>
BY DEF Prefix, Clean, Complete, Reply

LEMMA JudgedHolds ==
  ASSUME IInv, Clean, Judged, [Next]_vars
  PROVE  Judged'
<1> USE DEF IInv, Prefix, Asked, Clean, Judged, Complete
<1>1. CASE Arrive \/ Break
  BY <1>1, KeyStays DEF Arrive, Break
<1>2. CASE Convert
  BY <1>2, KeyStays DEF Convert
<1>3. CASE \/ OpenHandle("open", "session", "connect")
           \/ OpenHandle("connect", "connection", "request")
           \/ OpenHandle("request", "request", "send")
  BY <1>3, KeyStays DEF OpenHandle
<1>4. CASE Send \/ ReceiveResponse
  BY <1>4, KeyStays DEF Send, ReceiveResponse
<1>5. CASE QueryDataAvailable \/ ReadData
  BY <1>5, KeyStays DEF QueryDataAvailable, ReadData
<1>6. CASE Close
  BY <1>6, KeyStays, CompleteHasBody DEF Close
<1>7. CASE Parse
  <2>1. Complete /\ ~refused => Parses
    BY <1>7 DEF Parse, Parses, Reply
  <2>2. UNCHANGED Complete
    BY <1>7 DEF Parse
  <2> HIDE DEF Complete
  <2>3. QED BY <1>7, <2>1, <2>2, KeyStays DEF Parse, OpenAiHasText, OllamaHasText
<1>8. CASE OnDone
  BY <1>8, KeyStays DEF OnDone
<1>9. CASE Done \/ UNCHANGED vars
  BY <1>9, KeyStays DEF Done, vars
<1>10. QED BY <1>1, <1>2, <1>3, <1>4, <1>5, <1>6, <1>7, <1>8, <1>9 DEF Next, Work

\* An exchange in which nothing failed gives its text, in however many pieces
\* it came (HttpJson.cpp:46).
THEOREM CleanExchangesConvert == Spec => []CleanExchangeConverts
<1> DEFINE Inv == IInv /\ Clean /\ Judged
<1>1. Init => Inv
  BY InitEstablishes
<1>2. Inv /\ [Next]_vars => Inv'
  BY PrefixHolds, AskedHolds, CleanHolds, JudgedHolds DEF IInv
<1>3. Inv => CleanExchangeConverts
  BY DEF Judged, CleanExchangeConverts
<1> HIDE DEF Inv
<1>4. QED BY <1>1, <1>2, <1>3, PTL DEF Spec
=============================================================================

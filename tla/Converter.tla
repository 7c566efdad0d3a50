------------------------------ MODULE Converter ------------------------------
(***************************************************************************)
(* One conversion on its worker's thread: IKanaKanjiConverter::Convert of  *)
(* OpenAiKanaKanjiConverter and OllamaKanaKanjiConverter, with the HTTP    *)
(* exchange of PostJson, against a service and a network that may refuse,  *)
(* stall, break off or answer anything at any point.                       *)
(*                                                                         *)
(* A reply's body is Length pieces, numbered; a buffer is grown with zeros *)
(* before it is read into.  What the pieces say is the reply's content.    *)
(***************************************************************************)
EXTENDS Integers, Sequences, SequencesExt

CONSTANTS MaxLength,   \* bound: pieces of a reply's body
          MaxKeyFile   \* bound: characters on the first line of openai.key

ASSUME LengthAssumption == MaxLength \in Nat \ {0}
ASSUME KeyAssumption    == MaxKeyFile \in Nat

\* What a character of openai.key is to the code that reads it: the byte order
\* mark, white space, printable ASCII, anything else.
KeyChar  == {"bom", "space", "printable", "other"}
KeyFiles == UNION {[1..n -> KeyChar] : n \in 0..MaxKeyFile}

\* What a reply says: which of the two services' objects it begins with, with
\* the text under "choices" or under "message", or another JSON; whether that
\* text is more than white space; the piece that completes the object, if one
\* does; and the piece up to which nothing but white space follows it.
Shapes == {"choices", "message", "otherJson"}
Reply  == {r \in [status : {200, 500}, shape : Shapes, blank : BOOLEAN,
                  length : 0..MaxLength, closes : 1..(MaxLength + 1), ends : 0..MaxLength] :
             \/ r.closes <= r.ends /\ r.ends <= r.length
             \/ r.closes = r.length + 1 /\ r.ends = r.length}

VARIABLES
  backend,   \* "openai" or "ollama"
  keyFile,   \* the first line of openai.key when the converter was made
  reply,     \* what the service sends, unless it is cut off
  arrived,   \* pieces that have reached this machine
  broken,    \* the connection is gone
  at,        \* where Convert is
  handles,   \* the WinHTTP handles that are open
  status, resp,  \* of PostJson
  avail,     \* what WinHttpQueryDataAvailable said last
  ok,        \* result.ok
  answers,   \* how often onDone was called
  refused    \* history: some call failed or the connection broke

network == <<reply, arrived, broken>>
given   == <<backend, keyFile>>
vars    == <<given, network, at, handles, status, resp, avail, ok, answers, refused>>

\* Pieces from + 1 to to, as the service numbers them.
Pieces(from, to) == [i \in 1..(to - from) |-> from + i]
Zeros(n)         == [i \in 1..n |-> 0]

----------------------------------------------------------------------------
\* The key.

\* ReadApiKey: Trim, then the byte order mark.
Solid(line)   == {i \in DOMAIN line : line[i] # "space"}
Trimmed(line) == IF Solid(line) = {} THEN <<>>
                 ELSE SubSeq(line, CHOOSE i \in Solid(line) : \A j \in Solid(line) : i <= j,
                                   CHOOSE i \in Solid(line) : \A j \in Solid(line) : i >= j)
ReadApiKey(line) ==
  LET t == Trimmed(line)
  IN  IF t # <<>> /\ t[1] = "bom" THEN Tail(t) ELSE t

\* AsciiToW: a key that could not be sent as it stands is no key.
AsciiToW(k) == IF \A i \in DOMAIN k : k[i] = "printable" THEN k ELSE <<>>

ApiKey == IF backend = "openai" THEN AsciiToW(ReadApiKey(keyFile)) ELSE <<>>

----------------------------------------------------------------------------
\* The service and the network.

Arrive == /\ at \in {"receive", "query", "read"} /\ ~broken /\ arrived < reply.length
          /\ \E to \in (arrived + 1)..reply.length : arrived' = to
          /\ UNCHANGED <<given, reply, broken, at, handles, status, resp, avail, ok,
                         answers, refused>>

Break == /\ at \in {"receive", "query", "read"} /\ ~broken /\ broken' = TRUE /\ refused' = TRUE
         /\ UNCHANGED <<given, reply, arrived, at, handles, status, resp, avail, ok, answers>>

----------------------------------------------------------------------------
\* Convert.

\* Mutant: the early return forgets the callback.
ConvertSilently ==
  /\ at = "start"
  /\ at' = IF backend = "openai" /\ ApiKey = <<>> THEN "done" ELSE "open"
  /\ UNCHANGED <<given, network, handles, status, resp, avail, ok, answers, refused>>

\* Without a key OpenAI is not even asked.
Convert ==
  /\ at = "start"
  /\ at' = IF backend = "openai" /\ ApiKey = <<>> THEN "answer" ELSE "open"
  /\ UNCHANGED <<given, network, handles, status, resp, avail, ok, answers, refused>>

\* WinHttpOpen, WinHttpConnect and WinHttpOpenRequest: each opens a handle, or
\* leads back to where the handles before it are closed.
OpenHandle(from, handle, to) ==
  /\ at = from
  /\ \/ handles' = handles \cup {handle} /\ at' = to /\ UNCHANGED refused
     \/ at' = "close" /\ refused' = TRUE /\ UNCHANGED handles
  /\ UNCHANGED <<given, network, status, resp, avail, ok, answers>>

\* WinHttpSendRequest may time out, or find nobody.
Send ==
  /\ at = "send"
  /\ \/ at' = "receive" /\ UNCHANGED refused
     \/ at' = "close" /\ refused' = TRUE
  /\ UNCHANGED <<given, network, handles, status, resp, avail, ok, answers>>

\* WinHttpReceiveResponse waits for the head of the reply, as long as the
\* receive time-out allows; the status is read from it.  Where it cannot be, it
\* stays 0, and the body is read all the same.
ReceiveResponse ==
  /\ at = "receive"
  /\ \/ /\ ~broken /\ at' = "query"
        /\ \/ status' = reply.status /\ UNCHANGED refused
           \/ refused' = TRUE /\ UNCHANGED status
     \/ at' = "close" /\ refused' = TRUE /\ UNCHANGED status
  /\ UNCHANGED <<given, network, handles, resp, avail, ok, answers>>

\* WinHttpQueryDataAvailable waits for the next piece.  0 is the end of the
\* body, or where a service that closes the connection stopped; what a break or
\* a time-out leaves in resp is kept.
QueryDataAvailable ==
  /\ at = "query"
  /\ \/ /\ arrived > Len(resp)
        /\ avail' = arrived - Len(resp) /\ at' = "read" /\ UNCHANGED refused
     \/ /\ Len(resp) = reply.length \/ broken
        /\ avail' = 0 /\ at' = "close" /\ UNCHANGED refused
     \/ at' = "close" /\ refused' = TRUE /\ UNCHANGED avail
  /\ UNCHANGED <<given, network, handles, status, resp, ok, answers>>

\* Mutant: the chunk keeps the size it was made with.
ReadDataUntrimmed ==
  /\ at = "read"
  /\ \/ \E read \in 1..avail :
          /\ resp' = resp \o Pieces(Len(resp), Len(resp) + read) \o Zeros(avail - read)
          /\ at' = "query" /\ UNCHANGED refused
     \/ at' = "close" /\ refused' = TRUE /\ UNCHANGED resp
  /\ UNCHANGED <<given, network, handles, status, avail, ok, answers>>

\* WinHttpReadData reads as many as it likes of what is there; the rest of the
\* buffer is cut off.
ReadData ==
  /\ at = "read"
  /\ \/ \E read \in 1..avail :
          /\ resp' = resp \o Pieces(Len(resp), Len(resp) + read)
          /\ at' = "query" /\ UNCHANGED refused
     \/ at' = "close" /\ refused' = TRUE /\ UNCHANGED resp
  /\ UNCHANGED <<given, network, handles, status, avail, ok, answers>>

\* Mutant: the status is not looked at.
CloseAnyStatus ==
  /\ at = "close" /\ handles' = {}
  /\ at' = IF resp = <<>> THEN "answer" ELSE "parse"
  /\ UNCHANGED <<given, network, status, resp, avail, ok, answers, refused>>

\* The handles are closed from the inside out; then PostJson says whether there
\* is a body of a status 200.
Close ==
  /\ at = "close" /\ handles' = {}
  /\ at' = IF status # 200 \/ resp = <<>> THEN "answer" ELSE "parse"
  /\ UNCHANGED <<given, network, status, resp, avail, ok, answers, refused>>

\* A body that broke off is handed to the parser like any other.  It parses from
\* the piece that completes the object, and as long as only white space follows.
\* What is thrown is caught, and the fields that the other service would have
\* used are not there.
Parses == resp = Pieces(0, Len(resp)) /\ Len(resp) \in reply.closes..reply.ends

OpenAiHasText == Parses /\ reply.shape = "choices" /\ ~reply.blank
OllamaHasText == Parses /\ reply.shape = "message" /\ ~reply.blank

Parse ==
  /\ at = "parse" /\ at' = "answer"
  /\ ok' = IF backend = "openai" THEN OpenAiHasText ELSE OllamaHasText
  /\ UNCHANGED <<given, network, handles, status, resp, avail, answers, refused>>

OnDone ==
  /\ at = "answer" /\ at' = "done" /\ answers' = answers + 1
  /\ UNCHANGED <<given, network, handles, status, resp, avail, ok, refused>>

----------------------------------------------------------------------------
Init ==
  /\ backend \in {"openai", "ollama"}
  /\ keyFile \in IF backend = "openai" THEN KeyFiles ELSE {<<>>}
  /\ reply \in Reply /\ arrived = 0 /\ broken = FALSE
  /\ at = "start" /\ handles = {} /\ status = 0 /\ resp = <<>> /\ avail = 0
  /\ ok = FALSE /\ answers = 0 /\ refused = FALSE

Work == \/ Convert
        \/ OpenHandle("open", "session", "connect")
        \/ OpenHandle("connect", "connection", "request")
        \/ OpenHandle("request", "request", "send")
        \/ Send \/ ReceiveResponse \/ QueryDataAvailable \/ ReadData
        \/ Close \/ Parse \/ OnDone

Done == at = "done" /\ UNCHANGED vars

Next == Work \/ Arrive \/ Break \/ Done

\* Every call of WinHTTP returns: the service answers, or the call's own
\* time-out ends it (HttpJson.cpp:23).
Spec     == Init /\ [][Next]_vars
FairSpec == Spec /\ WF_vars(Work)

----------------------------------------------------------------------------
TypeOK ==
  /\ backend \in {"openai", "ollama"} /\ keyFile \in KeyFiles
  /\ reply \in Reply /\ arrived \in 0..reply.length /\ broken \in BOOLEAN
  /\ handles \subseteq {"session", "connection", "request"}
  /\ status \in {0, 200, 500} /\ resp \in Seq(Nat) /\ avail \in Nat
  /\ ok \in BOOLEAN /\ answers \in 0..1 /\ refused \in BOOLEAN

\* A conversion that counts gives the text of an object the service sent, read
\* to its end without a gap or a filler and under a status 200 that was seen,
\* wherever the connection broke and however the body was cut (HttpJson.cpp:46
\* and 60); and OpenAI was asked with a key that can be sent.
OkMeansWholeObject ==
  ok => /\ status = 200 /\ reply.status = 200 /\ ~reply.blank
        /\ \A i \in 1..reply.closes : i <= Len(resp) /\ resp[i] = i
        /\ backend = "openai" => ApiKey # <<>>

\* The whole reply is a JSON.
Complete == reply.closes <= reply.length /\ reply.ends = reply.length

\* An exchange in which nothing failed gives the text, in however many pieces
\* it came and however they were read (HttpJson.cpp:46).
CleanExchangeConverts ==
  at = "done" /\ ~refused =>
    \/ ok
    \/ reply.status # 200 \/ reply.blank \/ ~Complete
    \/ reply.shape # (IF backend = "openai" THEN "choices" ELSE "message")
    \/ backend = "openai" /\ ApiKey = <<>>

\* Every conversion is answered, once, and leaves no handle open: the worker
\* comes back, whatever the service does (IKanaKanjiConverter.h:35).
ConversionEnds == <>[](at = "done" /\ answers = 1 /\ handles = {})
=============================================================================

----------------------------- MODULE LinkProofs -----------------------------
(***************************************************************************)
(* Theorems about Link: for every set of places, any number of requests,   *)
(* of retries and of tokens on the wire.                                   *)
(***************************************************************************)
EXTENDS Link, TLAPS

-----------------------------------------------------------------------------
(* Sequences and what is in them.                                          *)

LEMMA InTail ==
  ASSUME NEW S, NEW s \in Seq(S), s # <<>>
  PROVE  /\ Tail(s) \in Seq(S) /\ Head(s) \in S
         /\ Range(s) = {Head(s)} \cup Range(Tail(s))
<1> DEFINE r == Tail(s)
<1>1. r \in Seq(S) /\ Len(s) \in Nat /\ Len(s) >= 1 /\ Len(r) = Len(s) - 1
  OBVIOUS
<1>2. \A i \in 1..Len(r) : r[i] = s[i + 1] /\ i + 1 \in 1..Len(s)
  BY <1>1
<1>3. \A i \in 1..Len(s) : i = 1 \/ (i - 1 \in 1..Len(r) /\ s[i] = r[i - 1])
  BY <1>1
<1>4. Head(s) = s[1] /\ 1 \in 1..Len(s) /\ s[1] \in S
  BY <1>1
<1>5. DOMAIN s = 1..Len(s) /\ DOMAIN r = 1..Len(r)
  BY <1>1
<1> HIDE DEF r
<1>6. Range(r) \subseteq Range(s)
  BY <1>2, <1>5 DEF Range
<1>7. Range(s) \subseteq {s[1]} \cup Range(r)
  BY <1>3, <1>5 DEF Range
<1>8. s[1] \in Range(s)
  BY <1>4, <1>5 DEF Range
<1> QED
  BY <1>1, <1>4, <1>6, <1>7, <1>8 DEF r

LEMMA InAppend ==
  ASSUME NEW S, NEW s \in Seq(S), NEW e \in S
  PROVE  Append(s, e) \in Seq(S) /\ Range(Append(s, e)) = Range(s) \cup {e}
<1>1. Append(s, e) \in Seq(S) /\ Len(Append(s, e)) = Len(s) + 1 /\ Len(s) \in Nat
  OBVIOUS
<1>2. \A i \in 1..Len(s) : Append(s, e)[i] = s[i]
  OBVIOUS
<1>3. Append(s, e)[Len(s) + 1] = e
  OBVIOUS
<1>4. \A i \in 1..(Len(s) + 1) : i \in 1..Len(s) \/ i = Len(s) + 1
  BY <1>1
<1>5. Len(s) + 1 \in 1..(Len(s) + 1) /\ 1..Len(s) \subseteq 1..(Len(s) + 1)
  BY <1>1
<1> QED
  BY <1>1, <1>2, <1>3, <1>4, <1>5 DEF Range

LEMMA InRest ==
  ASSUME NEW S, NEW s \in Seq(S), NEW n \in 0..Len(s)
  PROVE  SubSeq(s, n + 1, Len(s)) \in Seq(S) /\ Range(SubSeq(s, n + 1, Len(s))) \subseteq Range(s)
<1> DEFINE r == SubSeq(s, n + 1, Len(s))
<1>1. r \in Seq(S) /\ Len(s) \in Nat /\ Len(r) = Len(s) - n
  OBVIOUS
<1>2. \A i \in 1..Len(r) : i + n \in 1..Len(s) /\ r[i] = s[i + n]
  BY <1>1
<1> QED
  BY <1>1, <1>2 DEF Range

LEMMA InOne ==
  ASSUME NEW S, NEW s \in Seq(S), NEW e \in S
  PROVE  s \o <<e>> \in Seq(S) /\ Range(s \o <<e>>) = Range(s) \cup {e}
<1>1. s \o <<e>> = Append(s, e)
  OBVIOUS
<1>2. Append(s, e) \in Seq(S) /\ Range(Append(s, e)) = Range(s) \cup {e}
  BY InAppend
<1> QED
  BY <1>1, <1>2, Zenon

LEMMA InPair ==
  ASSUME NEW S, NEW s \in Seq(S), NEW e \in S, NEW f \in S
  PROVE  s \o <<e, f>> \in Seq(S) /\ Range(s \o <<e, f>>) = Range(s) \cup {e, f}
<1>1. s \o <<e, f>> = Append(Append(s, e), f)
  OBVIOUS
<1> DEFINE r == Append(s, e)
<1>2. r \in Seq(S) /\ Range(r) = Range(s) \cup {e}
  BY InAppend
<1>3. Append(r, f) \in Seq(S) /\ Range(Append(r, f)) = Range(r) \cup {f}
  <2> HIDE DEF r
  <2> QED
    BY <1>2, InAppend
<1>4. Range(Append(r, f)) = Range(s) \cup {e, f}
  <2> HIDE DEF r
  <2> QED
    BY <1>2, <1>3
<1> QED
  BY <1>1, <1>3, <1>4, Zenon

-----------------------------------------------------------------------------
(* Types, and the number of tries.                                         *)

TriesFit == /\ phase \in {"send", "drain"} => tries <= Retries + 1
            /\ phase # "idle" => req # 0

LEMMA InNothing ==
  ASSUME NEW S
  PROVE  <<>> \in Seq(S) /\ Range(<<>>) = {}
BY DEF Range

LEMMA TokensTyped ==
  ASSUME TypeOK
  PROVE  Nothing \in Token /\ \A t \in Range(wire) \cup Range(input) : t \in Token
<1>1. Nothing \in Token
  BY LinkAssumption DEF Nothing, Token, Toks
<1>2. wire \in Seq(Token) /\ input \in Seq(Token)
  BY DEF TypeOK
<1> QED
  BY <1>1, <1>2 DEF Range

\* How a wait ends.
Ends == phase' = "idle" /\ outcome' \in {"answered", "refused", "failed"} /\ held' = Nothing /\ by' \in Token

LEMMA ReplyEnds ==
  ASSUME NEW t \in Token, Reply(t)
  PROVE  /\ Ends /\ by' = t /\ outcome' \in {"answered", "refused"}
         /\ outcome' = "refused" <=> t.tok = "error"
BY DEF Reply, End, Ends

LEMMA AttemptEnds ==
  ASSUME TypeOK, TriesFit, AttemptFails
  PROVE  \/ Ends /\ by' = Nothing /\ outcome' = "failed"
         \/ MayRetry /\ phase' = "drain" /\ tries <= Retries + 1 /\ UNCHANGED <<held, outcome, by>>
<1>1. Nothing \in Token /\ Retries \in Nat /\ tries \in Nat /\ 1 <= Retries
  BY LinkAssumption DEF Nothing, Token, Toks, TypeOK
<1>2. MayRetry => tries <= Retries + 1
  BY <1>1 DEF MayRetry
<1> QED
  BY <1>1, <1>2 DEF AttemptFails, End, Ends

LEMMA TypeOfRequest ==
  ASSUME TypeOK, TriesFit, NEW k \in Kinds, NEW p \in Places \cup {NoPlace}, k \in BlockKinds <=> p # NoPlace, Request(k, p)
  PROVE  TypeOK' /\ TriesFit'
<1>1. Nothing \in Token /\ Retries \in Nat /\ MaxRequests \in Nat
  BY LinkAssumption DEF Nothing, Token, Toks
<1> QED
  BY <1>1 DEF Request, TypeOK, TriesFit, lineVars

LEMMA TypeOfSend ==
  ASSUME TypeOK, TriesFit, Send
  PROVE  /\ TypeOK' /\ TriesFit' /\ Range(input') \subseteq Range(input)
         /\ kind \notin BlockKinds => input' = <<>>
<1>1. Nothing \in Token /\ Retries \in Nat /\ MaxRequests \in Nat
  BY LinkAssumption DEF Nothing, Token, Toks
<1>2. input' \in Seq(Token) /\ Range(input') \subseteq Range(input) /\ (kind \notin BlockKinds => input' = <<>>)
  <2>1. CASE kind \notin BlockKinds
    <3>1. input' = <<>>
      BY <2>1 DEF Send, Discarded, TypeOK, Kinds, LineKinds, BlockKinds
    <3> QED
      BY <3>1, InNothing
  <2>2. CASE kind \in BlockKinds
    <3>1. PICK n \in 0..Len(input) : input' = SubSeq(input, n + 1, Len(input))
      BY <2>2 DEF Send, Discarded, TypeOK, LineKinds, BlockKinds
    <3>2. input \in Seq(Token)
      BY DEF TypeOK
    <3> QED
      BY <2>2, <3>1, <3>2, InRest
  <2> QED
    BY <2>1, <2>2
<1>3. req # 0 => Echo \in Token /\ [req |-> req, kind |-> kind, place |-> place] \in Command
  BY <1>1 DEF Echo, Token, Toks, Command, TypeOK
<1>4. commands' \in Seq(Command) /\ wire' \in Seq(Token)
  BY <1>3, InAppend DEF Send, TypeOK, TriesFit
<1>5. tries' \in 0..(Retries + 2)
  BY <1>1 DEF Send, TypeOK, TriesFit
<1>6. {echoing', clean', arrived'} \subseteq BOOLEAN
  BY DEF Send, TypeOK
<1> QED
  BY <1>1, <1>2, <1>4, <1>5, <1>6 DEF Send, TypeOK, TriesFit, requestVars

\* The steps that wait for the reply, and those that take something off the line.
Waits ==
  \/ StripPrompt \/ TakeLine \/ AcceptEcho \/ TakeText \/ TakePrompt \/ TakeBlock \/ BlockRefused
  \/ NearlyOver \/ Timeout
Clears == Drain \/ Wake \/ LoseCommand \/ Arrive

Coming == Range(wire) \cup Range(input)
LineKept ==
  /\ wire' \in Seq(Token) /\ input' \in Seq(Token) /\ commands' \in Seq(Command)
  /\ Coming' \subseteq Coming /\ Range(commands') \subseteq Range(commands)
  /\ UNCHANGED <<requestVars, echoing, obeyed, clean>>

LEMMA ClearsKeep ==
  ASSUME TypeOK, Clears
  PROVE  LineKept
<1> USE DEF LineKept, Coming
<1>1. wire \in Seq(Token) /\ input \in Seq(Token) /\ commands \in Seq(Command)
  BY DEF TypeOK
<1>2. CASE Drain \/ Wake
  <2>1. PICK n \in 0..Len(wire) : wire' = SubSeq(wire, n + 1, Len(wire))
    BY <1>2 DEF Drain, Wake
  <2>2. wire' \in Seq(Token) /\ Range(wire') \subseteq Range(wire)
    BY <1>1, <2>1, InRest
  <2>3. input' = <<>> /\ commands' = commands /\ UNCHANGED <<requestVars, echoing, obeyed, clean>>
    BY <1>2 DEF Drain, Wake, ghostVars
  <2> QED
    BY <1>1, <2>2, <2>3, InNothing
<1>3. CASE LoseCommand
  <2>1. commands # <<>> /\ commands' = Tail(commands)
    BY <1>3 DEF LoseCommand
  <2>2. commands' \in Seq(Command) /\ Range(commands') \subseteq Range(commands)
    BY <1>1, <2>1, InTail
  <2> QED
    BY <1>1, <1>3, <2>2 DEF LoseCommand, ghostVars
<1>4. CASE Arrive
  <2>1. wire # <<>> /\ wire' = Tail(wire) /\ input' = Append(input, Head(wire))
    BY <1>4 DEF Arrive
  <2>2. wire' \in Seq(Token) /\ Head(wire) \in Token /\ Range(wire) = {Head(wire)} \cup Range(wire')
    BY <1>1, <2>1, InTail
  <2>3. input' \in Seq(Token) /\ Range(input') = Range(input) \cup {Head(wire)}
    BY <1>1, <2>1, <2>2, InAppend
  <2> QED
    BY <1>1, <1>4, <2>2, <2>3 DEF Arrive
<1> QED
  BY <1>2, <1>3, <1>4 DEF Clears

LEMMA WaitsKeep ==
  ASSUME TypeOK, Waits
  PROVE  LineKept /\ Range(input') \subseteq Range(input) /\ UNCHANGED <<tries, commands, wire, arrived>> /\ phase = "wait"
<1> USE DEF LineKept, Coming
<1>1. wire \in Seq(Token) /\ input \in Seq(Token) /\ commands \in Seq(Command)
  BY DEF TypeOK
<1>2. UNCHANGED <<requestVars, tries, commands, wire, echoing, ghostVars>> /\ phase = "wait"
  BY DEF Waits, StripPrompt, TakeLine, AcceptEcho, TakeText, TakePrompt, TakeBlock, BlockRefused,
         NearlyOver, Timeout, clientVars, lineVars
<1>3. input' \in Seq(Token) /\ Range(input') \subseteq Range(input)
  <2>1. CASE StripPrompt \/ TakeLine \/ TakeText \/ TakePrompt
    <3>1. input # <<>> /\ input' = Tail(input)
      BY <2>1 DEF StripPrompt, TakeLine, TakeText, TakePrompt
    <3> QED
      BY <1>1, <3>1, InTail
  <2>2. CASE TakeBlock
    <3>1. PICK i \in 1..Len(input) : input' = SubSeq(input, i + 1, Len(input))
      BY <2>2 DEF TakeBlock
    <3>2. i \in 0..Len(input)
      BY <1>1
    <3> QED
      BY <1>1, <3>1, <3>2, InRest
  <2>3. CASE AcceptEcho \/ BlockRefused \/ NearlyOver \/ Timeout
    BY <1>1, <2>3 DEF AcceptEcho, BlockRefused, NearlyOver, Timeout, lineVars
  <2> QED
    BY <2>1, <2>2, <2>3 DEF Waits
<1> QED
  BY <1>1, <1>2, <1>3 DEF ghostVars

\* How each of them leaves the wait, if it does.
LEMMA WaitsLeave ==
  ASSUME TypeOK, TriesFit, Waits
  PROVE  \/ UNCHANGED <<phase, held, outcome, by>>
         \/ UNCHANGED <<phase, outcome, by>> /\ held' \in Range(input) /\ IsText(held')
         \/ MayRetry /\ phase' = "drain" /\ tries <= Retries + 1 /\ UNCHANGED <<held, outcome, by>>
         \/ Ends /\ by' = Nothing /\ outcome' = "failed"
         \/ Ends /\ by' \in Range(input) \cup {held} /\ outcome' = IF by'.tok = "error" THEN "refused" ELSE "answered"
<1>1. input \in Seq(Token) /\ held \in Token /\ \A t \in Range(input) : t \in Token
  BY DEF TypeOK, Range
<1>2. input # <<>> => Head(input) \in Range(input)
  BY <1>1, InTail
<1>3. \A i \in 1..Len(input) : input[i] \in Range(input)
  BY <1>1 DEF Range
<1>4. CASE StripPrompt
  BY <1>4 DEF StripPrompt, clientVars
<1>5. CASE TakeLine
  BY <1>1, <1>2, <1>5 DEF TakeLine, Reply, End, Ends
<1>6. CASE AcceptEcho
  BY <1>1, <1>6 DEF AcceptEcho, Reply, End, Ends
<1>7. CASE TakeText
  BY <1>1, <1>2, <1>7 DEF TakeText
<1>8. CASE TakePrompt
  BY <1>1, <1>2, <1>8 DEF TakePrompt, Reply, End, Ends
<1>9. CASE TakeBlock
  <2>1. PICK i \in 1..Len(input) : Reply(input[i]) \/ AttemptFails
    BY <1>9 DEF TakeBlock
  <2> QED
    BY <1>1, <1>3, <2>1, AttemptEnds DEF Reply, End, Ends
<1>10. CASE BlockRefused
  BY <1>1, <1>3, <1>10 DEF BlockRefused, Reply, End, Ends
<1>11. CASE Timeout
  BY <1>11, AttemptEnds DEF Timeout
<1>12. CASE NearlyOver
  BY <1>12 DEF NearlyOver
<1> QED
  BY <1>4, <1>5, <1>6, <1>7, <1>8, <1>9, <1>10, <1>11, <1>12 DEF Waits

\* What the logger may send in answer to a command.
Sent(c, toks) == {Answer(c, tok) : tok \in toks \cup {"prompt"}}

LEMMA SentTyped ==
  ASSUME NEW c \in Command, NEW toks \in SUBSET Toks
  PROVE  /\ Sent(c, toks) \subseteq Token
         /\ \A t \in Sent(c, toks) : t.req = c.req /\ t.tok \in toks \cup {"prompt"}
<1>1. MaxRequests \in Nat
  BY LinkAssumption
<1>2. \A tok \in toks \cup {"prompt"} : Answer(c, tok) \in Token
  BY <1>1 DEF Answer, Token, Toks, Command
<1>3. \A tok \in toks \cup {"prompt"} : Answer(c, tok).req = c.req /\ Answer(c, tok).tok = tok
  BY DEF Answer
<1> QED
  BY <1>2, <1>3 DEF Sent

LEMMA LoggerSends ==
  ASSUME TypeOK, Obeys \/ Refuses
  PROVE  /\ Head(commands) \in Command /\ commands # <<>> /\ commands' = Tail(commands)
         /\ commands' \in Seq(Command) /\ Range(commands) = {Head(commands)} \cup Range(commands')
         /\ wire' \in Seq(Token)
         /\ Range(wire') \subseteq Range(wire) \cup Sent(Head(commands), IF Obeys THEN Answers(Head(commands)) ELSE {"error"})
         /\ UNCHANGED <<requestVars, clientVars, input, echoing, clean, arrived>>
<1> DEFINE c == Head(commands)
<1>1. commands \in Seq(Command) /\ wire \in Seq(Token) /\ commands # <<>> /\ commands' = Tail(commands)
  BY DEF TypeOK, Obeys, Refuses
<1>2. c \in Command /\ commands' \in Seq(Command) /\ Range(commands) = {c} \cup Range(commands')
  BY <1>1, InTail
<1>3. UNCHANGED <<requestVars, clientVars, input, echoing, clean, arrived>>
  BY DEF Obeys, Refuses, ghostVars
<1>4. Answers(c) \in SUBSET Toks /\ {"error"} \in SUBSET Toks
  BY DEF Answers, Toks
<1> HIDE DEF c
<1>5. ASSUME NEW toks \in SUBSET Toks, NEW tok \in toks, wire' = wire \o <<Answer(c, tok), Ready(c)>>
      PROVE  wire' \in Seq(Token) /\ Range(wire') \subseteq Range(wire) \cup Sent(c, toks)
  <2>1. Answer(c, tok) \in Sent(c, toks) /\ Ready(c) \in Sent(c, toks)
    BY DEF Sent, Ready
  <2>2. Answer(c, tok) \in Token /\ Ready(c) \in Token
    BY <1>2, <2>1, SentTyped
  <2>3. wire' \in Seq(Token) /\ Range(wire') = Range(wire) \cup {Answer(c, tok), Ready(c)}
    BY <1>1, <1>5, <2>2, InPair
  <2> QED
    BY <2>1, <2>3
<1>6. ASSUME NEW toks \in SUBSET Toks, wire' = Append(wire, Ready(c)) \/ wire' = wire \o <<Ready(c)>>
      PROVE  wire' \in Seq(Token) /\ Range(wire') \subseteq Range(wire) \cup Sent(c, toks)
  <2>1. Ready(c) \in Sent(c, toks)
    BY DEF Sent, Ready
  <2>2. Ready(c) \in Token
    BY <1>2, <2>1, SentTyped
  <2>3. wire' \in Seq(Token) /\ Range(wire') = Range(wire) \cup {Ready(c)}
    <3>1. CASE wire' = Append(wire, Ready(c))
      BY <1>1, <2>2, <3>1, InAppend
    <3>2. CASE wire' = wire \o <<Ready(c)>>
      BY <1>1, <2>2, <3>2, InOne
    <3> QED
      BY <1>6, <3>1, <3>2
  <2> QED
    BY <2>1, <2>3
<1>7. CASE Obeys
  <2>1. \/ wire' = wire
        \/ wire' = Append(wire, Ready(c)) \/ wire' = wire \o <<Ready(c)>>
        \/ \E tok \in Answers(c) : wire' = wire \o <<Answer(c, tok), Ready(c)>>
    BY <1>7 DEF Obeys, c
  <2>2. wire' \in Seq(Token) /\ Range(wire') \subseteq Range(wire) \cup Sent(c, Answers(c))
    BY <1>1, <1>4, <1>5, <1>6, <2>1
  <2> QED
    BY <1>1, <1>2, <1>3, <1>7, <2>2 DEF c
<1>8. CASE ~Obeys
  <2>1. wire' = wire \o <<Answer(c, "error"), Ready(c)>>
    BY <1>8 DEF Refuses, c
  <2>2. wire' \in Seq(Token) /\ Range(wire') \subseteq Range(wire) \cup Sent(c, {"error"})
    BY <1>4, <1>5, <2>1
  <2> QED
    BY <1>1, <1>2, <1>3, <1>8, <2>2 DEF c
<1> QED
  BY <1>7, <1>8

Requested == \E k \in Kinds, p \in Places \cup {NoPlace} : (k \in BlockKinds <=> p # NoPlace) /\ Request(k, p)

LEMMA StepByKind ==
  ASSUME Next
  PROVE  Requested \/ Send \/ Waits \/ Clears \/ Obeys \/ Refuses
<1>1. CASE \E k \in Kinds \ BlockKinds : Request(k, NoPlace)
  BY <1>1 DEF Requested
<1>2. CASE \E k \in BlockKinds, p \in Places : Request(k, p)
  BY <1>2, LinkAssumption DEF Requested, BlockKinds, Kinds, NoPlace
<1> QED
  BY <1>1, <1>2 DEF Next, Client, Waits, Clears

LEMMA LateTyped ==
  ASSUME TypeOK, Next
  PROVE  late' \in BOOLEAN
<1>1. CASE Requested \/ Send
  BY <1>1 DEF Requested, Request, Send, TypeOK
<1>2. CASE Waits
  BY <1>2 DEF Waits, StripPrompt, TakeLine, AcceptEcho, TakeText, TakePrompt, TakeBlock, BlockRefused, NearlyOver, Timeout,
              clientVars, TypeOK
<1>3. CASE Clears \/ Obeys \/ Refuses
  BY <1>3 DEF Clears, Drain, Wake, LoseCommand, Arrive, Obeys, Refuses, clientVars, TypeOK
<1> QED
  BY <1>1, <1>2, <1>3, StepByKind

LEMMA TypeStep ==
  ASSUME TypeOK, TriesFit, Next
  PROVE  TypeOK' /\ TriesFit'
<1>0. late' \in BOOLEAN
  BY LateTyped
<1>1. CASE Requested
  BY <1>1, TypeOfRequest DEF Requested
<1>2. CASE Send
  BY <1>2, TypeOfSend
<1>3. CASE Waits
  <2>1. LineKept /\ UNCHANGED <<tries, arrived>>
    BY <1>3, WaitsKeep
  <2>2. held' \in Token /\ by' \in Token /\ outcome' \in {"none", "answered", "refused", "failed"}
    <3>1. Nothing \in Token /\ \A t \in Range(input) : t \in Token
      BY TokensTyped
    <3> QED
      BY <1>3, <3>1, WaitsLeave DEF TypeOK, Ends
  <2>3. phase' \in {"idle", "send", "wait", "drain"} /\ (phase' = "idle" <=> outcome' # "none")
        /\ (phase' \in {"send", "drain"} => tries <= Retries + 1)
    BY <1>3, WaitsLeave, WaitsKeep DEF TypeOK, Ends
  <2>4. req' # 0
    BY <1>3, WaitsKeep DEF LineKept, TriesFit, requestVars
  <2> QED
    BY <1>0, <2>1, <2>2, <2>3, <2>4 DEF TypeOK, TriesFit, LineKept, requestVars
<1>4. CASE Clears
  <2>1. LineKept
    BY <1>4, ClearsKeep
  <2>2. UNCHANGED <<tries, held, outcome, by>> /\ (phase' = phase \/ (phase = "drain" /\ phase' = "send"))
    <3>1. CASE Drain
      BY <3>1 DEF Drain
    <3>2. CASE Wake \/ LoseCommand \/ Arrive
      BY <3>2 DEF Wake, LoseCommand, Arrive, clientVars
    <3> QED
      BY <1>4, <3>1, <3>2 DEF Clears
  <2>3. arrived' \in BOOLEAN
    BY <1>4 DEF Clears, Drain, Wake, LoseCommand, Arrive, ghostVars, TypeOK
  <2> QED
    BY <1>0, <2>1, <2>2, <2>3 DEF TypeOK, TriesFit, LineKept, requestVars
<1>5. CASE Obeys \/ Refuses
  <2>1. obeyed' \in Nat
    BY <1>5 DEF Obeys, Refuses, ghostVars, TypeOK
  <2> QED
    BY <1>5, <2>1, LoggerSends DEF TypeOK, TriesFit, requestVars, clientVars
<1> QED
  BY <1>1, <1>2, <1>3, <1>4, <1>5, StepByKind

-----------------------------------------------------------------------------
(* Whose the tokens are.                                                   *)

\* Nothing on the line is of a request to come, and a command of this request is what is asked for.
Fresh ==
  /\ \A t \in Coming : t.req <= req
  /\ \A c \in Range(commands) : c.req <= req /\ (c.req = req => c.kind = kind)

\* What each step brings.
LEMMA SendBrings ==
  ASSUME TypeOK, TriesFit, Send
  PROVE  /\ Coming' \subseteq Coming \cup {Echo}
         /\ kind \notin BlockKinds => Coming' \subseteq Range(wire) \cup {Echo}
         /\ Range(wire') \subseteq Range(wire) \cup {Echo}
         /\ Range(commands') = Range(commands) \cup {[req |-> req, kind |-> kind, place |-> place]}
         /\ UNCHANGED <<requestVars, outcome, by, echoing, obeyed>> /\ phase' = "wait" /\ held' = Nothing
<1>1. Echo \in Token /\ [req |-> req, kind |-> kind, place |-> place] \in Command
  BY LinkAssumption DEF Echo, Token, Toks, Command, TypeOK, TriesFit, Send
<1>2. Range(wire') \subseteq Range(wire) \cup {Echo}
  BY <1>1, InAppend DEF Send, TypeOK
<1>3. Range(commands') = Range(commands) \cup {[req |-> req, kind |-> kind, place |-> place]}
  BY <1>1, InAppend DEF Send, TypeOK
<1>4. Range(input') \subseteq Range(input) /\ (kind \notin BlockKinds => input' = <<>>)
  BY TypeOfSend
<1>5. Range(<<>>) = {}
  BY InNothing
<1>6. UNCHANGED <<requestVars, outcome, by, echoing, obeyed>> /\ phase' = "wait" /\ held' = Nothing
  BY DEF Send
<1> QED
  BY <1>2, <1>3, <1>4, <1>5, <1>6 DEF Coming

LEMMA LoggerBrings ==
  ASSUME TypeOK, Fresh, Obeys \/ Refuses
  PROVE  /\ Coming' \subseteq Coming \cup Sent(Head(commands), IF Obeys THEN Answers(Head(commands)) ELSE {"error"})
         /\ Head(commands) \in Range(commands) /\ Head(commands) \in Command
         /\ \A t \in Coming' \ Coming : t.req = Head(commands).req
         /\ Range(commands') \subseteq Range(commands)
         /\ UNCHANGED <<requestVars, clientVars, input, echoing, clean, arrived>>
<1> DEFINE c == Head(commands)
           toks == IF Obeys THEN Answers(c) ELSE {"error"}
<1>1. Coming' \subseteq Coming \cup Sent(c, toks) /\ c \in Range(commands) /\ c \in Command /\ Range(commands') \subseteq Range(commands)
      /\ UNCHANGED <<requestVars, clientVars, input, echoing, clean, arrived>>
  BY LoggerSends DEF Coming
<1>2. toks \in SUBSET Toks
  BY DEF Answers, Toks
<1>3. \A t \in Sent(c, toks) : t.req = c.req
  <2> HIDE DEF c, toks
  <2> QED
    BY <1>1, <1>2, SentTyped
<1> QED
  BY <1>1, <1>3

LEMMA RequestBrings ==
  ASSUME TypeOK, Requested
  PROVE  /\ UNCHANGED <<held, lineVars, Coming, arrived>> /\ phase = "idle" /\ phase' = "send" /\ req' = req + 1
         /\ outcome' = "none" /\ obeyed' = 0 /\ tries' = 0 /\ clean'
BY DEF Requested, Request, lineVars, Coming

LEMMA FreshStep ==
  ASSUME TypeOK, TriesFit, Fresh, Next
  PROVE  Fresh'
<1>1. req \in Nat
  BY LinkAssumption DEF TypeOK
<1>2. CASE Requested
  <2>1. UNCHANGED <<Coming, commands>> /\ req' = req + 1
    BY <1>2, RequestBrings DEF lineVars
  <2>2. \A t \in Coming : t.req \in Nat
    <3>1. \A t \in Coming : t \in Token
      BY TokensTyped DEF Coming
    <3> QED
      BY <3>1, LinkAssumption DEF Token
  <2>3. \A c \in Range(commands) : c.req \in Nat
    <3>1. commands \in Seq(Command)
      BY DEF TypeOK
    <3>2. \A c \in Range(commands) : c \in Command
      BY <3>1 DEF Range
    <3> QED
      BY <3>2, LinkAssumption DEF Command
  <2> QED
    BY <1>1, <2>1, <2>2, <2>3 DEF Fresh
<1>3. CASE Send
  <2>1. UNCHANGED <<req, kind>>
    BY <1>3, SendBrings DEF requestVars
  <2>2. Coming' \subseteq Coming \cup {Echo} /\ Echo.req = req
    BY <1>3, SendBrings DEF Echo
  <2>3. Range(commands') = Range(commands) \cup {[req |-> req, kind |-> kind, place |-> place]}
    BY <1>3, SendBrings
  <2> QED
    BY <1>1, <2>1, <2>2, <2>3 DEF Fresh
<1>4. CASE Waits \/ Clears
  <2>1. LineKept
    BY <1>4, WaitsKeep, ClearsKeep
  <2> QED
    BY <2>1 DEF LineKept, Fresh, requestVars
<1>5. CASE Obeys \/ Refuses
  BY <1>5, LoggerBrings DEF Fresh, requestVars
<1> QED
  BY <1>2, <1>3, <1>4, <1>5, StepByKind

\* If nothing older was to come when the request was sent, nothing older comes.
OwnFit ==
  clean =>
    /\ phase = "wait" => /\ \A t \in Coming : ~Disturbing(t)
                         /\ \A c \in Range(commands) : c.req = req
                         /\ held = Nothing \/ (held.req = req /\ IsText(held))
    /\ outcome \in {"answered", "refused"} => by.req = req

LEMMA OwnStep ==
  ASSUME TypeOK, TriesFit, Fresh, OwnFit, Next
  PROVE  OwnFit'
<1>1. CASE Requested
  BY <1>1, RequestBrings DEF OwnFit
<1>2. CASE Send
  <2> SUFFICES ASSUME clean' PROVE OwnFit'
    BY DEF OwnFit
  <2>1. UNCHANGED <<requestVars, outcome, by>> /\ held' = Nothing /\ phase' = "wait"
    BY <1>2, SendBrings
  <2>2. outcome = "none"
    BY <1>2 DEF Send, TypeOK
  <2>3. Undisturbed(IF kind \in BlockKinds THEN input' ELSE <<>>)
    BY <1>2 DEF Send
  <2>4. Coming' \subseteq Range(wire) \cup Range(IF kind \in BlockKinds THEN input' ELSE <<>>) \cup {Echo}
    <3>1. CASE kind \in BlockKinds
      BY <1>2, <3>1, SendBrings DEF Coming
    <3>2. CASE kind \notin BlockKinds
      BY <1>2, <3>2, SendBrings
    <3> QED
      BY <3>1, <3>2
  <2>5. \A t \in Coming' : ~Disturbing(t)
    BY <2>3, <2>4 DEF Undisturbed, Disturbing, Echo
  <2>6. \A c \in Range(commands') : c.req = req
    BY <1>2, <2>3, SendBrings DEF Undisturbed
  <2> QED
    BY <2>1, <2>2, <2>5, <2>6 DEF OwnFit, Disturbing, requestVars
<1>3. CASE Waits
  <2> SUFFICES ASSUME clean' PROVE OwnFit'
    BY DEF OwnFit
  <2>1. LineKept /\ phase = "wait" /\ Range(input') \subseteq Range(input) /\ commands' = commands
    BY <1>3, WaitsKeep
  <2>2. /\ \A t \in Coming : ~Disturbing(t)
        /\ \A c \in Range(commands) : c.req = req
        /\ held = Nothing \/ (held.req = req /\ IsText(held))
        /\ outcome = "none"
    BY <2>1 DEF OwnFit, LineKept, TypeOK
  <2>3. (\A t \in Coming' : ~Disturbing(t)') /\ \A c \in Range(commands') : c.req = req'
    BY <2>1, <2>2 DEF LineKept, Disturbing, requestVars
  <2>4. held' = Nothing \/ (held'.req = req' /\ IsText(held'))
    BY <1>3, <2>1, <2>2, WaitsLeave DEF Coming, Disturbing, LineKept, requestVars, Ends, IsText
  <2>5. outcome' \in {"answered", "refused"} => by'.req = req
    <3>1. CASE StripPrompt \/ NearlyOver \/ Timeout
      BY <2>2, <3>1, AttemptEnds DEF StripPrompt, NearlyOver, Timeout, clientVars
    <3>2. CASE TakeLine
      <4>1. Head(input) \in Coming /\ IsText(Head(input))
        BY <3>2, InTail DEF TakeLine, Coming, TypeOK
      <4> QED
        BY <2>2, <3>2, <4>1 DEF TakeLine, Reply, End, Disturbing
    <3>3. CASE AcceptEcho
      BY <2>2, <3>3 DEF AcceptEcho, Reply, End
    <3>4. CASE TakeText
      BY <2>2, <3>4 DEF TakeText
    <3>5. CASE TakePrompt
      <4>1. Head(input) \in Coming /\ kind = "prompt"
        BY <3>5, InTail DEF TakePrompt, Coming, TypeOK
      <4>2. held.tok = "error" => held # Nothing
        BY DEF Nothing
      <4> QED
        BY <2>2, <3>5, <4>1, <4>2 DEF TakePrompt, Reply, End, Disturbing
    <3>6. CASE TakeBlock
      <4>1. PICK i \in 1..Len(input) : /\ FirstBlock(i)
                                      /\ (Reply(input[i]) \/ AttemptFails)
        BY <3>6 DEF TakeBlock
      <4>2. input[i] \in Coming /\ IsText(input[i])
        BY <4>1 DEF FirstBlock, IsBlock, IsText, Coming, Range, TypeOK
      <4>3. CASE Reply(input[i])
        BY <2>2, <4>2, <4>3 DEF Reply, End, Disturbing
      <4>4. CASE AttemptFails
        BY <2>2, <4>4 DEF AttemptFails, End
      <4> QED
        BY <4>1, <4>3, <4>4
    <3>7. CASE BlockRefused
      <4>1. PICK i \in 1..Len(input) : input[i].tok = "error" /\ Reply(input[i])
        BY <3>7 DEF BlockRefused
      <4>2. input[i] \in Coming /\ IsText(input[i])
        BY <4>1 DEF IsText, Coming, Range, TypeOK
      <4> QED
        BY <2>2, <4>1, <4>2 DEF Reply, End, Disturbing
    <3> QED
      BY <1>3, <3>1, <3>2, <3>3, <3>4, <3>5, <3>6, <3>7 DEF Waits
  <2> QED
    BY <2>1, <2>3, <2>4, <2>5 DEF OwnFit, LineKept, requestVars
<1>4. CASE Clears
  <2>1. LineKept
    BY <1>4, ClearsKeep
  <2>2. UNCHANGED <<held, outcome, by>> /\ (phase' = phase \/ phase' = "send")
    <3>1. CASE Drain
      BY <3>1 DEF Drain
    <3>2. CASE Wake \/ LoseCommand \/ Arrive
      BY <3>2 DEF Wake, LoseCommand, Arrive, clientVars
    <3> QED
      BY <1>4, <3>1, <3>2 DEF Clears
  <2> QED
    BY <2>1, <2>2 DEF OwnFit, LineKept, requestVars, Disturbing
<1>5. CASE Obeys \/ Refuses
  <2>1. Head(commands) \in Range(commands) /\ \A t \in Coming' \ Coming : t.req = Head(commands).req
    BY <1>5, LoggerBrings
  <2>2. UNCHANGED <<requestVars, phase, held, outcome, by, clean>> /\ Range(commands') \subseteq Range(commands)
    BY <1>5, LoggerBrings DEF clientVars
  <2> QED
    BY <2>1, <2>2 DEF OwnFit, Disturbing, requestVars
<1> QED
  BY <1>1, <1>2, <1>3, <1>4, <1>5, StepByKind

-----------------------------------------------------------------------------
(* A reply that has come is used, and a block is the one asked for.        *)

ArrivedFit ==
  kind \in LineKinds /\ arrived =>
    /\ phase = "wait" => ~late /\ (held # Nothing \/ \E t \in Range(input) : IsText(t))
    /\ outcome # "failed"

LEMMA ArrivedStep ==
  ASSUME TypeOK, TriesFit, ArrivedFit, Next
  PROVE  ArrivedFit'
<1>1. CASE Requested
  BY <1>1, RequestBrings DEF ArrivedFit
<1>2. CASE Send
  BY <1>2 DEF Send, ArrivedFit
<1>3. CASE Waits
  <2> SUFFICES ASSUME kind \in LineKinds, arrived PROVE ArrivedFit'
    BY <1>3, WaitsKeep DEF ArrivedFit, LineKept, requestVars
  <2>1. phase = "wait" /\ outcome = "none" /\ ~late /\ (held # Nothing \/ \E t \in Range(input) : IsText(t))
    BY <1>3, WaitsKeep DEF ArrivedFit, TypeOK
  <2>2. CASE StripPrompt
    <3>1. input \in Seq(Token) /\ input # <<>> /\ input' = Tail(input) /\ ~IsText(Head(input))
      BY <2>2 DEF StripPrompt, TypeOK
    <3>2. Range(input) = {Head(input)} \cup Range(input')
      BY <3>1, InTail
    <3>3. UNCHANGED <<phase, held, late, outcome>>
      BY <2>2 DEF StripPrompt, clientVars
    <3> QED
      BY <2>1, <3>1, <3>2, <3>3 DEF ArrivedFit
  <2>3. CASE TakeLine
    BY <2>1, <2>3 DEF TakeLine, Reply, End, ArrivedFit, Nothing, IsText
  <2>4. CASE AcceptEcho
    BY <2>4 DEF AcceptEcho, Reply, End, ArrivedFit
  <2>5. CASE NearlyOver
    <3>1. held = Nothing /\ \A i \in 1..Len(input) : ~IsText(input[i])
      BY <2>5 DEF NearlyOver, Unanswered, LineKinds
    <3>2. \A t \in Range(input) : ~IsText(t)
      BY <3>1 DEF Range, TypeOK
    <3> QED
      BY <2>1, <3>1, <3>2
  <2>6. CASE Timeout
    BY <2>1, <2>6 DEF Timeout
  <2> QED
    BY <1>3, <2>2, <2>3, <2>4, <2>5, <2>6 DEF Waits, TakeText, TakePrompt, TakeBlock, BlockRefused, LineKinds, BlockKinds
<1>4. CASE Clears
  <2>1. CASE Drain
    BY <2>1 DEF Drain, ArrivedFit, TypeOK
  <2>2. CASE Wake \/ LoseCommand
    BY <2>2 DEF Wake, LoseCommand, ArrivedFit, requestVars, clientVars, ghostVars
  <2>3. CASE Arrive
    <3>1. wire \in Seq(Token) /\ input \in Seq(Token) /\ wire # <<>> /\ input' = Append(input, Head(wire))
      BY <2>3 DEF Arrive, TypeOK
    <3>2. Head(wire) \in Token
      BY <3>1, InTail
    <3>3. Range(input') = Range(input) \cup {Head(wire)}
      BY <3>1, <3>2, InAppend
    <3>4. UNCHANGED <<kind, phase, held, late, outcome>>
      BY <2>3 DEF Arrive, requestVars, clientVars
    <3>5. arrived' => arrived \/ (phase = "wait" /\ ~late /\ IsText(Head(wire)))
      BY <2>3 DEF Arrive, IsText
    <3> QED
      BY <3>3, <3>4, <3>5 DEF ArrivedFit, TypeOK
  <2> QED
    BY <1>4, <2>1, <2>2, <2>3 DEF Clears
<1>5. CASE Obeys \/ Refuses
  BY <1>5, LoggerSends DEF ArrivedFit, requestVars, clientVars
<1> QED
  BY <1>1, <1>2, <1>3, <1>4, <1>5, StepByKind

LEMMA BlockStep ==
  ASSUME TypeOK, TriesFit, BlockIsOwn, Next
  PROVE  BlockIsOwn'
<1>1. CASE Requested
  BY <1>1, RequestBrings DEF BlockIsOwn
<1>2. CASE Send
  BY <1>2 DEF Send, BlockIsOwn, requestVars
<1>3. CASE Waits
  <2> SUFFICES ASSUME kind \in BlockKinds PROVE BlockIsOwn'
    BY <1>3, WaitsKeep DEF BlockIsOwn, LineKept, requestVars
  <2>1. UNCHANGED requestVars /\ outcome # "answered"
    BY <1>3, WaitsKeep DEF LineKept, TypeOK
  <2>2. CASE TakeBlock
    <3>1. PICK i \in 1..Len(input) :
             IF (kind = "data" /\ DataAccepted(input[i])) \/ (kind = "object" /\ ObjectAccepted(input[i]))
             THEN Reply(input[i])
             ELSE AttemptFails
      BY <2>2 DEF TakeBlock
    <3>2. CASE Reply(input[i]) /\ input[i].place = place /\ input[i].tok = "block"
      BY <2>1, <3>2 DEF Reply, End, BlockIsOwn, requestVars
    <3>3. CASE AttemptFails
      BY <2>1, <3>3 DEF AttemptFails, End, BlockIsOwn
    <3> QED
      BY <3>1, <3>2, <3>3 DEF DataAccepted, ObjectAccepted
  <2>3. CASE BlockRefused
    BY <2>3 DEF BlockRefused, Reply, End, BlockIsOwn
  <2>4. CASE NearlyOver \/ Timeout
    BY <2>1, <2>4 DEF NearlyOver, Timeout, AttemptFails, End, BlockIsOwn
  <2> QED
    BY <1>3, <2>2, <2>3, <2>4 DEF Waits, StripPrompt, TakeLine, AcceptEcho, TakeText, TakePrompt, LineKinds, BlockKinds
<1>4. CASE Clears
  <2>1. UNCHANGED <<kind, place, outcome, by>>
    <3>1. CASE Drain
      BY <3>1 DEF Drain, requestVars
    <3>2. CASE Wake \/ LoseCommand \/ Arrive
      BY <3>2 DEF Wake, LoseCommand, Arrive, requestVars, clientVars
    <3> QED
      BY <1>4, <3>1, <3>2 DEF Clears
  <2> QED
    BY <2>1 DEF BlockIsOwn
<1>5. CASE Obeys \/ Refuses
  BY <1>5, LoggerSends DEF BlockIsOwn, requestVars, clientVars
<1> QED
  BY <1>1, <1>2, <1>3, <1>4, <1>5, StepByKind

-----------------------------------------------------------------------------
(* A write is carried out once.                                            *)

OnceFit ==
  kind \in {"write", "prompt"} =>
    /\ phase # "drain"
    /\ phase = "send" => /\ obeyed = 0
                         /\ \A c \in Range(commands) : c.req # req
                         /\ \A t \in Coming : t.req # req
    /\ obeyed \in {0, 1}
    /\ obeyed = 1 => \A c \in Range(commands) : c.req # req
    /\ \A i \in 1..(Len(commands) - 1) : commands[i].req # req

LEMMA OnceStep ==
  ASSUME TypeOK, TriesFit, Fresh, OnceFit, Next
  PROVE  OnceFit'
<1>0. req \in Nat /\ commands \in Seq(Command) /\ \A i \in 1..Len(commands) : commands[i] \in Range(commands)
  BY LinkAssumption DEF TypeOK, Range
<1>1. CASE Requested
  <2>1. phase' = "send" /\ req' = req + 1 /\ obeyed' = 0 /\ UNCHANGED <<commands, Coming>>
    BY <1>1, RequestBrings DEF lineVars
  <2>2. \A c \in Range(commands) : c.req # req'
    BY <1>0, <2>1 DEF Fresh
  <2>3. \A t \in Coming : t.req # req'
    BY <1>0, <2>1 DEF Fresh
  <2>4. \A i \in 1..(Len(commands) - 1) : commands[i].req # req'
    BY <1>0, <2>2
  <2> QED
    BY <2>1, <2>2, <2>3, <2>4 DEF OnceFit
<1>2. CASE Send
  <2> SUFFICES ASSUME kind \in {"write", "prompt"} PROVE OnceFit'
    BY <1>2, SendBrings DEF OnceFit, requestVars
  <2>1. phase = "send" /\ phase' = "wait" /\ UNCHANGED <<kind, req, obeyed>>
        /\ commands' = Append(commands, [req |-> req, kind |-> kind, place |-> place])
    BY <1>2 DEF Send, requestVars
  <2>2. obeyed = 0 /\ \A c \in Range(commands) : c.req # req
    BY <2>1 DEF OnceFit
  <2>3. \A i \in 1..(Len(commands') - 1) : i \in 1..Len(commands) /\ commands'[i] = commands[i]
    BY <1>0, <2>1
  <2>4. \A i \in 1..(Len(commands') - 1) : commands'[i].req # req
    BY <1>0, <2>2, <2>3
  <2> QED
    BY <2>1, <2>2, <2>4 DEF OnceFit
<1>3. CASE Waits
  <2>1. LineKept /\ phase = "wait" /\ commands' = commands
    BY <1>3, WaitsKeep
  <2>2. phase' \in {"wait", "idle"} \/ (MayRetry /\ phase' = "drain")
    BY <1>3, <2>1, WaitsLeave DEF Ends
  <2>3. kind \in {"write", "prompt"} => ~MayRetry
    BY DEF MayRetry, BlockKinds
  <2> QED
    BY <2>1, <2>2, <2>3 DEF OnceFit, LineKept, requestVars
<1>4. CASE Clears
  <2> SUFFICES ASSUME kind \in {"write", "prompt"} PROVE OnceFit'
    BY <1>4, ClearsKeep DEF OnceFit, LineKept, requestVars
  <2>1. LineKept
    BY <1>4, ClearsKeep
  <2>2. ~Drain /\ phase' = phase
    <3>1. ~Drain
      BY DEF OnceFit, Drain
    <3>2. CASE Wake \/ LoseCommand \/ Arrive
      BY <3>1, <3>2 DEF Wake, LoseCommand, Arrive, clientVars
    <3> QED
      BY <1>4, <3>1, <3>2 DEF Clears
  <2>3. \A i \in 1..(Len(commands') - 1) : commands'[i].req # req
    <3>1. CASE commands' = commands
      BY <3>1 DEF OnceFit
    <3>2. CASE LoseCommand
      <4>1. commands # <<>> /\ commands' = Tail(commands)
        BY <3>2 DEF LoseCommand
      <4>2. \A i \in 1..(Len(commands') - 1) : i + 1 \in 1..(Len(commands) - 1) /\ commands'[i] = commands[i + 1]
        BY <1>0, <4>1
      <4> QED
        BY <4>2 DEF OnceFit
    <3> QED
      BY <1>4, <2>2, <3>1, <3>2 DEF Clears, Wake, Arrive
  <2> QED
    BY <2>1, <2>2, <2>3 DEF OnceFit, LineKept, requestVars
<1>5. CASE Obeys \/ Refuses
  <2> SUFFICES ASSUME kind \in {"write", "prompt"} PROVE OnceFit'
    BY <1>5, LoggerSends DEF OnceFit, requestVars
  <2> DEFINE c == Head(commands)
  <2>1. commands # <<>> /\ commands' = Tail(commands) /\ c = commands[1] /\ c \in Range(commands)
        /\ UNCHANGED <<req, kind, phase>> /\ Range(commands') \subseteq Range(commands)
    BY <1>0, <1>5, LoggerSends, LoggerBrings DEF requestVars, clientVars
  <2>2. \A i \in 1..(Len(commands') - 1) : i + 1 \in 1..(Len(commands) - 1) /\ commands'[i] = commands[i + 1]
    BY <1>0, <2>1
  <2>3. \A i \in 1..(Len(commands') - 1) : commands'[i].req # req
    BY <2>2 DEF OnceFit
  <2>4. \A t \in Coming' \ Coming : t.req = c.req
    BY <1>5, LoggerBrings
  <2> HIDE DEF c
  <2>5. CASE c.req # req
    <3>1. obeyed' = obeyed
      BY <1>5, <2>5 DEF Obeys, Refuses, ghostVars, c
    <3> QED
      BY <2>1, <2>3, <2>4, <2>5, <3>1 DEF OnceFit
  <2>6. CASE c.req = req
    <3>1. 1 \notin 1..(Len(commands) - 1)
      BY <2>1, <2>6 DEF OnceFit
    <3>2. commands' = <<>>
      <4>1. Len(commands) = 1
        BY <1>0, <2>1, <3>1
      <4> QED
        BY <1>0, <2>1, <4>1
    <3>3. obeyed = 0 /\ phase # "send"
      BY <2>1, <2>6 DEF OnceFit
    <3>4. obeyed' \in {0, 1}
      BY <1>5, <3>3 DEF Obeys, Refuses, ghostVars
    <3>5. Range(commands') = {} /\ Len(commands') = 0
      BY <3>2, InNothing
    <3> QED
      BY <2>1, <2>3, <3>3, <3>4, <3>5 DEF OnceFit
  <2> QED
    BY <2>5, <2>6
<1> QED
  BY <1>1, <1>2, <1>3, <1>4, <1>5, StepByKind

\* An answer of the logger to a write, that is not a refusal, comes of its obeying.
WriteFit ==
  kind = "write" =>
    /\ \A t \in Coming : t.req = req /\ t.tok \notin {"prompt", "error", "echo"} => obeyed = 1
    /\ phase = "wait" => (held.req = req /\ held.tok \notin {"prompt", "error", "echo"} => obeyed = 1)
    /\ outcome = "answered" /\ clean /\ by.tok # "echo" => obeyed = 1

LEMMA WriteStep ==
  ASSUME TypeOK, TriesFit, Fresh, OwnFit, OwnFit', OnceFit, OnceFit', WriteFit, Next
  PROVE  WriteFit'
<1>1. CASE Requested
  <2>1. req \in Nat /\ req' = req + 1 /\ phase' = "send" /\ outcome' = "none" /\ Coming' = Coming
    BY <1>1, RequestBrings, LinkAssumption DEF TypeOK
  <2>2. \A t \in Coming' : t.req # req'
    <3>1. \A t \in Coming : t.req <= req
      BY DEF Fresh
    <3> QED
      BY <2>1, <3>1
  <2> QED
    BY <2>1, <2>2 DEF WriteFit
<1> SUFFICES ASSUME kind = "write", ~Requested PROVE WriteFit'
  <2>1. CASE Requested
    BY <1>1, <2>1
  <2>2. CASE ~Requested
    <3>1. kind' = kind
      BY <2>2, StepByKind, SendBrings, WaitsKeep, ClearsKeep, LoggerSends DEF LineKept, requestVars
    <3> QED
      BY <2>2, <3>1 DEF WriteFit
  <2> QED
    BY <2>1, <2>2
<1>2. CASE Send
  <2>1. UNCHANGED <<req, obeyed, outcome>> /\ Coming' \subseteq Coming \cup {Echo} /\ held' = Nothing
    BY <1>2, SendBrings DEF requestVars
  <2>2. outcome = "none"
    BY <1>2 DEF Send, TypeOK
  <2> QED
    BY <2>1, <2>2 DEF WriteFit, Echo, Nothing
<1>3. CASE Waits
  <2>1. LineKept /\ phase = "wait" /\ Range(input') \subseteq Range(input) /\ UNCHANGED <<req, kind, obeyed, clean>>
    BY <1>3, WaitsKeep DEF LineKept, requestVars
  <2>2. outcome = "none" /\ kind \in LineKinds /\ kind # "prompt" /\ kind \notin BlockKinds
    BY <2>1 DEF TypeOK, LineKinds, BlockKinds
  <2>3. UNCHANGED held \/ held' = Nothing \/ held' \in Range(input)
    BY <1>3, WaitsLeave DEF Ends
  <2>4. \A t \in Coming \cup {held} : t.req = req /\ t.tok \notin {"prompt", "error", "echo"} => obeyed = 1
    BY <2>1 DEF WriteFit
  <2>5. outcome' = "answered" /\ clean' => by'.req = req /\ by' \in Range(input) \cup {held} /\ by'.tok # "error"
    BY <1>3, <2>1, <2>2, WaitsLeave DEF OwnFit
  <2>6. outcome' = "answered" /\ clean' => by'.tok # "prompt"
    <3>1. CASE TakeLine
      BY <2>2, <3>1 DEF TakeLine, Reply, End, IsText
    <3>2. CASE AcceptEcho
      BY <2>1, <3>2 DEF AcceptEcho, Reply, End, IsText, OwnFit
    <3>3. CASE ~TakeLine /\ ~AcceptEcho
      BY <1>3, <2>2, <3>3, AttemptEnds DEF Waits, StripPrompt, TakeText, TakePrompt, TakeBlock, BlockRefused,
               NearlyOver, Timeout, clientVars
    <3> QED
      BY <3>1, <3>2, <3>3
  <2> QED
    BY <2>1, <2>3, <2>4, <2>5, <2>6 DEF WriteFit, LineKept, Coming, Nothing
<1>4. CASE Clears
  <2>1. LineKept
    BY <1>4, ClearsKeep
  <2>2. UNCHANGED <<held, outcome, by>> /\ (phase' = "wait" => phase = "wait")
    <3>1. CASE Drain
      BY <3>1 DEF Drain
    <3>2. CASE Wake \/ LoseCommand \/ Arrive
      BY <3>2 DEF Wake, LoseCommand, Arrive, clientVars
    <3> QED
      BY <1>4, <3>1, <3>2 DEF Clears
  <2> QED
    BY <2>1, <2>2 DEF WriteFit, LineKept, requestVars
<1>5. CASE Obeys \/ Refuses
  <2> DEFINE c == Head(commands)
  <2>1. UNCHANGED <<req, kind, phase, held, outcome, by, clean>> /\ c \in Range(commands) /\ c \in Command
        /\ \A t \in Coming' \ Coming : t.req = c.req
    BY <1>5, LoggerBrings DEF requestVars, clientVars
  <2>2. obeyed = 1 => obeyed' = 1
    BY <1>5, <2>1 DEF Obeys, Refuses, ghostVars, OnceFit
  <2>3. \A t \in Coming' \ Coming : t.req = req /\ t.tok \notin {"prompt", "error", "echo"} => obeyed' = 1
    <3>1. CASE Obeys
      <4>1. c.req = req => obeyed' = obeyed + 1 /\ obeyed \in {0, 1} /\ obeyed' \in {0, 1}
        BY <2>1, <3>1 DEF Obeys, OnceFit
      <4> QED
        BY <2>1, <4>1
    <3>2. CASE ~Obeys
      <4>1. Coming' \subseteq Coming \cup Sent(c, {"error"})
        BY <1>5, <3>2, LoggerBrings
      <4>2. \A t \in Sent(c, {"error"}) : t.tok \in {"error", "prompt"}
        <5> HIDE DEF c
        <5> QED
          BY <2>1, SentTyped DEF Toks
      <4> QED
        BY <4>1, <4>2
    <3> QED
      BY <3>1, <3>2
  <2> QED
    BY <2>1, <2>2, <2>3 DEF WriteFit
<1> QED
  BY <1>2, <1>3, <1>4, <1>5, StepByKind

\* With nothing older to come and no echo, a prompt that the logger sends without obeying comes after an error.
PromptFit ==
  kind = "prompt" /\ clean /\ ~echoing /\ obeyed = 0 =>
    /\ outcome # "answered"
    /\ phase = "wait" =>
         /\ held = Nothing \/ held.tok = "error"
         /\ \A t \in Coming : t.tok \in {"error", "prompt"}
         /\ \A i \in 1..Len(input) : input[i].tok = "prompt" =>
              IF i = 1 THEN held.tok = "error" ELSE input[i - 1].tok = "error"
         /\ \A i \in 1..Len(wire) : wire[i].tok = "prompt" =>
              IF i # 1 THEN wire[i - 1].tok = "error"
              ELSE IF input # <<>> THEN input[Len(input)].tok = "error" ELSE held.tok = "error"

LEMMA PromptOfWait ==
  ASSUME TypeOK, Waits, PromptFit, kind = "prompt", clean, ~echoing, obeyed = 0
  PROVE  PromptFit'
<1>1. input \in Seq(Token) /\ phase = "wait" /\ outcome = "none" /\ wire' = wire
  BY WaitsKeep DEF TypeOK
<1>2. UNCHANGED <<kind, clean, echoing, obeyed>>
  BY WaitsKeep DEF LineKept, requestVars
<1>3. /\ held = Nothing \/ held.tok = "error"
      /\ \A t \in Coming : t.tok \in {"error", "prompt"}
      /\ \A i \in 1..Len(input) : input[i].tok = "prompt" =>
           IF i = 1 THEN held.tok = "error" ELSE input[i - 1].tok = "error"
      /\ \A i \in 1..Len(wire) : wire[i].tok = "prompt" =>
           IF i # 1 THEN wire[i - 1].tok = "error"
           ELSE IF input # <<>> THEN input[Len(input)].tok = "error" ELSE held.tok = "error"
  BY <1>1 DEF PromptFit
<1>4. CASE Timeout
  BY <1>4 DEF Timeout, AttemptFails, MayRetry, BlockKinds, End, PromptFit
<1>7. CASE NearlyOver
  <2>1. UNCHANGED <<phase, held, outcome, input, commands>>
    BY <1>7 DEF NearlyOver, lineVars
  <2> QED
    BY <1>1, <1>2, <1>3, <2>1 DEF PromptFit, Coming
<1>5. CASE TakePrompt
  <2>1. input # <<>> /\ Head(input) \in Coming /\ Head(input) = input[1] /\ ~IsText(Head(input)) /\ 1 \in 1..Len(input)
    BY <1>1, <1>5, InTail DEF TakePrompt, Coming
  <2>2. held.tok = "error"
    BY <1>3, <2>1 DEF IsText
  <2> QED
    BY <1>5, <2>2 DEF TakePrompt, Reply, End, PromptFit
<1>6. CASE TakeText
  <2>1. input # <<>> /\ input' = Tail(input) /\ IsText(Head(input)) /\ UNCHANGED <<phase, outcome>>
        /\ held' = IF held = Nothing THEN Head(input) ELSE held
    BY <1>6 DEF TakeText
  <2>2. Range(input) = {Head(input)} \cup Range(input')
    BY <1>1, <2>1, InTail
  <2>3. Head(input).tok = "error" /\ Head(input) = input[1]
    BY <1>1, <1>3, <2>1, <2>2 DEF Coming, IsText
  <2>4. held'.tok = "error"
    BY <1>3, <2>1, <2>3
  <2>5. Len(input') = Len(input) - 1 /\ Len(input) \in Nat /\ \A i \in 1..Len(input') : input'[i] = input[i + 1] /\ i + 1 \in 1..Len(input)
    BY <1>1, <2>1
  <2>6. \A i \in 1..Len(input') : i # 1 => i - 1 \in 1..Len(input') /\ input'[i - 1] = input[i]
    BY <1>1, <2>1
  <2>7. \A i \in 1..Len(input') : input'[i].tok = "prompt" =>
          IF i = 1 THEN held'.tok = "error" ELSE input'[i - 1].tok = "error"
    <3> SUFFICES ASSUME NEW i \in 1..Len(input'), input'[i].tok = "prompt", i # 1
                 PROVE  input'[i - 1].tok = "error"
      BY <2>4
    <3>1. input[i + 1].tok = "prompt" /\ i + 1 \in 1..Len(input) /\ i + 1 # 1 /\ (i + 1) - 1 = i
      BY <2>5
    <3>2. input[i].tok = "error"
      BY <1>3, <3>1
    <3> QED
      BY <2>6, <3>2
  <2>8. input' # <<>> => input'[Len(input')] = input[Len(input)] /\ input # <<>>
    BY <1>1, <2>1
  <2>9. \A i \in 1..Len(wire') : wire'[i].tok = "prompt" =>
          IF i # 1 THEN wire'[i - 1].tok = "error"
          ELSE IF input' # <<>> THEN input'[Len(input')].tok = "error" ELSE held'.tok = "error"
    BY <1>1, <1>3, <2>4, <2>8
  <2>10. \A t \in Coming' : t.tok \in {"error", "prompt"}
    BY <1>1, <1>3, <2>2 DEF Coming
  <2> QED
    BY <1>1, <2>1, <2>4, <2>7, <2>9, <2>10 DEF PromptFit
<1> QED
  BY <1>4, <1>5, <1>6, <1>7 DEF Waits, StripPrompt, TakeLine, AcceptEcho, TakeBlock, BlockRefused, LineKinds, BlockKinds

LEMMA PromptOfArrive ==
  ASSUME TypeOK, Arrive, PromptFit
  PROVE  PromptFit'
<1>1. UNCHANGED <<kind, clean, echoing, obeyed, phase, held, outcome>>
  BY DEF Arrive, requestVars, clientVars
<1> SUFFICES ASSUME kind = "prompt" /\ clean /\ ~echoing /\ obeyed = 0, phase = "wait"
             PROVE  PromptFit'
  BY <1>1 DEF PromptFit
<1>2. /\ outcome # "answered"
      /\ held = Nothing \/ held.tok = "error"
      /\ \A t \in Coming : t.tok \in {"error", "prompt"}
      /\ \A i \in 1..Len(input) : input[i].tok = "prompt" =>
           IF i = 1 THEN held.tok = "error" ELSE input[i - 1].tok = "error"
      /\ \A i \in 1..Len(wire) : wire[i].tok = "prompt" =>
           IF i # 1 THEN wire[i - 1].tok = "error"
           ELSE IF input # <<>> THEN input[Len(input)].tok = "error" ELSE held.tok = "error"
  BY DEF PromptFit
<1>3. wire \in Seq(Token) /\ input \in Seq(Token) /\ wire # <<>> /\ wire' = Tail(wire) /\ input' = Append(input, wire[1])
  BY DEF Arrive, TypeOK
<1>4. Len(input') = Len(input) + 1 /\ Len(input) \in Nat /\ input'[Len(input) + 1] = wire[1]
      /\ \A i \in 1..Len(input) : input'[i] = input[i]
  BY <1>3
<1>5. Len(wire') = Len(wire) - 1 /\ Len(wire) \in Nat /\ 1 \in 1..Len(wire) /\ \A i \in 1..Len(wire') : wire'[i] = wire[i + 1]
  BY <1>3
<1>6. \A i \in 1..Len(input') : input'[i].tok = "prompt" =>
        IF i = 1 THEN held.tok = "error" ELSE input'[i - 1].tok = "error"
  <2> SUFFICES ASSUME NEW i \in 1..Len(input'), input'[i].tok = "prompt"
               PROVE  IF i = 1 THEN held.tok = "error" ELSE input'[i - 1].tok = "error"
    OBVIOUS
  <2>1. CASE i \in 1..Len(input)
    <3>1. i # 1 => i - 1 \in 1..Len(input)
      BY <1>4, <2>1
    <3> QED
      BY <1>2, <1>4, <2>1, <3>1
  <2>2. CASE i = Len(input) + 1 /\ input = <<>>
    <3>1. i = 1 /\ wire[1].tok = "prompt"
      BY <1>4, <2>2
    <3> QED
      BY <1>2, <1>5, <2>2, <3>1
  <2>3. CASE i = Len(input) + 1 /\ input # <<>>
    <3>1. i # 1 /\ i - 1 = Len(input) /\ Len(input) \in 1..Len(input) /\ wire[1].tok = "prompt"
      BY <1>3, <1>4, <2>3
    <3>2. input[Len(input)].tok = "error"
      BY <1>2, <1>5, <2>3, <3>1
    <3> QED
      BY <1>4, <3>1, <3>2
  <2> QED
    BY <1>4, <2>1, <2>2, <2>3
<1>7. \A i \in 1..Len(wire') : wire'[i].tok = "prompt" =>
        IF i # 1 THEN wire'[i - 1].tok = "error" ELSE input'[Len(input')].tok = "error"
  <2> SUFFICES ASSUME NEW i \in 1..Len(wire'), wire'[i].tok = "prompt"
               PROVE  IF i # 1 THEN wire'[i - 1].tok = "error" ELSE input'[Len(input')].tok = "error"
    OBVIOUS
  <2>1. i + 1 \in 1..Len(wire) /\ i + 1 # 1 /\ (i + 1) - 1 = i /\ wire[i + 1].tok = "prompt"
    BY <1>5
  <2>2. wire[i].tok = "error"
    BY <1>2, <2>1
  <2>3. CASE i = 1
    BY <1>4, <2>2, <2>3
  <2>4. CASE i # 1
    <3>1. i - 1 \in 1..Len(wire') /\ (i - 1) + 1 = i
      BY <1>5, <2>4
    <3> QED
      BY <1>5, <2>2, <2>4, <3>1
  <2> QED
    BY <2>3, <2>4
<1>8. Coming' \subseteq Coming /\ input' # <<>>
  BY <1>3, <1>4, ClearsKeep DEF Clears, LineKept
<1> QED
  BY <1>1, <1>2, <1>6, <1>7, <1>8 DEF PromptFit

LEMMA PromptOfRefuses ==
  ASSUME TypeOK, Refuses, PromptFit
  PROVE  PromptFit'
<1>1. UNCHANGED <<kind, clean, echoing, obeyed, phase, held, outcome, input>>
  BY DEF Refuses, requestVars, clientVars, ghostVars
<1> SUFFICES ASSUME kind = "prompt" /\ clean /\ ~echoing /\ obeyed = 0, phase = "wait"
             PROVE  PromptFit'
  BY <1>1 DEF PromptFit
<1> DEFINE e == Answer(Head(commands), "error")
           r == Ready(Head(commands))
<1>2. wire \in Seq(Token) /\ wire' = wire \o <<e, r>> /\ e.tok = "error" /\ r.tok = "prompt"
  BY DEF Refuses, TypeOK, Answer, Ready
<1> HIDE DEF e, r
<1>3. Len(wire) \in Nat /\ Len(wire') = Len(wire) + 2 /\ wire'[Len(wire) + 1] = e /\ wire'[Len(wire) + 2] = r
      /\ \A i \in 1..Len(wire) : wire'[i] = wire[i]
  BY <1>2
<1>4. /\ outcome # "answered"
      /\ held = Nothing \/ held.tok = "error"
      /\ \A t \in Coming : t.tok \in {"error", "prompt"}
      /\ \A i \in 1..Len(input) : input[i].tok = "prompt" =>
           IF i = 1 THEN held.tok = "error" ELSE input[i - 1].tok = "error"
      /\ \A i \in 1..Len(wire) : wire[i].tok = "prompt" =>
           IF i # 1 THEN wire[i - 1].tok = "error"
           ELSE IF input # <<>> THEN input[Len(input)].tok = "error" ELSE held.tok = "error"
  BY DEF PromptFit
<1>5. \A i \in 1..Len(wire') : wire'[i].tok = "prompt" =>
        IF i # 1 THEN wire'[i - 1].tok = "error"
        ELSE IF input # <<>> THEN input[Len(input)].tok = "error" ELSE held.tok = "error"
  <2> SUFFICES ASSUME NEW i \in 1..Len(wire'), wire'[i].tok = "prompt"
               PROVE  IF i # 1 THEN wire'[i - 1].tok = "error"
                      ELSE IF input # <<>> THEN input[Len(input)].tok = "error" ELSE held.tok = "error"
    OBVIOUS
  <2>1. CASE i \in 1..Len(wire)
    <3>1. i # 1 => i - 1 \in 1..Len(wire)
      BY <1>3, <2>1
    <3> QED
      BY <1>3, <1>4, <2>1, <3>1
  <2>2. CASE i = Len(wire) + 1
    BY <1>2, <1>3, <2>2
  <2>3. CASE i = Len(wire) + 2
    <3>1. i # 1 /\ i - 1 = Len(wire) + 1
      BY <1>3, <2>3
    <3> QED
      BY <1>2, <1>3, <3>1
  <2> QED
    BY <1>3, <2>1, <2>2, <2>3
<1>6. \A t \in Coming' : t.tok \in {"error", "prompt"}
  <2>1. \A t \in Range(wire') : t.tok \in {"error", "prompt"}
    <3>1. \A i \in 1..Len(wire') : i \in 1..Len(wire) \/ i = Len(wire) + 1 \/ i = Len(wire) + 2
      BY <1>3
    <3>2. \A i \in 1..Len(wire) : wire[i] \in Coming
      BY <1>2 DEF Coming, Range
    <3>3. DOMAIN wire' = 1..Len(wire')
      BY <1>2
    <3> QED
      BY <1>2, <1>3, <1>4, <3>1, <3>2, <3>3 DEF Range
  <2> QED
    BY <1>1, <1>4, <2>1 DEF Coming
<1> QED
  BY <1>1, <1>4, <1>5, <1>6 DEF PromptFit

LEMMA PromptStep ==
  ASSUME TypeOK, TriesFit, Fresh, OwnFit, OnceFit, OnceFit', PromptFit, Next
  PROVE  PromptFit'
<1>1. CASE Requested
  BY <1>1, RequestBrings DEF PromptFit
<1>2. CASE Send
  <2> SUFFICES ASSUME kind = "prompt", clean', ~echoing PROVE PromptFit'
    BY <1>2, SendBrings DEF PromptFit, requestVars
  <2>1. phase = "send" /\ outcome' = "none" /\ held' = Nothing /\ wire' = wire /\ input' = <<>>
    BY <1>2 DEF Send, TypeOK, Discarded, LineKinds
  <2>2. \A t \in Range(wire) : t.req = req
    BY <1>2 DEF Send, Undisturbed, Disturbing
  <2>3. \A t \in Range(wire) : t.req # req
    BY <2>1 DEF OnceFit, Coming
  <2>4. wire = <<>>
    <3>1. wire \in Seq(Token) /\ (wire # <<>> => Head(wire) \in Range(wire))
      BY InTail DEF TypeOK
    <3> QED
      BY <2>2, <2>3, <3>1
  <2>5. Coming' = {} /\ Len(wire') = 0 /\ Len(input') = 0
    BY <2>1, <2>4, InNothing DEF Coming
  <2> QED
    BY <2>1, <2>5 DEF PromptFit
<1>3. CASE Waits
  <2>1. UNCHANGED <<kind, clean, echoing, obeyed>>
    BY <1>3, WaitsKeep DEF LineKept, requestVars
  <2>2. CASE kind = "prompt" /\ clean /\ ~echoing /\ obeyed = 0
    BY <1>3, <2>2, PromptOfWait
  <2> QED
    BY <2>1, <2>2 DEF PromptFit
<1>4. CASE Clears
  <2>1. CASE Arrive
    BY <2>1, PromptOfArrive
  <2>2. CASE Wake
    BY <2>2 DEF Wake, PromptFit, requestVars, clientVars, ghostVars
  <2>3. CASE LoseCommand
    BY <2>3 DEF LoseCommand, PromptFit, Coming, requestVars, clientVars, ghostVars
  <2>4. CASE Drain
    BY <2>4 DEF Drain, OnceFit, PromptFit, requestVars
  <2> QED
    BY <1>4, <2>1, <2>2, <2>3, <2>4 DEF Clears
<1>5. CASE Refuses
  BY <1>5, PromptOfRefuses
<1>6. CASE Obeys
  <2> SUFFICES ASSUME kind' = "prompt" /\ clean' /\ ~echoing' /\ obeyed' = 0 PROVE PromptFit'
    BY DEF PromptFit
  <2>1. UNCHANGED <<requestVars, phase, held, outcome, echoing, clean>> /\ kind = "prompt"
    BY <1>6, LoggerBrings DEF clientVars, requestVars
  <2>2. obeyed = 0 /\ Head(commands).req # req
    BY <1>6, <2>1 DEF Obeys, OnceFit
  <2>3. phase # "wait"
    BY <1>6, <2>1, <2>2, LoggerBrings DEF OwnFit
  <2> QED
    BY <2>1, <2>2, <2>3 DEF PromptFit
<1> QED
  BY <1>1, <1>2, <1>3, <1>4, <1>5, <1>6, StepByKind

-----------------------------------------------------------------------------
(* The invariant, and what follows from it.                                *)

IInv ==
  /\ TypeOK /\ TriesFit /\ Fresh /\ OwnFit
  /\ ArrivedFit /\ BlockIsOwn
  /\ OnceFit /\ WriteFit /\ PromptFit

LEMMA InitIInv == Init => IInv
<1> SUFFICES ASSUME Init PROVE IInv
  OBVIOUS
<1>1. Nothing \in Token
  BY LinkAssumption DEF Nothing, Token, Toks
<1>2. commands \in Seq(Command) /\ wire \in Seq(Token) /\ input \in Seq(Token) /\ Coming = {} /\ Range(commands) = {}
  BY InNothing DEF Init, Coming
<1>3. TypeOK /\ TriesFit
  <2>1. 0 \in 0..MaxRequests /\ 0 \in 0..(Retries + 2)
    BY LinkAssumption
  <2>2. {late, echoing, clean, arrived} \subseteq BOOLEAN
    BY DEF Init
  <2> QED
    BY <1>1, <1>2, <2>1, <2>2 DEF Init, TypeOK, TriesFit, Kinds, BlockKinds
<1>4. Fresh /\ OwnFit
  BY <1>2 DEF Init, Fresh, OwnFit
<1>5. ArrivedFit /\ BlockIsOwn /\ OnceFit /\ WriteFit /\ PromptFit
  BY DEF Init, ArrivedFit, BlockIsOwn, OnceFit, WriteFit, PromptFit
<1> QED
  BY <1>3, <1>4, <1>5 DEF IInv

LEMMA NextIInv == IInv /\ [Next]_vars => IInv'
<1> SUFFICES ASSUME IInv, [Next]_vars PROVE IInv'
  OBVIOUS
<1>1. CASE Next
  <2> USE <1>1 DEF IInv
  <2>1. TypeOK' /\ TriesFit' /\ Fresh' /\ OwnFit'
    BY TypeStep, FreshStep, OwnStep
  <2>2. ArrivedFit' /\ BlockIsOwn'
    BY ArrivedStep, BlockStep
  <2>3. OnceFit'
    BY OnceStep
  <2>4. WriteFit' /\ PromptFit'
    BY <2>1, <2>3, WriteStep, PromptStep
  <2> QED
    BY <2>1, <2>2, <2>3, <2>4
<1>2. CASE UNCHANGED vars
  <2> USE <1>2 DEF vars, requestVars, clientVars, lineVars, ghostVars, IInv
  <2>1. TypeOK' /\ TriesFit' /\ Fresh' /\ OwnFit'
    BY DEF TypeOK, TriesFit, Fresh, OwnFit, Coming, Disturbing
  <2>2. ArrivedFit' /\ BlockIsOwn'
    BY DEF ArrivedFit, BlockIsOwn
  <2>3. OnceFit' /\ WriteFit' /\ PromptFit'
    BY DEF OnceFit, WriteFit, PromptFit, Coming
  <2> QED
    BY <2>1, <2>2, <2>3
<1> QED
  BY <1>1, <1>2

\* The inductive invariant holds of every run of Link and gen4.download_block.
THEOREM Invariance == Spec => []IInv
BY InitIInv, NextIInv, PTL DEF Spec

\* The state of a request, and what is on the line, have their types.
THEOREM TypeCorrect == Spec => []TypeOK
<1>1. IInv => TypeOK
  BY DEF IInv
<1> QED
  BY <1>1, Invariance, PTL

\* command(), command_until_prompt() and the block reads answer with the reply to their own request.
THEOREM RepliesAreOwn == Spec => []OwnReply
<1>1. IInv => OwnReply
  BY DEF IInv, OwnFit, OwnReply
<1> QED
  BY <1>1, Invariance, PTL

\* read_data() and gen4.download_block() return the block they asked for.
THEOREM BlocksAreOwn == Spec => []BlockIsOwn
<1>1. IInv => BlockIsOwn
  BY DEF IInv
<1> QED
  BY <1>1, Invariance, PTL

\* A write is never carried out twice, and has been carried out when command() or command_until_prompt() says so.
THEOREM ConfirmedOnceOnly == Spec => []ConfirmedOnce
<1>1. IInv => ConfirmedOnce
  <2> SUFFICES ASSUME IInv, kind \in {"write", "prompt"} PROVE ConfirmedOnce
    BY DEF ConfirmedOnce
  <2>1. obeyed \in {0, 1}
    BY DEF IInv, OnceFit
  <2> QED
    BY <2>1 DEF IInv, WriteFit, PromptFit, ConfirmedOnce
<1> QED
  BY <1>1, Invariance, PTL

\* command() gives up only when no line of an answer has come, but for one in the last ECHO_GRACE_S of the timeout.
THEOREM RepliesFound == Spec => []RepliesAreUsed
<1>1. IInv => RepliesAreUsed
  BY DEF IInv, ArrivedFit, RepliesAreUsed
<1> QED
  BY <1>1, Invariance, PTL
=============================================================================

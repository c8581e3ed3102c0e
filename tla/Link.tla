------------------------------- MODULE Link -------------------------------
(***************************************************************************)
(* link.Link and gen4.download_block: one request at a time over a serial  *)
(* line.  A request has no number that its reply would repeat.  What ties  *)
(* the two together is the order, the discarding of whatever came before,  *)
(* and, for a block of data, the header and the CRC.                       *)
(*                                                                         *)
(* Commands and replies may be lost or garbled, and a reply may come late: *)
(* after its timeout, or after the next command was sent.  The logger      *)
(* answers in order.  `wire` is what it has sent and the host has not got; *)
(* `input` is what the host has got and the code has not consumed: the     *)
(* port's input buffer behind Link._buf.                                   *)
(*                                                                         *)
(* A line, a prompt and a whole block are one token each; a block of which *)
(* a part is lost is garbled or never complete.  Two commands are taken to *)
(* differ in their text.                                                   *)
(***************************************************************************)
EXTENDS Naturals, Sequences, SequencesExt

CONSTANTS
  Places,       \* datasets (Gen4: objects) with an offset
  Retries,      \* read_data's and download_block's `retries`
  MaxRequests,  \* bound: requests in a run
  MaxInFlight   \* bound: tokens on the wire

ASSUME LinkAssumption ==
  /\ Places # {}
  /\ "nowhere" \notin Places
  /\ Retries \in Nat \ {0}
  /\ MaxRequests \in Nat
  /\ MaxInFlight \in Nat

VARIABLES
  req, kind, place,  \* the request: its number, its sort, and (a block) what it asks for
  phase,             \* where the code is: "idle", "send", "wait", "drain" (before a retry)
  tries,             \* how often the request has been sent
  held,              \* command(): the echo; command_until_prompt(): the first line before the prompt
  late,              \* no more of the timeout is left than a held echo needs (ECHO_GRACE_S) or than one read takes
  outcome, by,       \* how the request ended, and the token taken for its reply
  commands,          \* sent, and not yet read by the logger
  wire, input,
  echoing,           \* whether the transport echoes
  obeyed,            \* how often the logger has carried the request out
  clean,             \* nothing older could still come whenever the request was sent
  arrived            \* a line of the logger in answer to the last sending has arrived while it was not yet `late`

requestVars == <<req, kind, place>>
clientVars == <<phase, tries, held, late, outcome, by>>
lineVars == <<commands, wire, input, echoing>>
ghostVars == <<obeyed, clean, arrived>>
vars == <<requestVars, clientVars, lineVars, ghostVars>>

\* query(); command() for a write; command_until_prompt(); read_data(); gen4.download_block().
Kinds == {"query", "write", "prompt", "data", "object"}
BlockKinds == {"data", "object"}
LineKinds == {"query", "write"}
NoPlace == "nowhere"

\* `same` is the answer of a write that repeats its text; `bad` a block whose CRC does not match.
Toks == {"line", "same", "error", "echo", "prompt", "block", "bad"}
Token == [req : 0..MaxRequests, place : Places \cup {NoPlace}, tok : Toks]
Nothing == [req |-> 0, place |-> NoPlace, tok |-> "prompt"]
Command == [req : 1..MaxRequests, kind : Kinds, place : Places \cup {NoPlace}]

IsText(t) == t.tok # "prompt"
IsBlock(t) == t.tok \in {"block", "bad"}

TypeOK ==
  /\ req \in 0..MaxRequests
  /\ kind \in Kinds
  /\ place \in Places \cup {NoPlace}
  /\ phase \in {"idle", "send", "wait", "drain"}
  /\ tries \in 0..(Retries + 2)
  /\ held \in Token
  /\ outcome \in {"none", "answered", "refused", "failed"}
  /\ by \in Token
  /\ commands \in Seq(Command)
  /\ wire \in Seq(Token)
  /\ input \in Seq(Token)
  /\ {late, echoing, clean, arrived} \subseteq BOOLEAN
  /\ obeyed \in Nat
  /\ phase = "idle" <=> outcome # "none"
  /\ kind \in BlockKinds <=> place # NoPlace

Init ==
  /\ req = 0
  /\ kind = "query"
  /\ place = NoPlace
  /\ phase = "idle"
  /\ tries = 0
  /\ held = Nothing
  /\ late = FALSE
  /\ outcome = "failed"
  /\ by = Nothing
  /\ commands = <<>>
  /\ wire = <<>>
  /\ input = <<>>
  /\ echoing \in BOOLEAN
  /\ obeyed = 0
  /\ clean = TRUE
  /\ arrived = FALSE

(***************************************************************************)
(* Sending.                                                                *)
(***************************************************************************)
Request(k, p) ==
  /\ phase = "idle"
  /\ req < MaxRequests
  /\ req' = req + 1
  /\ kind' = k
  /\ place' = p
  /\ phase' = "send"
  /\ tries' = 0
  /\ outcome' = "none"
  /\ by' = Nothing
  /\ obeyed' = 0
  /\ clean' = TRUE
  /\ UNCHANGED <<held, late, lineVars, arrived>>

\* A token, or a command whose answer may come, that could be taken for this request's reply.
Disturbing(t) == t.req # req /\ (kind = "prompt" \/ IsText(t))
Undisturbed(left) == /\ \A t \in Range(wire) \cup Range(left) : ~Disturbing(t)
                     /\ \A c \in Range(commands) : c.req = req

\* Mutant: nothing is discarded.
DiscardedNothing == {input}

\* command() discards what has come; command_until_prompt() drains until the line is quiet; a block read empties _buf,
\* but not the port's input buffer.
Discarded ==
  CASE kind \in LineKinds -> {<<>>}
    [] kind = "prompt" -> {<<>>}
    [] OTHER -> {SubSeq(input, n + 1, Len(input)) : n \in 0..Len(input)}

Echo == [req |-> req, place |-> NoPlace, tok |-> "echo"]

Send ==
  /\ phase = "send"
  /\ input' \in Discarded
  /\ commands' = Append(commands, [req |-> req, kind |-> kind, place |-> place])
  /\ wire' = IF echoing THEN Append(wire, Echo) ELSE wire
  /\ phase' = "wait"
  /\ tries' = tries + 1
  /\ held' = Nothing
  /\ late' = FALSE
  /\ clean' = (clean /\ Undisturbed(IF kind \in BlockKinds THEN input' ELSE <<>>))
  /\ arrived' = FALSE
  /\ UNCHANGED <<requestVars, outcome, by, echoing, obeyed>>

\* _drain: whatever has come, and whatever comes until the line is quiet.
Drain ==
  /\ phase = "drain"
  /\ phase' = "send"
  /\ input' = <<>>
  /\ \E n \in 0..Len(wire) : wire' = SubSeq(wire, n + 1, Len(wire))
  /\ UNCHANGED <<requestVars, tries, held, late, outcome, by, commands, echoing, ghostVars>>

\* wake(): the input is reset, a lone CR is sent, and the line drained.
Wake ==
  /\ phase = "idle"
  /\ input' = <<>>
  /\ \E n \in 0..Len(wire) : wire' = SubSeq(wire, n + 1, Len(wire))
  /\ UNCHANGED <<requestVars, clientVars, commands, echoing, ghostVars>>

(***************************************************************************)
(* The line and the logger.                                                *)
(***************************************************************************)
Answer(c, tok) == [req |-> c.req, place |-> IF tok \in {"block", "bad"} THEN c.place ELSE NoPlace, tok |-> tok]
Ready(c) == Answer(c, "prompt")

Answers(c) ==
  CASE c.kind = "query" -> {"line", "error"}
    [] c.kind = "write" -> {"same", "line"}
    [] c.kind = "prompt" -> {"prompt"}
    [] OTHER -> {"block", "bad"}

Obeys ==
  /\ commands # <<>>
  /\ Len(wire) + 2 <= MaxInFlight
  /\ LET c == Head(commands) IN
     /\ \/ wire' = wire
        \/ wire' = Append(wire, Ready(c))
        \/ \E tok \in Answers(c) :
             wire' = wire \o (IF tok = "prompt" THEN <<Ready(c)>> ELSE <<Answer(c, tok), Ready(c)>>)
     /\ obeyed' = IF c.req = req THEN obeyed + 1 ELSE obeyed
  /\ commands' = Tail(commands)
  /\ UNCHANGED <<requestVars, clientVars, input, echoing, clean, arrived>>

Refuses ==
  /\ commands # <<>>
  /\ Len(wire) + 2 <= MaxInFlight
  /\ wire' = wire \o <<Answer(Head(commands), "error"), Ready(Head(commands))>>
  /\ commands' = Tail(commands)
  /\ UNCHANGED <<requestVars, clientVars, input, echoing, ghostVars>>

LoseCommand ==
  /\ commands # <<>>
  /\ commands' = Tail(commands)
  /\ UNCHANGED <<requestVars, clientVars, wire, input, echoing, ghostVars>>

\* While the code runs on, with no request under way, what arrives waits; the next request finds it in the input.
Arrive ==
  /\ wire # <<>>
  /\ input' = Append(input, Head(wire))
  /\ wire' = Tail(wire)
  /\ arrived' = \/ arrived
                \/ phase = "wait" /\ ~late /\ Head(wire).req = req /\ Head(wire).tok \in {"line", "same", "error"}
  /\ UNCHANGED <<requestVars, clientVars, commands, echoing, obeyed, clean>>

(***************************************************************************)
(* Waiting for the reply.                                                  *)
(***************************************************************************)
End(how, t) ==
  /\ phase' = "idle"
  /\ outcome' = how
  /\ by' = t
  /\ held' = Nothing

Reply(t) == End(IF t.tok = "error" THEN "refused" ELSE "answered", t)

\* command(): prompts are stripped wherever they are.
StripPrompt ==
  /\ phase = "wait"
  /\ kind \in LineKinds
  /\ input # <<>>
  /\ ~IsText(Head(input))
  /\ input' = Tail(input)
  /\ UNCHANGED <<requestVars, clientVars, commands, wire, echoing, ghostVars>>

RepeatsCommand(t) == t.req = req /\ t.tok \in {"same", "echo"}

\* Mutant (the code from d55d897 to 4944021): a line equal to the command is always skipped.
TakeLineSkipEcho ==
  /\ phase = "wait"
  /\ kind \in LineKinds
  /\ input # <<>>
  /\ IsText(Head(input))
  /\ input' = Tail(input)
  /\ IF RepeatsCommand(Head(input)) THEN UNCHANGED <<phase, held, outcome, by>> ELSE Reply(Head(input))
  /\ UNCHANGED <<requestVars, tries, late, commands, wire, echoing, ghostVars>>

TakeLine ==
  /\ phase = "wait"
  /\ kind \in LineKinds
  /\ input # <<>>
  /\ IsText(Head(input))
  /\ input' = Tail(input)
  /\ IF RepeatsCommand(Head(input)) /\ held = Nothing
     THEN held' = Head(input) /\ UNCHANGED <<phase, outcome, by>>
     ELSE Reply(Head(input))
  /\ UNCHANGED <<requestVars, tries, late, commands, wire, echoing, ghostVars>>

\* ECHO_GRACE_S is over and no other line has come: the echo was the reply.
AcceptEcho ==
  /\ phase = "wait"
  /\ kind \in LineKinds
  /\ held # Nothing
  /\ \A i \in 1..Len(input) : ~IsText(input[i])
  /\ Reply(held)
  /\ UNCHANGED <<requestVars, tries, late, lineVars, ghostVars>>

\* command_until_prompt(): the text before the prompt is an error if it begins as one.
TakeText ==
  /\ phase = "wait"
  /\ kind = "prompt"
  /\ input # <<>>
  /\ IsText(Head(input))
  /\ input' = Tail(input)
  /\ held' = IF held = Nothing THEN Head(input) ELSE held
  /\ UNCHANGED <<requestVars, phase, tries, late, outcome, by, commands, wire, echoing, ghostVars>>

TakePrompt ==
  /\ phase = "wait"
  /\ kind = "prompt"
  /\ input # <<>>
  /\ ~IsText(Head(input))
  /\ input' = Tail(input)
  /\ IF held.tok = "error" THEN Reply(held) ELSE Reply(Head(input))
  /\ UNCHANGED <<requestVars, tries, late, commands, wire, echoing, ghostVars>>

\* Mutants: a query is sent again for ever; a write is sent again like a query.
MayRetryForEver == kind \in BlockKinds => tries < Retries
MayRetryWrites ==
  \/ kind \in LineKinds /\ tries <= 1
  \/ kind \in BlockKinds /\ tries < Retries

\* An attempt failed: a query is sent again once, a block Retries times in all, anything else never.
MayRetry ==
  \/ kind = "query" /\ tries <= 1
  \/ kind \in BlockKinds /\ tries < Retries

AttemptFails ==
  IF MayRetry
  THEN phase' = "drain" /\ UNCHANGED <<held, outcome, by>>
  ELSE End("failed", Nothing)

FirstBlock(i) == IsBlock(input[i]) /\ \A j \in 1..(i - 1) : ~IsBlock(input[j])

\* Mutant: the header is not compared with the request.
AnyDataAccepted(t) == t.tok = "block"

\* _read_data_once: the header must name the dataset and the offset asked for, and the CRC match.
DataAccepted(t) == t.place = place /\ t.tok = "block"

\* gen4._download_once: the same of the object and its start.
ObjectAccepted(t) == t.place = place /\ t.tok = "block"

TakeBlock ==
  /\ phase = "wait"
  /\ kind \in BlockKinds
  /\ \E i \in 1..Len(input) :
       /\ FirstBlock(i)
       /\ input' = SubSeq(input, i + 1, Len(input))
       /\ LET t == input[i] IN
          IF (kind = "data" /\ DataAccepted(t)) \/ (kind = "object" /\ ObjectAccepted(t))
          THEN Reply(t)
          ELSE AttemptFails
  /\ UNCHANGED <<requestVars, tries, late, commands, wire, echoing, ghostVars>>

BlockRefused ==
  /\ phase = "wait"
  /\ kind \in BlockKinds
  /\ \A i \in 1..Len(input) : ~IsBlock(input[i])
  /\ \E i \in 1..Len(input) : /\ input[i].tok = "error"
                             /\ Reply(input[i])
  /\ UNCHANGED <<requestVars, tries, late, lineVars, ghostVars>>

\* Nothing has come that would end the wait.
Unanswered ==
  CASE kind \in LineKinds -> held = Nothing /\ \A i \in 1..Len(input) : ~IsText(input[i])
    [] kind = "prompt" -> \A i \in 1..Len(input) : IsText(input[i])
    [] OTHER -> \A i \in 1..Len(input) : ~IsBlock(input[i]) /\ input[i].tok # "error"

\* Time passes: what came before is read and dealt with, and a held echo has its ECHO_GRACE_S, before the deadline.
NearlyOver ==
  /\ phase = "wait"
  /\ ~late
  /\ Unanswered
  /\ late' = TRUE
  /\ UNCHANGED <<requestVars, phase, tries, held, outcome, by, lineVars, ghostVars>>

\* The deadline is checked whether an echo is held or not, and before what has come after the last read is looked at.
Timeout ==
  /\ phase = "wait"
  /\ late
  /\ AttemptFails
  /\ UNCHANGED <<requestVars, tries, late, lineVars, ghostVars>>

Client ==
  \/ \E k \in Kinds \ BlockKinds : Request(k, NoPlace)
  \/ \E k \in BlockKinds, p \in Places : Request(k, p)
  \/ Send \/ Drain \/ Wake
  \/ StripPrompt \/ TakeLine \/ AcceptEcho \/ TakeText \/ TakePrompt \/ TakeBlock \/ BlockRefused
  \/ NearlyOver \/ Timeout

Next == Client \/ Obeys \/ Refuses \/ LoseCommand \/ Arrive

Spec == Init /\ [][Next]_vars

(***************************************************************************)
(* Properties.                                                             *)
(***************************************************************************)
\* The reply of a request is its own, however late, lost or doubled the replies before it were, if no answer to an earlier
\* request was still to come when it was sent (for a block: or waited in the port's input buffer).  So one late reply
\* cannot leave the line a reply behind for good.  The condition is needed: a reply that comes after the next command was
\* sent is taken for that command's.
OwnReply == outcome \in {"answered", "refused"} /\ clean => by.req = req

\* A block is what was asked for, whatever came late, twice or garbled before it, and without any such condition.
BlockIsOwn == outcome = "answered" /\ kind \in BlockKinds => by.tok = "block" /\ by.place = place

\* A write is carried out at most once, and exactly once if it is confirmed.  An echo confirms nothing, and on a transport
\* that echoes command_until_prompt() does not see that the logger refuses: the error does not begin the text.
ConfirmedOnce ==
  kind \in {"write", "prompt"} =>
    /\ obeyed <= 1
    /\ outcome = "answered" /\ clean /\ by.tok # "echo" /\ ~(kind = "prompt" /\ echoing) => obeyed = 1

\* A request does not fail for want of a reply when its reply has come, in the last ECHO_GRACE_S of its timeout excepted:
\* also not a write that is answered by its own text, which a transport's echo looks like.
RepliesAreUsed == outcome = "failed" /\ kind \in LineKinds => ~arrived
=============================================================================

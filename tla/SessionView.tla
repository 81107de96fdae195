----------------------------- MODULE SessionView -----------------------------
(***************************************************************************)
(* internal/viewer/store.go: what the viewer shows of a session file. A    *)
(* file is a sequence of records; a line cut short by a crash is Torn.     *)
(*                                                                         *)
(* A record carries the uuid of its request in "of". The file does not     *)
(* have that field and nothing here reads it: it only passes through, so   *)
(* that the properties can tell whose response and results are shown.      *)
(***************************************************************************)
EXTENDS Naturals, Sequences, SequencesExt

CONSTANTS Files, Types

Torn == [kind |-> "torn"]

NotEnded == [failures |-> 0, files |-> {}]

EmptyView ==
  [started |-> FALSE, summary |-> NotEnded, cards |-> [ft \in Files \X Types |-> <<>>]]

(* A tool call shown on a card: its name, whether it is marked ok, and the request
   and position of the call whose result it shows. *)
NoResult == [of |-> 0, pos |-> 0]
CallInfo(name) == [name |-> name, ok |-> name = "task_done", result |-> NoResult]

(* The cards of the record's file and task, when there are any. *)
ChangeLast(view, rec, card) ==
  [view EXCEPT !.cards[<<rec.file, rec.type>>][Len(view.cards[<<rec.file, rec.type>>])] = card]

ShowRequest(view, rec) ==
  [view EXCEPT !.cards[<<rec.file, rec.type>>] =
     Append(@, [of |-> rec.of, no |-> rec.no, response |-> 0, empty |-> TRUE,
                error |-> 0, calls |-> <<>>])]

(* The answer goes to the last card if that has no content yet; its tool calls
   go there in any case. *)
ShowResponse(view, rec) ==
  LET card     == Last(view.cards[<<rec.file, rec.type>>])
      answered == IF card.empty
                  THEN [card EXCEPT !.response = rec.of, !.empty = rec.empty, !.error = 0]
                  ELSE card
      infos    == [c \in DOMAIN rec.calls |-> CallInfo(rec.calls[c])]
  IN  ChangeLast(view, rec, [answered EXCEPT !.calls = @ \o infos])

ErrorOnFirst(view, rec) ==  \* mutant: the oldest card takes the error
  [view EXCEPT !.cards[<<rec.file, rec.type>>][1].error = rec.of]
ShowError(view, rec) ==
  LET card == Last(view.cards[<<rec.file, rec.type>>])
  IN  IF card.error = 0 THEN ChangeLast(view, rec, [card EXCEPT !.error = rec.of]) ELSE view

(* A result goes to the first call without one. *)
ShowToolCall(view, rec) ==
  LET card == Last(view.cards[<<rec.file, rec.type>>])
      open == {c \in DOMAIN card.calls : ~card.calls[c].ok}
  IN  IF open = {} THEN view
      ELSE LET first == CHOOSE c \in open : \A d \in open : c <= d
           IN  ChangeLast(view, rec,
                 [card EXCEPT !.calls[first].ok = TRUE,
                              !.calls[first].result = [of |-> rec.of, pos |-> rec.pos]])

Show(view, rec) ==
  CASE rec.kind = "torn"          -> view
    [] rec.kind = "session_start" -> [view EXCEPT !.started = TRUE]
    [] rec.kind = "session_end"   -> [view EXCEPT !.summary = rec.summary]
    [] rec.kind = "llm_request"   -> ShowRequest(view, rec)
    [] OTHER ->
         IF view.cards[<<rec.file, rec.type>>] = <<>> THEN view
         ELSE CASE rec.kind = "llm_response" -> ShowResponse(view, rec)
                [] rec.kind = "llm_error"    -> ShowError(view, rec)
                [] rec.kind = "tool_call"    -> ShowToolCall(view, rec)

LoadSession(file) ==
  LET view[k \in 0..Len(file)] ==
        IF k = 0 THEN EmptyView ELSE Show(view[k - 1], file[k])
  IN  view[Len(file)]

(* The list of sessions reads the first whole record and the last line only. *)
PeekSession(file) ==
  [started |-> \E k \in DOMAIN file : file[k].kind = "session_start",
   summary |-> IF file # <<>> /\ Last(file).kind = "session_end" THEN Last(file).summary
               ELSE NotEnded]
===============================================================================

------------------------------ MODULE MCParts ------------------------------
(***************************************************************************)
(* Instance of Parts for TLC.  Few keeps apart what need not meet: it cuts *)
(* combinations of steps, never a step.                                    *)
(***************************************************************************)
EXTENDS Parts

MCTools == {"bash", "read_file", "delete_file", "move_file", "ask_question"}
MCSubjects == {"git status", "git status; x", "rm -rf x", "rm -rf *", "rm -rf /", ""}
MCChained == {"git status; x"}
MCBegins ==
  [p \in {"rm -rf ", "rm -rf /", "git push", "git status"} |->
     CASE p = "rm -rf " -> {"rm -rf x", "rm -rf *", "rm -rf /"}
       [] p = "rm -rf /" -> {"rm -rf /"}
       [] p = "git status" -> {"git status", "git status; x"}
       [] OTHER -> {}]
MCWidens == [s \in MCSubjects |-> IF s = "rm -rf *" THEN MCBegins["rm -rf "] ELSE {s}]

Presets == INSTANCE Permission
MCGlobals == {Presets!RecommendedPolicy}
MCProjects == {Presets!NoPolicy}
\* A call that may be granted for ever, and one that chains or asks a question.
MCAsked == <<{<<"bash", "rm -rf *">>}, {<<"bash", "git status; x">>, <<"ask_question", "">>}>>

\* One process writes past its buffer, the other nothing.
MCMaxOut == <<4, 0>>

MCContents == [f |-> {1, 2}, g |-> {0, 1}]
MCWorkspace == [f |-> 1, g |-> 0]

MCHolder == [r1 |-> "gateway", r2 |-> "gateway"]

\* No file, two that lose a combo with its account, one with a strategy unknown.
MCCombo(id, members, known) == [id |-> id, members |-> members, known |-> known]
MCFiles ==
  {[providers |-> {}, combos |-> {}, default |-> ""],
   [providers |-> {"keyed", "login"}, default |-> "a",
    combos |-> {MCCombo("a", {"keyed"}, TRUE), MCCombo("b", {"login"}, TRUE)}],
   [providers |-> {"keyed", "login"}, default |-> "b",
    combos |-> {MCCombo("a", {"keyed"}, TRUE), MCCombo("b", {"login"}, TRUE)}],
   [providers |-> {"keyed", "login"}, default |-> "",
    combos |-> {MCCombo("a", {"keyed", "login"}, FALSE)}]}

\* A call with its arguments in two fragments, and one without arguments.
MCSize == <<2, 0>>

\* Two calls meet in the first start, the second start has them one by one.
FewApprovals == daemonStarts = 2 => \E c \in Calls : phase[c] = "idle"

\* A rewind is asked for while one stream is in use; keys go to a prompt while
\* nothing else is under way.
FewTui ==
  /\ rewindBusy \/ rewindArmed => prompts = {} /\ \A s \in T!Streams : s > 1 => stage[s] = "unused"
  /\ Len(messages) <= 4
  /\ prompts # {} => cmds = {} /\ stage[2] = "unused"

FewBackground == Cardinality(polls) <= 2 /\ (halting # "up" => panelGen = 0)

\* The first query is of the first language; a second server is there for Close.
FewLsp ==
  /\ queryAt[1] = "idle" => queryAt[2] = "idle"
  /\ lang[1] \in {"none", "go"}
  /\ lang[2] = "ts" =>
       /\ queryKind[2] = "diagnostics"
       /\ \E q \in Queries : queryAt[q] \in {"idle", "joining", "dialing", "initializing", "found"}

FewStreams == Len(wire) <= 2 /\ (block[1] = "unopened" => block[2] = "unopened")

\* One more system message and one answer without calls, a batch of calls and one more call.
FewRequests ==
  LET by(roles) == {i \in DOMAIN conversation : conversation[i].role \in roles}
      callers == {i \in DOMAIN conversation : conversation[i].calls # <<>>}
  IN  /\ Cardinality(by({"user"})) <= 1 /\ Cardinality(by({"system"})) <= 2
      /\ Cardinality(by({"assistant"}) \ callers) <= 1
      /\ Cardinality(callers) <= 2
      /\ \A i, j \in callers : i < j => Len(conversation[j].calls) = 1

Few ==
  CASE part = "approvals" -> FewApprovals
    [] part = "tui" -> FewTui
    [] part = "background" -> FewBackground
    [] part = "lsp" -> FewLsp
    [] part = "credentials" -> ~spoilt
    [] part = "streams" -> FewStreams
    [] part = "requests" -> FewRequests
    [] OTHER -> TRUE
=============================================================================

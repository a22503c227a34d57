------------------------------- MODULE MCConfig -------------------------------
(***************************************************************************)
(* Config for two programs: one like dr-grep, with positional options, a   *)
(* flag and the schema's names, and one like a dr-dist worker.             *)
(***************************************************************************)
EXTENDS Config

Option(path, kind, default) ==
  [path |-> path, letter |-> "", kind |-> kind, default |-> default,
   optional |-> FALSE, precedence |-> -1, choices |-> {}]

Loader(name) == [Option(<<name>>, "string", NoValue) EXCEPT !.optional = TRUE]

Help == [Option(<<"help">>, "command", NoValue) EXCEPT !.letter = "h"]

(* The default of a class is its schema's serial: Doc::Schema has none.    *)
Schema == <<
  Option(<<"dr">>, "group", NoValue),
  Option(<<"dr", "Doc">>, "class", Empty),
  Option(<<"dr", "Doc", "tokens">>, "field", Word("tokens")),
  Option(<<"dr", "Token">>, "class", Word("Token")),
  Option(<<"dr", "Token", "raw">>, "field", Word("raw")) >>

(* The input must be a file that opens. *)
Grep == <<
  Help, Loader("load-config"), Loader("save-config"),
  [Option(<<"bytes">>, "flag", Word("false")) EXCEPT !.letter = "b"],
  [Option(<<"input">>, "choice", Word("<stdin>"))
     EXCEPT !.precedence = 1, !.choices = {Word("<stdin>"), Word("x"), Word("F")}],
  [Option(<<"expression">>, "string", NoValue) EXCEPT !.precedence = 0] >> \o Schema

Worker == <<
  Help, Loader("load-config"), Loader("save-config"),
  Option(<<"host">>, "string", Word("localhost")) >> \o Schema

TheFile == Word("F")

GrepArgs == {
  Word("F"), Word("true"), Word(""), Short("h"), Short("b"), Long(<<"input">>),
  Long(<<"load-config">>), Long(<<"save-config">>),
  Long(<<"dr">>), Long(<<"dr", "Doc">>), Long(<<"nobody">>)}

WorkerArgs == {
  Word("F"), Word("x"), Long(<<"host">>), Long(<<"load-config">>), Long(<<"save-config">>),
  Long(<<"dr", "Doc">>), Long(<<"dr", "Doc", "tokens">>)}

GrepFiles == {
  NoFile,
  <<Line(<<"input">>, Word("x")), Line(<<"bytes">>, NoValue)>>,
  <<Line(<<"bytes">>, Word("0")), Line(<<"expression">>, Word("y")),
    Line(<<"dr", "Doc">>, Word("x"))>>,
  <<Line(<<"expression">>, Word("y")), Line(<<"load-config">>, Word("F")),
    Line(<<"dr", "Doc", "tokens">>, Word("y")), Line(<<"input">>, Word("F"))>>}

WorkerFiles == {NoFile}
=============================================================================

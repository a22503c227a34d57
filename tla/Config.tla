-------------------------------- MODULE Config --------------------------------
(***************************************************************************)
(* A program's configuration: the tree of groups and options it declares,  *)
(* the command line that Main::_main processes, the file that              *)
(* --save-config writes at the end and --load-config puts in front of the  *)
(* arguments still to be processed.                                        *)
(*                                                                         *)
(* An argument is a number of dashes and a sequence of names: a word or a  *)
(* value (no dashes), a short option (one) or a long one (two), whose      *)
(* names are those that "--" separates. A node has the names that lead to  *)
(* it from Main, so that a long option finds the node with its names.      *)
(***************************************************************************)
EXTENDS Integers, FiniteSetsExt, SequencesExt

CONSTANTS
  Nodes,       \* the nodes in the order of declaration, options before groups
  AllowUnclaimed,  \* _allow_unclaimed_args
  Args,        \* what a command line may consist of
  MaxArgs,     \* bound on its length
  File,        \* the word that is the path of the configuration file
  UserFiles    \* what may be in that file at first

Word(w) == [dashes |-> 0, names |-> <<w>>]
Short(c) == [dashes |-> 1, names |-> <<c>>]
Long(names) == [dashes |-> 2, names |-> names]

(* A line of the file: a key, and what follows the "=" if there is one.    *)
NoValue == [dashes |-> -1, names |-> <<>>]
Line(key, value) == [key |-> key, value |-> value]
NoFile == <<Line(<<>>, NoValue)>>

Kinds == {"string",   \* Op<std::string>, also the options that load and save
          "choice",   \* OpChoices; a stream, whose choices are the files that open
          "flag",     \* Op<bool>
          "field",    \* OpDocrepField
          "command",  \* OpHelp, OpVersion
          "group", "class"}   \* Group, DocrepClassGroup

(* No two nodes of a group have one name, as _pre_add checks.              *)
ASSUME NodesAssumption ==
  \A i, j \in DOMAIN Nodes :
    /\ Nodes[i].kind \in Kinds
    /\ i # j => Nodes[i].path # Nodes[j].path
    /\ i # j /\ Nodes[i].precedence # -1 => Nodes[i].precedence # Nodes[j].precedence

ASSUME ArgsAssumption == MaxArgs \in Nat /\ File \in Args

VARIABLES
  pc,          \* "typing", "args", "validate" or "done"
  outcome,     \* "none", "ok", or the exit status: "exit0", "exit1"
  args,        \* the queue of arguments
  positionals, \* positional_args
  opt,         \* every node's value, and whether it was mentioned and assigned
  unclaimed,   \* _unclaimed_args
  file,        \* what is in the configuration file
  given,       \* history: the arguments, with the file's where it is loaded
  saved        \* history: opt of the run whose file is loaded again, or <<>>

vars == <<pc, outcome, args, positionals, opt, unclaimed, file, given, saved>>

-----------------------------------------------------------------------------
(* Nodes. *)

Is(i, kinds) == Nodes[i].kind \in kinds

AcceptsMention(i)     == ~Is(i, {"group"})
AcceptsAssignment(i)  == ~Is(i, {"group", "command"})
RequiresAssignment(i) == ~Is(i, {"flag"})

(* _find: the first node with the names or the letter.                     *)
Matches(a) ==
  {i \in DOMAIN Nodes : \/ a.dashes = 2 /\ Nodes[i].path = a.names
                        \/ a.dashes = 1 /\ <<Nodes[i].letter>> = a.names}
Found(a) == Matches(a) # {}
Find(a) == Min(Matches(a))

Named(name) == Find(Long(<<name>>))

FullName_OwnOnly(i) == <<Last(Nodes[i].path)>>

(* Main adds no prefix; any other group adds its own name, without the     *)
(* names of the groups it is in.                                           *)
FullName(i) ==
  LET path == Nodes[i].path
  IN  IF Len(path) = 1 THEN path ELSE <<path[Len(path) - 1], Last(path)>>

Empty == Word("")
Truths == {Word("true"), Word("1")}
Falsehoods == {Word("false"), Word("0")}

Assignable(i, a) ==
  CASE Is(i, {"flag"})  -> a \in Truths \cup Falsehoods
    [] Is(i, {"class"}) -> a # Empty
    [] OTHER            -> TRUE

Parsed(i, a) ==
  IF ~Is(i, {"flag"}) THEN a
  ELSE IF a \in Truths THEN Word("true") ELSE Word("false")

Mentioned(o, i) == [o EXCEPT ![i].mentioned = TRUE]
Assigned(o, i, a) ==
  [o EXCEPT ![i] = [mentioned |-> TRUE, assigned |-> TRUE, value |-> Parsed(i, a)]]

(* A class group has its schema's serial to begin with, which is the       *)
(* schema's name for an annotation and empty for a document; an option has *)
(* nothing.                                                                *)
Fresh ==
  [i \in DOMAIN Nodes |->
     [mentioned |-> FALSE, assigned |-> FALSE,
      value |-> IF Is(i, {"class"}) THEN Nodes[i].default ELSE NoValue]]

-----------------------------------------------------------------------------
(* The file. A node that was mentioned and not assigned leaves its line    *)
(* without an end, so that the next node's name is joined to its own.      *)

Join(key, names) == IF key = <<>> THEN names ELSE key \o <<"">> \o names

Serialise(o) ==
  LET add(text, i) ==
        LET key == Join(text.key, FullName(i))
        IN  IF ~o[i].mentioned THEN text
            ELSE IF ~o[i].assigned THEN [text EXCEPT !.key = key]
            ELSE [lines |-> Append(text.lines, Line(key, o[i].value)), key |-> <<>>]
      text == FoldLeftDomain(add, [lines |-> <<>>, key |-> <<>>], Nodes)
  IN  IF text.key = <<>> THEN text.lines ELSE Append(text.lines, Line(text.key, NoValue))

LineArgs(line) ==
  IF line.value = NoValue THEN <<Long(line.key)>>
  ELSE IF line.key = FullName(Named("load-config")) THEN <<>>
  ELSE <<Long(line.key), line.value>>

LoadedArgs(lines) == FlattenSeq([k \in DOMAIN lines |-> LineArgs(lines[k])])

(* The file that a path names, if it can be opened. Of those that          *)
(* configurations are in, there is one.                                    *)
Opens(a) == a = File /\ file # NoFile

-----------------------------------------------------------------------------
Init ==
  /\ pc = "typing" /\ outcome = "none"
  /\ args = <<>> /\ positionals = <<>> /\ unclaimed = <<>>
  /\ opt = Fresh
  /\ file \in UserFiles
  /\ given = <<>> /\ saved = <<>>

(* The arguments in the order in which they are to count.                  *)
Expanded(line) ==
  FlattenSeq([k \in DOMAIN line |->
    IF k > 1 /\ Found(line[k - 1]) /\ line[k] = File
         /\ Find(line[k - 1]) = Named("load-config") /\ file # NoFile
    THEN <<line[k]>> \o LoadedArgs(file) ELSE <<line[k]>>])

Run(line) ==
  /\ pc' = "args" /\ outcome' = "none"
  /\ args' = line /\ positionals' = <<>> /\ opt' = Fresh /\ unclaimed' = <<>>
  /\ given' = Expanded(line)
  /\ UNCHANGED file

Start ==
  /\ pc = "typing"
  /\ \E n \in 0..MaxArgs : \E line \in [1..n -> Args] : Run(line)
  /\ UNCHANGED saved

(* The program is run again on nothing but the file that it has saved.     *)
Reload ==
  /\ pc = "done" /\ outcome = "ok" /\ saved = <<>>
  /\ opt[Named("save-config")].value = File
  /\ Run(<<Long(<<"load-config">>), File>>)
  /\ saved' = opt

(* A ConfigException or an IOException.                                    *)
Fail ==
  /\ pc' = "done" /\ outcome' = "exit1"
  /\ UNCHANGED <<args, positionals, opt, unclaimed, file, given, saved>>

Continue == UNCHANGED <<pc, outcome, positionals, unclaimed, file, given, saved>>

Processing == pc = "args" /\ args # <<>>
TheNode == Find(Head(args))
OptionNext == Processing /\ Found(Head(args))
ValueNext == Len(args) > 1 /\ ~Found(args[2])

KeepPositional ==
  /\ Processing /\ ~Found(Head(args))
  /\ positionals' = Append(positionals, Head(args))
  /\ args' = Tail(args)
  /\ UNCHANGED <<pc, outcome, opt, unclaimed, file, given, saved>>

RejectMention ==
  OptionNext /\ ~AcceptsMention(TheNode) /\ Fail

RejectMissingValue ==
  /\ OptionNext /\ AcceptsAssignment(TheNode) /\ RequiresAssignment(TheNode)
  /\ ~ValueNext
  /\ Fail

MentionOnly ==
  /\ OptionNext /\ AcceptsMention(TheNode)
  /\ \/ ~AcceptsAssignment(TheNode)
     \/ ~RequiresAssignment(TheNode) /\ ~ValueNext
  /\ opt' = Mentioned(opt, TheNode)
  /\ args' = Tail(args)
  /\ Continue

AssignNext == OptionNext /\ AcceptsAssignment(TheNode) /\ ValueNext

RejectValue ==
  /\ AssignNext
  /\ \/ ~Assignable(TheNode, args[2])
     \/ TheNode = Named("load-config") /\ ~Opens(args[2])
  /\ Fail

Loads_AtTheEnd(i, rest) ==
  IF i = Named("load-config") THEN rest \o LoadedArgs(file) ELSE rest

(* load_config puts the file's arguments before the rest.                  *)
Loads(i, rest) ==
  IF i = Named("load-config") THEN LoadedArgs(file) \o rest ELSE rest

AssignOption ==
  /\ AssignNext /\ Assignable(TheNode, args[2])
  /\ TheNode = Named("load-config") => Opens(args[2])
  /\ opt' = Assigned(opt, TheNode, args[2])
  /\ args' = Loads(TheNode, Tail(Tail(args)))
  /\ Continue

(* The nodes that take positional arguments, in order of precedence, but   *)
(* for those already mentioned.                                            *)
PositionalNodes(o) ==
  SetToSortSeq({i \in DOMAIN Nodes : /\ Nodes[i].precedence # -1
                                     /\ AcceptsMention(i) /\ AcceptsAssignment(i)
                                     /\ ~o[i].mentioned},
               LAMBDA i, j : Nodes[i].precedence < Nodes[j].precedence)

AssignPositionals ==
  /\ pc = "args" /\ args = <<>>
  /\ LET nodes == PositionalNodes(opt)
         n == Min({Len(nodes), Len(positionals)})
         at(i) == CHOOSE k \in 1..n : nodes[k] = i
         taken == {nodes[k] : k \in 1..n}
     IN  IF \A i \in taken : Assignable(i, positionals[at(i)])
         THEN /\ opt' = [i \in DOMAIN Nodes |->
                           IF i \in taken THEN Assigned(opt, i, positionals[at(i)])[i]
                           ELSE opt[i]]
              /\ positionals' = SubSeq(positionals, n + 1, Len(positionals))
              /\ pc' = "validate"
              /\ UNCHANGED <<outcome, args, unclaimed, file, given, saved>>
         ELSE Fail

-----------------------------------------------------------------------------
(* Option::validate, and _validate of its kind. *)

LacksValue(i) ==
  ~opt[i].assigned /\ AcceptsAssignment(i) /\ ~Nodes[i].optional /\ ~Is(i, {"class"})

Unset(i) == LacksValue(i) /\ Nodes[i].default = NoValue

Validated_NoDefault(i) ==
  IF Is(i, {"flag"}) /\ opt[i].mentioned /\ ~opt[i].assigned
  THEN [opt[i] EXCEPT !.value = Word("true")] ELSE opt[i]

Validated(i) ==
  IF Is(i, {"flag"}) /\ opt[i].mentioned /\ ~opt[i].assigned
  THEN [opt[i] EXCEPT !.value = Word("true")]
  ELSE IF LacksValue(i) THEN [opt[i] EXCEPT !.value = Nodes[i].default]
  ELSE opt[i]

Invalid(i) ==
  \/ Unset(i)
  \/ Is(i, {"choice"}) /\ Validated(i).value \notin Nodes[i].choices
  \/ Is(i, {"field"}) /\ Validated(i).value = Empty

Refused ==
  \/ \E i \in DOMAIN Nodes : Invalid(i)
  \/ ~AllowUnclaimed /\ positionals # <<>>

RejectConfig == pc = "validate" /\ Refused /\ Fail

(* save_config comes before terminate_main is asked.                       *)
Accept ==
  /\ pc = "validate" /\ ~Refused
  /\ opt' = [i \in DOMAIN Nodes |-> Validated(i)]
  /\ unclaimed' = positionals /\ positionals' = <<>>
  /\ file' = IF opt[Named("save-config")].mentioned
                /\ opt[Named("save-config")].value = File
             THEN Serialise(opt') ELSE file
  /\ outcome' = IF \E i \in DOMAIN Nodes : Is(i, {"command"}) /\ opt[i].mentioned
                THEN "exit0" ELSE "ok"
  /\ pc' = "done"
  /\ UNCHANGED <<args, given, saved>>

Next ==
  \/ Start \/ Reload
  \/ KeepPositional \/ MentionOnly \/ AssignOption
  \/ RejectMention \/ RejectMissingValue \/ RejectValue
  \/ AssignPositionals
  \/ RejectConfig \/ Accept

Spec == Init /\ [][Next]_vars
-----------------------------------------------------------------------------
Configured(i) == ~Is(i, {"command", "group"})

(* A program that goes on has a valid value in every option that is not    *)
(* optional, whether it was given in an argument or in a file, was only    *)
(* mentioned, or is the default; what was assigned has been mentioned. A   *)
(* class keeps its schema's serial unless it was given another name, which *)
(* is not empty: only a document's may be.                                 *)
StartsConfigured ==
  \A i \in DOMAIN Nodes :
    /\ opt[i].assigned => opt[i].mentioned
    /\ outcome = "ok" /\ Configured(i) /\ ~Nodes[i].optional =>
         /\ opt[i].value # NoValue
         /\ Is(i, {"flag"}) => opt[i].value \in {Word("true"), Word("false")}
         /\ Is(i, {"choice"}) => opt[i].value \in Nodes[i].choices
         /\ Is(i, {"field"}) => opt[i].value # Empty
         /\ Is(i, {"class"}) => IF opt[i].assigned THEN opt[i].value # Empty
                                ELSE opt[i].value = Nodes[i].default

(* Where the node is given a value, in the order in which it is to count.  *)
GivenAt(i) ==
  {k \in 2..Len(given) : /\ Found(given[k - 1]) /\ Find(given[k - 1]) = i
                         /\ AcceptsAssignment(i) /\ ~Found(given[k])}

(* Of all the values given on the command line and in the file, which      *)
(* counts where it is loaded, the last one is the option's.                *)
LastValueWins ==
  \A i \in DOMAIN Nodes :
    GivenAt(i) # {} => opt[i].value = Parsed(i, given[Max(GivenAt(i))])

(* No argument is lost or used twice: those that are neither options nor   *)
(* their values go to the positional options that were not mentioned, in   *)
(* order of precedence, and the rest to the program.                       *)
PositionalsInOrder ==
  LET loose == {k \in DOMAIN given :
                  ~Found(given[k]) /\ ~\E i \in DOMAIN Nodes : k \in GivenAt(i)}
      words == [n \in 1..Cardinality(loose) |->
                  given[CHOOSE k \in loose : Cardinality({j \in loose : j < k}) = n - 1]]
      named == {i \in DOMAIN Nodes : \E k \in DOMAIN given :
                  Found(given[k]) /\ Find(given[k]) = i}
      rest == {i \in DOMAIN Nodes : Nodes[i].precedence # -1 /\ opt[i].assigned} \ named
      inOrder == SetToSortSeq(rest, LAMBDA i, j : Nodes[i].precedence < Nodes[j].precedence)
  IN  words = [n \in DOMAIN inOrder |-> opt[inOrder[n]].value] \o unclaimed

(* Everything that a command line and the file it loads say is heeded, if  *)
(* the program goes on.                                                    *)
ArgumentsLand == outcome = "ok" => LastValueWins /\ PositionalsInOrder

(* "Saved configuration files can be read by OpLoadConfig instances"       *)
(* (serialisation.h): the program starts, with the values it had.          *)
SavedFileLoads ==
  saved # <<>> /\ pc = "done" =>
    /\ outcome = "ok"
    /\ \A i \in DOMAIN Nodes :
         Configured(i) /\ i # Named("load-config") => opt[i].value = saved[i].value

(* It does, if no option was mentioned without a value, or is in a group   *)
(* within a group.                                                         *)
PlainFileLoads ==
  (saved # <<>> /\ \A i \in DOMAIN Nodes :
      saved[i].mentioned => saved[i].assigned /\ Len(Nodes[i].path) <= 2)
    => SavedFileLoads
=============================================================================

---------------------------- MODULE CommandLine ----------------------------
(***************************************************************************)
(* Command line options (src/lib/util/opt): TOptions choosing a command,   *)
(* TCommand::InsertArgs taking one argument after the other, and           *)
(* TCommand::Init deciding what becomes of the program.                    *)
(*                                                                         *)
(* An argument is the sequence of its parts: "--name=v" is                 *)
(* <<"--", "name", "=", "v">>, "-nv" is <<"-", "n", "v">>, "-n=v" is       *)
(* <<"-", "n", "=", "v">>, and a plain argument is <<"v">>.                *)
(***************************************************************************)
EXTENDS Integers, SequencesExt

CONSTANTS
    Commands,  \* what the program declares for each command: the type and the
               \* default of its options, the types of its parameters, and
               \* that of the parameters after them or NoRest
    NoRest,
    Args,      \* the arguments users write
    MaxArgs,   \* bound: how many of them
    Numerals   \* the numbers words stand for

\* TElementTypes
Types == {"string", "float", "int", "bool"}

ASSUME CommandAssumption ==
    /\ \A name \in DOMAIN Commands : Commands[name].params \in Seq(Types)
    /\ MaxArgs \in Nat

VARIABLES
    asked,     \* the command's name, as it was typed
    argv,      \* what followed
    next,      \* InsertArgs' i
    options,   \* the values in Options
    params,    \* the values in Parameters
    others,    \* otherParams
    verdict    \* "none"; "inserting"; "ready"; "help", after exit(0); and the
               \* reasons for exit(1): "usage", "value", "unknown", "number",
               \* "less", "more", "required"

cmdVars == <<asked, argv, next, options, params, others, verdict>>

Command == Commands[asked]
Type(k) == IF k = "help" THEN "bool" ELSE Command.options[k].type
Keys    == DOMAIN Command.options \cup {"help"}

\* An empty argument is none (its front() is the character that ends it); a
\* lone "-" is one, and substr throws where its value would begin.
IsOption(a) == a # <<>> /\ a[1] \in {"--", "-"}
OptionKey(a) == IF Len(a) < 2 THEN "" ELSE a[2]

\* The value written in the argument itself, as parts; <<>> when empty.
OwnValue(a) ==
    LET after == SubSeq(a, 3, Len(a))
    IN  IF after # <<>> /\ after[1] = "=" THEN Tail(after) ELSE after

\* FromString: an int that is no number is 0, a float that is none throws.
\* An option of type bool is true, whatever was written.
Readable(type, v) == type = "float" => v \in DOMAIN Numerals
Converted(type, v) ==
    CASE type = "string" -> v
      [] type = "bool"   -> TRUE
      [] OTHER           -> IF v \in DOMAIN Numerals THEN Numerals[v] ELSE 0

Defaults == [k \in Keys |-> IF k = "help" THEN FALSE ELSE Command.options[k].default]

CmdInit ==
    /\ asked = "" /\ argv = <<>> /\ next = 0
    /\ options = <<>> /\ params = <<>> /\ others = <<>> /\ verdict = "none"

\* The constructor of TOptions with a list of commands; with one command, the
\* name is the program's own.
Choose(name) ==
    /\ verdict = "none"
    /\ asked' = name /\ argv' \in BoundedSeq(Args, MaxArgs)
    /\ IF name \in DOMAIN Commands
       THEN next' = 1 /\ options' = Defaults' /\ verdict' = "inserting"
       ELSE verdict' = "usage" /\ UNCHANGED <<next, options>>
    /\ UNCHANGED <<params, others>>

Inserting == verdict = "inserting" /\ next <= Len(argv)
Exit(why) == verdict' = why /\ UNCHANGED <<next, options, params, others>>

\* An argument that is no option.
PlainArg ==
    /\ Inserting /\ ~IsOption(argv[next])
    /\ LET type == Command.params[Len(params) + 1]
           v == argv[next]
       IN  IF Len(params) < Len(Command.params)
           THEN IF Readable(type, v)
                THEN /\ params' = Append(params, Converted(type, v))
                     /\ next' = next + 1 /\ UNCHANGED <<options, others, verdict>>
                ELSE Exit("number")
           ELSE /\ others' = Append(others, v)
                /\ next' = next + 1 /\ UNCHANGED <<options, params, verdict>>
    /\ UNCHANGED <<asked, argv>>

\* Fault: a value is looked for in the next argument of a bool too.
AnyTakesNext(k, own) == own = <<>> /\ next < Len(argv)

\* Is the value of option k the whole next argument, whatever that is.
TakesNext(k, own) == own = <<>> /\ Type(k) # "bool" /\ next < Len(argv)

OptionArg ==
    /\ Inserting /\ IsOption(argv[next])
    /\ LET k == OptionKey(argv[next])
           own == OwnValue(argv[next])
           takes == TakesNext(k, own)
           v == IF takes THEN argv[next + 1] ELSE own
       IN  IF argv[next] = <<"-">> THEN Exit("value")
           ELSE IF k \notin Keys THEN Exit("unknown")
           ELSE IF ~Readable(Type(k), v) THEN Exit("number")
           ELSE /\ options' = [options EXCEPT ![k] = Converted(Type(k), v)]
                /\ next' = next + (IF takes THEN 2 ELSE 1)
                /\ UNCHANGED <<params, others, verdict>>
    /\ UNCHANGED <<asked, argv>>

\* What Init does when the arguments are used up, in its order: the parameters
\* are counted first, and every string must have something in it.
Outcome ==
    IF Len(params) < Len(Command.params) THEN "less" ELSE
    IF options["help"] THEN "help" ELSE
    IF Command.rest = NoRest /\ others # <<>> THEN "more" ELSE
    IF \E i \in DOMAIN others : ~Readable(Command.rest, others[i]) THEN "number" ELSE
    IF \E k \in Keys : Type(k) = "string" /\ options[k] = <<>> THEN "required"
    ELSE "ready"

Finish ==
    /\ verdict = "inserting" /\ next > Len(argv)
    /\ verdict' = Outcome
    /\ params' = IF Outcome = "ready"
                 THEN params \o [i \in DOMAIN others |-> Converted(Command.rest, others[i])]
                 ELSE params
    /\ UNCHANGED <<asked, argv, next, options, others>>

CmdNext ==
    \/ \E name \in DOMAIN Commands \cup {""} : Choose(name)
    \/ PlainArg \/ OptionArg \/ Finish

CmdSpec == CmdInit /\ [][CmdNext]_cmdVars

-----------------------------------------------------------------------------
\* What each argument is for, told without InsertArgs' loop: an option, the
\* value of the option before it, or a parameter.
Roles ==
    LET role[i \in 0..Len(argv)] ==
            IF i = 0 THEN "none"
            ELSE IF role[i - 1] = "option" /\ OwnValue(argv[i - 1]) = <<>>
                    /\ OptionKey(argv[i - 1]) \in Keys
                    /\ Type(OptionKey(argv[i - 1])) # "bool"
                 THEN "value"
            ELSE IF IsOption(argv[i]) THEN "option" ELSE "parameter"
    IN  role

With(role) == {i \in DOMAIN argv : Roles[i] = role}

\* The options that give a value to k.
Givers(k) == {i \in With("option") : OptionKey(argv[i]) = k}

Given(i) == IF i + 1 \in With("value") THEN argv[i + 1] ELSE OwnValue(argv[i])

\* The parameters are the arguments that are no options and no values, in
\* their order.
ParamsAreTheOthers ==
    /\ Len(params) = Cardinality(With("parameter"))
    /\ \A i \in With("parameter") :
           LET n == Cardinality({j \in With("parameter") : j <= i})
               type == IF n <= Len(Command.params) THEN Command.params[n] ELSE Command.rest
           IN  params[n] = Converted(type, argv[i])

\* An option has its last value, or its default when it was given none.  A bool
\* that was given is true, whatever was written; and a string is not empty, so
\* that one declared with an empty default is as required as one without.
OptionsAreGiven ==
    /\ \A i \in With("option") : OptionKey(argv[i]) \in Keys
    /\ \A k \in Keys :
           IF Givers(k) = {}
           THEN options[k] = Defaults[k] /\ (Type(k) = "string" => Defaults[k] # <<>>)
           ELSE IF Type(k) = "bool" THEN options[k]
           ELSE options[k] = Converted(Type(k), Given(Max(Givers(k))))

\* A program that is ready has every argument, once and where it belongs.  Help
\* is shown to those who ask only when they give all parameters as well, and it
\* is not asked for by an argument that an option takes for its value.
VerdictExplained ==
    /\ verdict = "ready" => ParamsAreTheOthers /\ OptionsAreGiven
    /\ verdict = "help" => /\ Givers("help") # {}
                           /\ Cardinality(With("parameter")) >= Len(Command.params)

=============================================================================

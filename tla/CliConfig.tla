------------------------------- MODULE CliConfig -------------------------------
(***************************************************************************)
(* The `serve` command of the CLI program, and the helpers it is built of: *)
(* where the value of an option comes from.  CLI11 is outside: it binds a  *)
(* variable to an option, validates what it assigns, and takes an environ- *)
(* ment variable that it knows of for an option that is not given, unless  *)
(* that value is invalid.                                                  *)
(***************************************************************************)
EXTENDS Naturals, Sequences

CONSTANTS
  Options,   \* the options of the command
  Manual,    \* those whose variable of the environment env_fallback reads
  Given,     \* the values that may be given: a valid one per source, and Bad
  Bad,       \* a value that the validator of an option refuses
  Built,     \* the value that is built into the program
  None,      \* no value
  Unknown,   \* a key that is the name of no option
  MaxLines   \* bound: of the lines key=value of the configuration file

ASSUME CliAssumption ==
  /\ Manual \subseteq Options /\ Unknown \notin Options
  /\ Bad \in Given /\ None \notin Given /\ Built \notin Given \cup {None}
  /\ MaxLines \in Nat

VARIABLES
  argv,   \* per option, the value on the command line
  env,    \* per option, the value of its variable of the environment
  lines,  \* the lines key=value of the file; the others are skipped
  stage,  \* how far the process is
  opt,    \* CLI11: the results of an option that has some
  bound,  \* the variables that the options are bound to
  config  \* the keys of the configuration that are still to be applied

cliVars == <<argv, env, lines, stage, opt, bound, config>>

Maybe == Given \cup {None}

Line == [key : Options \cup {Unknown}, val : Given]

Files == UNION {[1..n -> Line] : n \in 0..MaxLines}

Fresh ==
  /\ stage = "setup"
  /\ opt = [o \in Options |-> None]
  /\ bound = [o \in Options |-> Built]
  /\ config = {}

CliInit ==
  /\ argv \in [Options -> Maybe] /\ env \in [Options -> Maybe] /\ lines \in Files
  /\ Fresh

-----------------------------------------------------------------------------
\* The process ends: a usage error from the parser, or an exception that
\* nothing catches.
Ends(how) == stage' = how /\ UNCHANGED <<argv, env, lines, opt, bound, config>>

\* env_fallback runs before the parser; default_val validates and assigns.
EnvFallback ==
  /\ stage = "setup"
  /\ IF \E o \in Manual : env[o] = Bad
     THEN Ends("uncaught")
     ELSE /\ bound' = [o \in Options |-> IF o \in Manual /\ env[o] # None
                                         THEN env[o] ELSE bound[o]]
          /\ stage' = "parse"
          /\ UNCHANGED <<argv, env, lines, opt, config>>

\* CLI11_PARSE, up to the callback of the command.
Parse ==
  LET result(o) ==
        IF argv[o] # None THEN argv[o]
        ELSE IF o \notin Manual /\ env[o] # Bad THEN env[o] ELSE None IN
  /\ stage = "parse"
  /\ IF \E o \in Options : argv[o] = Bad
     THEN Ends("usage")
     ELSE /\ opt' = [o \in Options |-> result(o)]
          /\ bound' = [o \in Options |-> IF result(o) # None THEN result(o) ELSE bound[o]]
          /\ stage' = "callback"
          /\ UNCHANGED <<argv, env, lines, config>>

Keys == {lines[i].key : i \in DOMAIN lines}

\* cfg[key]: a later line overwrites an earlier one.
Value(key) ==
  lines[CHOOSE i \in DOMAIN lines :
          lines[i].key = key /\ \A j \in i + 1..Len(lines) : lines[j].key # key].val

\* parse_config_file
ReadConfig ==
  /\ stage = "callback"
  /\ config' = Keys
  /\ stage' = "apply"
  /\ UNCHANGED <<argv, env, lines, opt, bound>>

(* Mutant: a value is validated before it is known whether it is needed. *)
ApplyValidates(key) ==
  /\ stage = "apply"
  /\ key \in config
  /\ IF key \in Options /\ Value(key) = Bad
     THEN Ends("usage")
     ELSE /\ config' = config \ {key}
          /\ bound' = IF key = Unknown \/ opt[key] # None THEN bound
                      ELSE [bound EXCEPT ![key] = Value(key)]
          /\ UNCHANGED <<argv, env, lines, stage, opt>>

\* apply_config_defaults takes the keys in the order of a hash table; a key
\* that is the name of no option is skipped, and so is an option that is set.
Apply(key) ==
  /\ stage = "apply"
  /\ key \in config
  /\ IF key = Unknown \/ opt[key] # None
     THEN config' = config \ {key} /\ UNCHANGED <<argv, env, lines, stage, opt, bound>>
     ELSE IF Value(key) = Bad
     THEN Ends("usage")
     ELSE /\ config' = config \ {key}
          /\ bound' = [bound EXCEPT ![key] = Value(key)]
          /\ UNCHANGED <<argv, env, lines, stage, opt>>

Serve ==
  /\ stage = "apply"
  /\ config = {}
  /\ Ends("served")

\* The program is run again, as a new process, with anything changed.
RunAgain(o, v, w) ==
  /\ stage \in {"served", "usage", "uncaught"}
  /\ argv' = [argv EXCEPT ![o] = v] /\ env' = [env EXCEPT ![o] = w]
  /\ lines' = lines
  /\ stage' = "setup"
  /\ opt' = [p \in Options |-> None]
  /\ bound' = [p \in Options |-> Built]
  /\ config' = {}

CliNext ==
  \/ EnvFallback \/ Parse \/ ReadConfig \/ Serve
  \/ \E key \in Options \cup {Unknown} : Apply(key)
  \/ \E o \in Options, v, w \in Maybe : RunAgain(o, v, w)

CliSpec == CliInit /\ [][CliNext]_cliVars

-----------------------------------------------------------------------------
\* The first of them that is a value, in the order of precedence.
FirstOf(vs) == vs[CHOOSE i \in DOMAIN vs : vs[i] # None /\ \A j \in 1..i - 1 : vs[j] = None]

InFile(o) == IF o \in Keys THEN Value(o) ELSE None

Valid(v) == IF v = Bad THEN None ELSE v

(* Where the value of an option comes from, in whatever order the keys are
   applied: for one with envname from the command line, the environment if
   valid, the file, the program; for one with env_fallback the file comes
   before the environment, since what default_val has set does not count as
   set (see DocumentedPrecedence).  The command never runs with a value that
   the validator refuses. *)
Precedence ==
  stage = "served" =>
    \A o \in Options :
      /\ bound[o] # Bad
      /\ bound[o] =
           IF o \in Manual
           THEN FirstOf(<<argv[o], InFile(o), env[o], Built>>)
           ELSE FirstOf(<<argv[o], Valid(env[o]), InFile(o), Built>>)

(* "CLI flags > env vars > config file > hardcoded defaults", for any option.
   The code does not keep it for one with env_fallback: apply_config_defaults
   finds it empty() and lets the file overwrite the environment's value. *)
DocumentedPrecedence ==
  stage = "served" =>
    \A o \in Options :
      bound[o] = FirstOf(<<argv[o], Valid(env[o]), InFile(o), Built>>)

(* Nothing is given up for a value that would not be used: the program ends
   without serving only for a bad value on the command line, in a variable of
   env_fallback, or in the file for an option that has no result: that neither
   the command line nor its envname sets. *)
EndsForAReason ==
  /\ stage = "usage" =>
       \E o \in Options : argv[o] = Bad \/ (InFile(o) = Bad /\ opt[o] = None)
  /\ stage = "uncaught" => \E o \in Manual : env[o] = Bad

(* The command runs with the values of the highest source that has one, in the
   order that the code gives them, or the process ends for a bad value that it
   would have used, or that env_fallback read. *)
ServesAsConfigured == Precedence /\ EndsForAReason
=============================================================================

---------------------------- MODULE CommandLine ----------------------------
(***************************************************************************)
(* The argument parsers of src/cli/command-args.ts and the validation of   *)
(* the raw arguments of the artifact commands (artifact-commands.ts).  An  *)
(* argument is a token: the name of an option, a value, or something else  *)
(* that starts with a dash.  Each parser is the loop over the arguments    *)
(* with the options it knows, followed by what it requires of them.        *)
(***************************************************************************)
EXTENDS Naturals, Sequences, Functions

CONSTANTS
  OtherDashed,   \* tokens that start with a dash and are no option
  AnchorTokens,  \* the values that are anchor ids
  PathTokens,    \* the values that are repository paths
  Refused        \* what is left of a command line that is refused

OptionNames ==
  {"--root", "--spec-root", "--ignore-root", "--anchor", "--seed", "--replace", "--output",
   "--policy", "--scan", "--base", "--head", "--file", "--check", "--diff", "--format",
   "--metadata", "--json"}

StartsWithDash(token) == token \in OptionNames \union OtherDashed

\* An option that has been given is refused, unless it may be repeated.
With(parsed, option, value, repeatable) ==
  IF parsed = Refused THEN Refused
  ELSE IF option \notin DOMAIN parsed
       THEN [o \in {option} \union DOMAIN parsed |-> IF o = option THEN <<value>> ELSE parsed[o]]
  ELSE IF repeatable THEN [parsed EXCEPT ![option] = <<value>> \o @]
  ELSE Refused

\* Mutation: an option without its value is passed over.
ParsedLoosely(args, valued, repeatable, flags) ==
  LET from[k \in 1..(Len(args) + 2)] ==
        IF k > Len(args) THEN <<>>
        ELSE IF args[k] \in flags
             THEN IF k < Len(args) /\ ~StartsWithDash(args[k + 1]) THEN Refused
                  ELSE With(from[k + 1], args[k], TRUE, FALSE)
        ELSE IF args[k] \notin valued \union repeatable THEN Refused
        ELSE IF k = Len(args) \/ StartsWithDash(args[k + 1]) THEN from[k + 1]
        ELSE With(from[k + 2], args[k], args[k + 1], args[k] \in repeatable)
  IN  from[1]

\* The loop of the parsers: the values of every option that is given.  An option
\* that takes values is followed by one; a flag is followed by none.
Parsed(args, valued, repeatable, flags) ==
  LET Follows(k) == k < Len(args) /\ ~StartsWithDash(args[k + 1])
      from[k \in 1..(Len(args) + 2)] ==
        IF k > Len(args) THEN <<>>
        ELSE IF args[k] \in flags
             THEN IF Follows(k) THEN Refused ELSE With(from[k + 1], args[k], TRUE, FALSE)
        ELSE IF args[k] \notin valued \union repeatable \/ ~Follows(k) THEN Refused
        ELSE With(from[k + 2], args[k], args[k + 1], args[k] \in repeatable)
  IN  from[1]

\* What the parsers do after the loop.
Requiring(parsed, options) ==
  IF parsed # Refused /\ options \subseteq DOMAIN parsed THEN parsed ELSE Refused

Given(parsed, option) == option \in DOMAIN parsed

parseInitArgs(args) ==
  Requiring(Parsed(args, {"--root"}, {"--spec-root", "--ignore-root"}, {}), {"--root", "--spec-root"})

parseMapArgs(args) ==
  Requiring(Parsed(args, {"--anchor"}, {"--seed"}, {"--replace"}), {"--anchor", "--seed"})

parseScaffoldArgs(args) == Requiring(Parsed(args, {"--output"}, {}, {}), {"--output"})

\* scan compares its arguments with the two lists it knows.
parseScanArgs(args) ==
  IF args = <<>> THEN <<>> ELSE IF args = <<"--json">> THEN [option \in {"--json"} |-> <<TRUE>>] ELSE Refused

parseCheckArgs(args) == Requiring(Parsed(args, {"--policy", "--scan"}, {}, {"--json"}), {"--policy"})

parseDiffArgs(args) ==
  Requiring(Parsed(args, {"--base", "--head"}, {}, {"--json"}), {"--base", "--head"})

\* Exactly one of the two subjects.
parseExplainArgs(args) ==
  LET p == Requiring(Parsed(args, {"--scan", "--anchor", "--file"}, {}, {"--json"}), {"--scan"})
  IN  IF p # Refused /\ (Given(p, "--anchor") <=> Given(p, "--file")) THEN Refused ELSE p

\* A junit report is made of the check alone, the others of a scan at least.
parseReportArgs(args) ==
  LET p == Requiring(Parsed(args, {"--scan", "--check", "--diff", "--format"}, {}, {}), {"--format"})
  IN  IF p = Refused THEN Refused
      ELSE CASE p["--format"] \in {<<"markdown">>, <<"sarif">>} -> Requiring(p, {"--scan"})
             [] p["--format"] = <<"junit">> ->
                  IF DOMAIN p = {"--format", "--check"} THEN p ELSE Refused
             [] OTHER -> Refused

parseBundleArgs(args) ==
  LET options == {"--scan", "--check", "--diff", "--metadata"}
  IN  Requiring(Parsed(args, options, {}, {"--json"}), options \union {"--json"})

-----------------------------------------------------------------------------
(* the raw arguments *)

\* The paths that are given must be repository paths, the anchor an anchor id.
Validated(parsed, pathOptions) ==
  LET ValuesAre(options, tokens) ==
        \A option \in options \intersect DOMAIN parsed : Range(parsed[option]) \subseteq tokens
  IN  IF /\ parsed # Refused
         /\ ValuesAre(pathOptions, PathTokens)
         /\ ValuesAre({"--anchor"}, AnchorTokens)
      THEN parsed ELSE Refused

\* No seed may be named twice.
validateRawMapArgs(parsed) ==
  LET p == Validated(parsed, {"--seed"})
  IN  IF p # Refused /\ ~IsInjective(p["--seed"]) THEN Refused ELSE p

Commands == {"init", "map", "scaffold", "scan", "check", "diff", "explain", "report", "bundle"}

\* What runAnchormap hands to the handler, Refused for a usage error.  init
\* validates its roots in its handler.
CommandArgs(command, args) ==
  CASE command = "init"     -> parseInitArgs(args)
    [] command = "map"      -> validateRawMapArgs(parseMapArgs(args))
    [] command = "scaffold" -> Validated(parseScaffoldArgs(args), {"--output"})
    [] command = "scan"     -> parseScanArgs(args)
    [] command = "check"    -> Validated(parseCheckArgs(args), {"--policy", "--scan"})
    [] command = "diff"     -> Validated(parseDiffArgs(args), {"--base", "--head"})
    [] command = "explain"  -> Validated(parseExplainArgs(args), {"--scan", "--file"})
    [] command = "report"   -> Validated(parseReportArgs(args), {"--scan", "--check", "--diff"})
    [] command = "bundle"   -> Validated(parseBundleArgs(args),
                                         {"--scan", "--check", "--diff", "--metadata"})
=============================================================================

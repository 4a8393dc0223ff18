----------------------------- MODULE LegacyImport -----------------------------
(***************************************************************************)
(* The import of a service the user wrote: what preview_import reads from  *)
(* its ExecStart, and the command line that replaces it.  Read... is what  *)
(* the code reads, Meaning... what the engine does with the same words.    *)
(*                                                                         *)
(* A command line is a sequence of tokens: options, by their name, and     *)
(* words.  A path is a sequence of names; the options whose values the     *)
(* applet sets itself are one class, "--tuning", and unknown options are   *)
(* "--flag" (alone) and "--valued" (with a value).                         *)
(***************************************************************************)
EXTENDS Naturals, Sequences, SequencesExt

CONSTANTS Paths,        \* absolute paths
          Backends,     \* what rclone config dump knows: remote -> provider
          DefaultConf,  \* the word for ~/.config/rclone/rclone.conf
          None

Option(name) == [opt |-> name, word |-> <<>>]
Word(w) == [opt |-> "text", word |-> w]

Overlap(p, q) == IsPrefix(p, q) \/ IsPrefix(q, p)

\* expand_home; whatever is not absolute stays relative and is refused later.
Relative == <<>>
PathOf(token) == IF token.word \in Paths THEN token.word ELSE Relative

LongOptions == {"--tuning", "--config", "--config=", "--cache-dir", "--flag", "--valued",
                "--config-file", "--auth-only"}
ShortOptions == {"-c"}

IsToken(token) == \/ token.opt \in LongOptions \cup ShortOptions /\ token = Option(token.opt)
                  \/ token = Word(token.word) /\ token.word # None

\* No path is relative, None is no path, and an option is no remote.
ASSUME ImportAssumption ==
  /\ Relative \notin Paths /\ Relative \notin DOMAIN Backends
  /\ None \notin Paths \cup {Relative, <<"value">>, <<"default">>}

-----------------------------------------------------------------------------
(* What the code reads *)

\* An option is followed by a value when the next token is no long option.
HasValue(line, i) == i < Len(line) /\ line[i + 1].opt \notin LongOptions

Nothing == [ok |-> TRUE, cache |-> None, listed |-> {}, target |-> None]
Refused == [Nothing EXCEPT !.ok = FALSE]

\* The last --cache-dir wins, as the loop overwrites what it had.
WithCache(token, rest) == IF rest.cache = None THEN [rest EXCEPT !.cache = PathOf(token)] ELSE rest
Listed(name, rest) == [rest EXCEPT !.listed = @ \cup {name}]

\* Mutant of ReadRclone: the configuration a service names is not looked at.
ReadRcloneAnyConf(line) ==
  LET From[i \in 3..(Len(line) + 2)] ==
        LET next == IF HasValue(line, i) THEN i + 2 ELSE i + 1 IN
        IF i > Len(line) THEN Nothing
        ELSE CASE line[i].opt \in {"--config", "--tuning"} -> From[next]
               [] line[i].opt = "--cache-dir" /\ i < Len(line) -> WithCache(line[i + 1], From[i + 2])
               [] OTHER -> Listed(line[i].opt, From[next])
  IN  From[3]

\* parse_rclone_mount: the options after remote and target, line[1] and line[2].
\* A stray word is listed as itself (here as "text", the name of no option).
ReadRclone(line) ==
  LET From[i \in 3..(Len(line) + 2)] ==
        LET next == IF HasValue(line, i) THEN i + 2 ELSE i + 1 IN
        IF i > Len(line) THEN Nothing
        ELSE CASE line[i].opt = "--config" ->
                    IF i < Len(line) /\ line[i + 1] = Word(DefaultConf) THEN From[i + 2] ELSE Refused
               [] line[i].opt = "--cache-dir" /\ i < Len(line) -> WithCache(line[i + 1], From[i + 2])
               [] line[i].opt = "--cache-dir" /\ i = Len(line) -> Listed("--cache-dir", From[i + 1])
               [] line[i].opt = "--tuning" -> From[next]
               [] line[i].opt = "text" -> Listed("text", From[i + 1])
               [] line[i].opt \in ShortOptions -> Listed(line[i].opt, From[i + 1])
               [] OTHER -> Listed(line[i].opt, From[next])
  IN  From[3]

\* parse_onedriver: every word, and every one-letter option, is a target, and
\* the last one wins.
ReadOnedriver(line) ==
  LET From[i \in 1..(Len(line) + 2)] ==
        LET next == IF HasValue(line, i) THEN i + 2 ELSE i + 1 IN
        IF i > Len(line) THEN Nothing
        ELSE CASE line[i].opt = "--cache-dir" /\ i < Len(line) -> WithCache(line[i + 1], From[i + 2])
               [] line[i].opt = "--cache-dir" /\ i = Len(line) -> Listed("--cache-dir", From[i + 1])
               [] line[i].opt \in {"--config-file", "--auth-only"} -> From[next]
               [] line[i].opt \in LongOptions \ {"--cache-dir", "--config-file", "--auth-only"} ->
                    Listed(line[i].opt, From[next])
               [] OTHER -> IF From[i + 1].target = None
                           THEN [From[i + 1] EXCEPT !.target = PathOf(line[i])] ELSE From[i + 1]
  IN  From[1]

\* preview_import of one unit: the connection it offers, or None.
Offer(engine, line) ==
  IF engine = "onedriver"
  THEN LET read == ReadOnedriver(line) IN
       IF read.target = None THEN None
       ELSE [engine |-> engine, remote |-> "onedrive", local |-> read.target,
             cache |-> read.cache, listed |-> read.listed]
  ELSE IF Len(line) < 2 \/ line[1].word \notin DOMAIN Backends THEN None
  ELSE LET read == ReadRclone(line) IN
       IF ~read.ok THEN None
       ELSE [engine |-> engine, remote |-> line[1].word, local |-> PathOf(line[2]),
             cache |-> read.cache, listed |-> read.listed]

\* rclone_mount_plan and onedriver_mount_plan: the command line of the managed
\* unit.  Without a cache of its own the connection gets one named by its id.
Replacement(offer, default) ==
  LET cache == IF offer.cache = None THEN default ELSE offer.cache IN
  IF offer.engine = "rclone"
  THEN <<Word(offer.remote), Word(offer.local), Option("--tuning"), Word(<<"value">>),
         Option("--cache-dir"), Word(cache)>>
  ELSE <<Option("--config-file"), Word(<<"value">>), Option("--cache-dir"), Word(cache),
         Word(offer.local)>>

-----------------------------------------------------------------------------
(* What the engines do with a command line *)

TakesValue == {"--tuning", "--config", "--cache-dir", "--valued", "--config-file", "-c"}

Plain == [words |-> <<>>, cache |-> None, conf |-> DefaultConf, others |-> {}, ends |-> TRUE]

\* Options may stand anywhere; an option that takes a value takes the next token.
Meaning(line) ==
  LET From[i \in 1..(Len(line) + 2)] ==
        LET name == line[i].opt IN
        IF i > Len(line) THEN [Plain EXCEPT !.ends = i = Len(line) + 1]
        ELSE IF name = "text" THEN [From[i + 1] EXCEPT !.words = <<line[i].word>> \o @]
        ELSE LET rest == From[IF name \in TakesValue THEN i + 2 ELSE i + 1]
                 value == IF name \in TakesValue /\ i < Len(line) THEN line[i + 1].word ELSE <<>>
             IN  CASE name \in {"--cache-dir", "-c"} ->
                        IF rest.cache = None THEN [rest EXCEPT !.cache = value] ELSE rest
                   [] name = "--config" -> [rest EXCEPT !.conf = IF @ = DefaultConf THEN value ELSE @]
                   [] name = "--config=" -> [rest EXCEPT !.conf = <<"joined">>,
                                                         !.others = @ \cup {name}]
                   [] name \in {"--flag", "--valued"} -> [rest EXCEPT !.others = @ \cup {name}]
                   [] OTHER -> rest
  IN  From[1]

\* The engine would start: as many words as it wants, each a path or a remote.
Starts(engine, line) ==
  LET m == Meaning(line) IN
  /\ m.ends /\ m.cache \in Paths \cup {None}
  /\ IF engine = "onedriver" THEN Len(m.words) = 1 /\ m.words[1] \in Paths
     ELSE Len(m.words) = 2 /\ m.words[2] \in Paths

\* Options by their long names, and no value that looks like an option: the code
\* takes such a value for the next option (the first test of HasValue).
Spelled(line) ==
  \A i \in 1..Len(line) :
    /\ line[i].opt \notin ShortOptions
    /\ (line[i].opt \in TakesValue /\ i < Len(line)) => line[i + 1].opt = "text"

(* What is imported does what the service did: the same remote at the same     *)
(* place with the same cache and, unless the preview lists it, nothing else.   *)
Faithful(engine, line, offer) ==
  LET m == Meaning(line)
      new == Meaning(Replacement(offer, <<"default">>))
  IN  /\ new.words = m.words
      /\ new.cache = IF m.cache = None THEN <<"default">> ELSE m.cache
      /\ engine = "rclone" => (m.conf = DefaultConf \/ "--config=" \in offer.listed)
      /\ m.others \subseteq offer.listed

=============================================================================

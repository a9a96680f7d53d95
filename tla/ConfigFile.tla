----------------------------- MODULE ConfigFile -----------------------------
(***************************************************************************)
(* 7.file_dir_opt/rw_cfg.c: a file of lines "key = value" is shown line by *)
(* line, and then searched for a key by a second piece of code that takes  *)
(* the lines apart in another way.  Both read the file in pieces of a line *)
(* buffer; a longer line is taken for two.                                 *)
(***************************************************************************)
EXTENDS Integers, Sequences, SequencesExt, FiniteSets, FiniteSetsExt

CONSTANTS Texts,            (* what the file may be                         *)
          Room,             (* what a line buffer holds, sizeof(line) - 1   *)
          Inputs            (* what the user may enter                      *)

\* A character is a string of length one.
ASSUME ConfigAssumption == Room \in Nat \ {0} /\ Texts \subseteq Seq(STRING)

VARIABLES config,           (* the file                                     *)
          rest,             (* what has not been read of it                 *)
          phase,            (* read, search, done                           *)
          search_key,
          shown,            (* the keys and values that were shown          *)
          found,            (* the values that were found                   *)
          plain,            (* history: no piece had a second '=' or ended
                               with the '='                                 *)
          turns             (* history: what was left, and had been shown,
                               at each turn of the first loop               *)

configVars == <<config, rest, phase, search_key, shown, found, plain, turns>>

Turn(left, entries) == [left |-> left, entries |-> entries]

ConfigInit ==
    /\ config \in Texts
    /\ rest = config /\ phase = "read" /\ search_key = <<>>
    /\ shown = <<>> /\ found = <<>> /\ plain = TRUE /\ turns = <<Turn(rest, shown)>>

-----------------------------------------------------------------------------
isspace(c) == c \in {" ", "\n"}
Where(s, c) == {i \in DOMAIN s : s[i] = c}
Until(s, i) == SubSeq(s, 1, i - 1)
After(s, i) == SubSeq(s, i + 1, Len(s))

\* Lines 73-124.
trim_string(str) ==
    LET solid == {i \in DOMAIN str : ~isspace(str[i])}
    IN IF solid = {} THEN <<>> ELSE SubSeq(str, Min(solid), Max(solid))

\* What fgets returns of s: up to the first newline, or as much as there is room.
fgets(s) == SubSeq(s, 1, Min({Len(s), Room} \cup Where(s, "\n")))

\* Lines 180 and 285.
Skipped(line) == line[1] \in {"#", "\n"}

\* Line 201: without the newline.
Chomp(line) == IF Where(line, "\n") = {} THEN line ELSE Until(line, Min(Where(line, "\n")))

\* What the loop of read_config_file (lines 176-255) shows of a line: nothing, if
\* it has no '=' or no key.  The types of the values are left out.
Shown(line) ==
    LET l == Chomp(line)
        equals == Where(l, "=")
        key == trim_string(Until(l, Min(equals)))
    IN IF Skipped(line) \/ equals = {} \/ key = <<>> THEN <<>>
       ELSE <<[key |-> key, value |-> trim_string(After(l, Min(equals)))]>>

\* strtok_r with "=": the delimiters before the token are skipped; the token, and
\* what is left after it.  No token is empty, so that the empty one is NULL.
NULL == [token |-> <<>>, left |-> <<>>]
strtok_r(s) ==
    LET others == DOMAIN s \ Where(s, "=")
        first == Min(others)
        end == Min({i \in Where(s, "=") : i > first} \cup {Len(s) + 1})
    IN IF others = {} THEN NULL
       ELSE [token |-> SubSeq(s, first, end - 1), left |-> After(s, end)]

\* Mutant: the key is compared as it stands in the file.
UntrimmedFound(line) ==
    LET key == strtok_r(line)
        value == strtok_r(key.left)
    IN IF Skipped(line) \/ key = NULL \/ key.token # search_key \/ value = NULL
         THEN <<>>
         ELSE <<trim_string(value.token)>>

\* What the loop of search_config (lines 283-355) finds in a line.
Found(line) ==
    LET key == strtok_r(line)
        value == strtok_r(key.left)
    IN IF Skipped(line) \/ key = NULL \/ trim_string(key.token) # search_key \/ value = NULL
         THEN <<>>
         ELSE <<trim_string(value.token)>>

-----------------------------------------------------------------------------
\* History: the two pieces of code take such a line apart in the same way.
Unambiguous(line) == Skipped(line) \/ (Cardinality(Where(line, "=")) <= 1 /\ Last(line) # "=")

\* One turn of the loop of read_config_file (lines 152-258).
read_config_file ==
    /\ phase = "read" /\ rest # <<>>
    /\ LET line == fgets(rest) IN
         /\ shown' = shown \o Shown(line)
         /\ plain' = (plain /\ Unambiguous(line))
    /\ rest' = After(rest, Len(fgets(rest)))
    /\ turns' = Append(turns, Turn(rest', shown'))
    /\ UNCHANGED <<config, phase, search_key, found>>

\* search_config, lines 261-278: the file is opened again after a key was entered.
enter_key ==
    /\ phase = "read" /\ rest = <<>>
    /\ search_key' \in {trim_string(input) : input \in Inputs}
    /\ IF search_key' = <<>> THEN phase' = "done" /\ UNCHANGED rest
       ELSE phase' = "search" /\ rest' = config
    /\ UNCHANGED <<config, shown, found, plain, turns>>

\* One turn of the loop of search_config (lines 283-355), and its end.
search_config ==
    /\ phase = "search"
    /\ IF rest = <<>> THEN phase' = "done" /\ UNCHANGED <<rest, found>>
       ELSE /\ found' = found \o Found(fgets(rest))
            /\ rest' = After(rest, Len(fgets(rest)))
            /\ UNCHANGED phase
    /\ UNCHANGED <<config, search_key, shown, plain, turns>>

ConfigNext == read_config_file \/ enter_key \/ search_config
ConfigSpec == ConfigInit /\ [][ConfigNext]_configVars
-----------------------------------------------------------------------------
\* values are those of the entries with this key, in their order.
ValuesOf(key, entries, values) ==
    \E at \in [DOMAIN values -> DOMAIN entries] :
        /\ \A j, k \in DOMAIN values : j < k => at[j] < at[k]
        /\ {at[j] : j \in DOMAIN values} = {i \in DOMAIN entries : entries[i].key = key}
        /\ \A j \in DOMAIN values : values[j] = entries[at[j]].value

\* "Key not found in config" (line 358) is said of exactly the keys that the
\* program has not shown before, and a key that is found has the values that it
\* was shown with, in their order.  Not so in a file that is not plain: a value
\* is cut off at its '=', and the empty value of a line without a newline, the
\* last one or one that fills the buffer, is not found.
SearchFindsWhatIsShown ==
    phase = "done" /\ search_key # <<>> /\ plain => ValuesOf(search_key, shown, found)

(***************************************************************************)
(* The inductive invariant behind it.                                      *)
(***************************************************************************)
Strings  == Seq(STRING)
Settings == [key : Strings, value : Strings]
Turns    == [left : Strings, entries : Seq(Settings)]

ConfigTypeOK ==
    /\ phase \in {"read", "search", "done"} /\ plain \in BOOLEAN
    /\ config \in Strings /\ rest \in Strings /\ found \in Seq(Strings)
    /\ turns \in Seq(Turns)

\* The first loop goes from turn to turn by a line.
NextTurn(t) ==
    Turn(After(t.left, Len(fgets(t.left))), t.entries \o Shown(fgets(t.left)))

TurnsInv ==
    /\ turns # <<>> /\ turns[1] = Turn(config, <<>>) /\ Last(turns).entries = shown
    /\ \A i \in 1..(Len(turns) - 1) :
         /\ turns[i].left # <<>> /\ turns[i + 1] = NextTurn(turns[i])
         /\ plain => Unambiguous(fgets(turns[i].left))

\* The second loop finds what the first had shown at the turn for the same line.
SearchInv ==
    /\ phase = "read" => Last(turns).left = rest /\ found = <<>>
    /\ phase # "read" => Last(turns).left = <<>>
    /\ phase = "search" =>
         /\ search_key # <<>>
         /\ \E i \in DOMAIN turns :
              turns[i].left = rest /\ (plain => ValuesOf(search_key, turns[i].entries, found))

ConfigIInv == ConfigTypeOK /\ TurnsInv /\ SearchInv /\ SearchFindsWhatIsShown
=============================================================================

------------------------------ MODULE Configuration ------------------------------
(***************************************************************************)
(* What the program makes of its configuration file: the reader of         *)
(* utils/INIReader.cpp and the parameters of Config.cpp that the time      *)
(* policy works with.                                                      *)
(*                                                                         *)
(* A line is its kind and what the kind has: a section its name, a pair    *)
(* its key, its number, and whether a blank stands between key and "=".  A *)
(* word is a pair whose value is no number, a void one that has no value;  *)
(* a bare line is a key without "=".                                       *)
(***************************************************************************)
EXTENDS Integers, Sequences, SequencesExt

Lines == [kind : {"section", "pair", "word", "void", "bare", "empty"}, name : STRING,
          key : STRING, blank : BOOLEAN, value : Int]

\* The parameters, their sections and what they are when nothing is said of them.
TimeKeys == {"time_policy_enabled", "time_out_ms", "stage_0_safe_time_s",
             "stage_150_safe_time_s", "quick_play_move_num", "quick_play_move_time_out_ms",
             "over_using_thr_time_out_ms", "under_using_thr_time_out_ms"}
Keys == TimeKeys \cup {"search_threads", "asyn_once_send"}

Section(key) ==
    CASE key \in TimeKeys -> "TimePolicy"
      [] key = "search_threads" -> "MCTS"
      [] key = "asyn_once_send" -> "Remote"

\* All that Config::Sinit asks for, with the parameters whose values the models
\* do not need.
Asked ==
    [Model |-> {"type"},
     MCTS |-> {"virtual_loss", "c_puct", "policy_prob_threshold", "search_threads",
               "resign_threshold", "pass_threshold", "pass_after_n_moves"},
     GTP |-> {"name", "version"},
     TimePolicy |-> TimeKeys \cup {"pondering", "under_using_time_out_ms"},
     Remote |-> {"batch_size", "sleep_threshold", "sleep_interval", "ice_conf",
                 "queue_size", "server_send_thread", "use_asyn_request",
                 "asyn_once_send", "proxy_name", "proxy_number"}]

Default(key) ==
    CASE key = "time_policy_enabled" -> 1
      [] key = "time_out_ms" -> 15000
      [] key = "stage_0_safe_time_s" -> 100
      [] key = "stage_150_safe_time_s" -> 30
      [] key = "quick_play_move_num" -> 3
      [] key = "quick_play_move_time_out_ms" -> 1000
      [] key = "over_using_thr_time_out_ms" -> 3000
      [] key = "under_using_thr_time_out_ms" -> 2000
      [] key \in {"search_threads", "asyn_once_send"} -> 1

\* IniReader::OpenFile: the file has lines, and sections among them.
SectionLines(file) == {i \in DOMAIN file : file[i].kind = "section"}
Opens(file) == SectionLines(file) # {}

\* IniReader::GetString: the lines after each section of that name are looked
\* through up to the next section.  The fault begins a line late.
Beyond(i) == i + 2
FirstLine(i) == i + 1

Searched(file, name) ==
    LET named == {s \in SectionLines(file) : file[s].name = name}
    IN  {i \in DOMAIN file :
            \E s \in named :
                /\ \A other \in named : s <= other
                /\ i >= FirstLine(s)
                /\ \A next \in SectionLines(file) : next > s => i < next}

\* The key must be all that stands before "=", or the whole line without one.
Matches(line, key) ==
    /\ line.kind \in {"pair", "word", "void", "bare"}
    /\ line.key = key /\ ~line.blank

\* full_str_temp.at(0) of an empty line throws, unless the key was found before.
Throws(file, name, key) ==
    \E i \in Searched(file, name) :
        /\ file[i].kind = "empty"
        /\ \A j \in Searched(file, name) : j < i => ~Matches(file[j], key)

\* GetInt, GetBool: the default for nothing, and otherwise atoi, for which a
\* word is 0.
Number(line, key) ==
    CASE line.kind = "pair" -> line.value
      [] line.kind \in {"word", "bare"} -> 0
      [] line.kind = "void" -> Default(key)

Get(file, key) ==
    LET found == {i \in Searched(file, Section(key)) : Matches(file[i], key)}
    IN  IF found = {} THEN Default(key)
        ELSE Number(file[CHOOSE i \in found : \A j \in found : i <= j], key)

\* Config::Sinit asks for every parameter: an empty line in a section it asks for
\* throws unless all keys of the section stand before it.
SinitThrows(file) ==
    \E name \in DOMAIN Asked : \E key \in Asked[name] : Throws(file, name, key)
Sinit(file) == [key \in Keys |-> Get(file, key)]
==============================================================================

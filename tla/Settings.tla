------------------------------ MODULE Settings ------------------------------
(***************************************************************************)
(* The settings of a mount: the table of src/cli.rs, the -o lists of       *)
(* mount(8), and the configuration of src/config.rs.                       *)
(*                                                                         *)
(* An option is a key and a value: <<>> if it has none, <<v>> if it has    *)
(* one.  The two ways to write a dash are one key.  The text of a number   *)
(* is the number, and -1 if it does not parse.  A mode is the set of its   *)
(* bits, counted from the right; 16 stands for what a u16 cannot hold.     *)
(***************************************************************************)
EXTENDS Integers, Sequences

CONSTANTS
  Cores,   \* what available_parallelism answers, 0 if it does not know
  User     \* the caller, and the caller's group

ASSUME SettingsAssumption == Cores \in Nat /\ User \in Nat

MIN_SOURCE_BUFFER == 4 * 1024
MAX_SOURCE_BUFFER == 16 * 1024 * 1024

Config ==
  [verify: BOOLEAN, source_buffer: Nat, decoders_per_file: Nat,
   max_retained_decoders: Nat, threads: Nat, uid: Nat, gid: Nat,
   file_mode: SUBSET (0 .. 15), dir_mode: SUBSET (0 .. 15), attr_ttl: Nat,
   allow_other: BOOLEAN, allow_root: BOOLEAN, auto_unmount: BOOLEAN]

(* 644 and 755.                                                            *)
Default ==
  [verify |-> TRUE, source_buffer |-> 512 * 1024, decoders_per_file |-> 4,
   max_retained_decoders |-> 64,
   threads |-> IF Cores = 0 THEN 4 ELSE IF Cores < 8 THEN Cores ELSE 8,
   uid |-> User, gid |-> User,
   file_mode |-> {2, 5, 7, 8}, dir_mode |-> {0, 2, 3, 5, 6, 7, 8},
   attr_ttl |-> 365 * 24 * 3600,
   allow_other |-> FALSE, allow_root |-> FALSE, auto_unmount |-> FALSE]

-----------------------------------------------------------------------------
(* SETTINGS, by what a setting takes, with the fields that it sets.        *)
Flags ==
  [s \in {"no-verify", "verify", "allow-other", "allow-root", "auto-unmount"} |->
     CASE s = "allow-other" -> "allow_other" [] s = "allow-root" -> "allow_root"
       [] s = "auto-unmount" -> "auto_unmount" [] OTHER -> "verify"]

Numbers ==
  [s \in {"threads", "source-buffer-size", "decoders-per-file",
          "max-retained-decoders", "uid", "gid", "attr-ttl"} |->
     CASE s = "source-buffer-size" -> "source_buffer"
       [] s = "decoders-per-file" -> "decoders_per_file"
       [] s = "max-retained-decoders" -> "max_retained_decoders"
       [] s = "attr-ttl" -> "attr_ttl" [] OTHER -> s]

Modes ==
  [s \in {"file-mode", "dir-mode"} |->
     IF s = "file-mode" THEN "file_mode" ELSE "dir_mode"]

Masks ==
  [s \in {"umask", "fmask", "dmask"} |->
     CASE s = "umask" -> {"file_mode", "dir_mode"} [] s = "fmask" -> {"file_mode"}
       [] s = "dmask" -> {"dir_mode"}]

SETTINGS == DOMAIN Flags \cup DOMAIN Numbers \cup DOMAIN Modes \cup DOMAIN Masks

(* The setting that has the key as its name or as its other spelling.      *)
find(key) == IF key = "noverify" THEN "no-verify" ELSE key

mode(v) == v \cap (0 .. 11)

(* 666 for files and 777 for directories: a mask takes bits from these and *)
(* not from a mode that was given before.                                  *)
Unmasked(f) == IF f = "file_mode" THEN {1, 2, 4, 5, 7, 8} ELSE 0 .. 8

(* What a setting does with what it was given.                             *)
set(c, o) ==
  LET s == find(o.key)
  IN  IF s \in DOMAIN Flags THEN [c EXCEPT ![Flags[s]] = s # "no-verify"]
      ELSE IF s \in DOMAIN Numbers THEN [c EXCEPT ![Numbers[s]] = o.value[1]]
      ELSE IF s \in DOMAIN Modes THEN [c EXCEPT ![Modes[s]] = mode(o.value[1])]
      ELSE [f \in DOMAIN c |->
              IF f \in Masks[s] THEN Unmasked(f) \ mode(o.value[1]) ELSE c[f]]

(* A flag takes no value.  Another setting needs one that parses.          *)
Misused(o) ==
  LET s == find(o.key)
  IN  \/ s \in DOMAIN Flags /\ o.value # <<>>
      \/ s \in SETTINGS \ DOMAIN Flags /\ o.value = <<>>
      \/ s \in DOMAIN Numbers /\ o.value = <<-1>>
      \/ s \in DOMAIN Modes \cup DOMAIN Masks /\ o.value = <<{16}>>

(* apply_one.  What is not a setting changes nothing.                      *)
apply_one(c, o) == IF find(o.key) \in SETTINGS THEN set(c, o) ELSE c

(* apply: the options of a list, in their order.                           *)
apply(c, opts) ==
  LET Applied[n \in 0 .. Len(opts)] ==
        IF n = 0 THEN c ELSE apply_one(Applied[n - 1], opts[n])
  IN  Applied[Len(opts)]

Word(opts, w) == \E i \in DOMAIN opts : opts[i] = [key |-> w, value |-> <<>>]

(* A list asks for what a read-only mount cannot do, or one of its options *)
(* cannot be honoured.                                                     *)
Refused(opts) ==
  \/ Word(opts, "remount") /\ Word(opts, "rw")
  \/ \E i \in DOMAIN opts :
       Misused(opts[i]) \/ (opts[i].key = "remount" /\ opts[i].value # <<>>)

-----------------------------------------------------------------------------
AtLeastOne(x) == IF x < 1 THEN 1 ELSE x

Clamp(x, low, high) == IF x < low THEN low ELSE IF x > high THEN high ELSE x

clamp_OwnCap(c) ==
  [c EXCEPT
     !.source_buffer = Clamp(@, MIN_SOURCE_BUFFER, MAX_SOURCE_BUFFER),
     !.threads = AtLeastOne(@),
     !.max_retained_decoders = AtLeastOne(@),
     !.decoders_per_file = Clamp(@, 1, c.max_retained_decoders),
     !.file_mode = mode(@), !.dir_mode = mode(@)]

(* Config::clamp.  The cap of a file is fitted to the fitted cap of the    *)
(* mount.                                                                  *)
clamp(c) ==
  LET most == AtLeastOne(c.max_retained_decoders)
  IN  [c EXCEPT
         !.source_buffer = Clamp(@, MIN_SOURCE_BUFFER, MAX_SOURCE_BUFFER),
         !.threads = AtLeastOne(@),
         !.max_retained_decoders = most,
         !.decoders_per_file = Clamp(@, 1, most),
         !.file_mode = mode(@), !.dir_mode = mode(@)]
=============================================================================

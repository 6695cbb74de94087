----------------------------- MODULE MCProcess ------------------------------
(* Process for TLC: arguments that set the same field in different ways,   *)
(* go beyond a limit, or are refused.                                      *)
EXTENDS Process

Option(k, v) == [key |-> k, value |-> v]
Long(k, v) == [kind |-> "long", opts |-> <<Option(k, v)>>]
List(opts) == [kind |-> "list", opts |-> opts]
Switch(w) == [kind |-> "switch", word |-> w]

MCArguments ==
  { Switch(w) : w \in {"-f", "--foreground", "-s", "-n", "-t", "-N", "-v", "-h"} }
  \cup
  { Long("threads", <<0>>), Long("threads", <<-1>>), Long("no-verify", <<>>),
    Long("decoders-per-file", <<70>>), Long("max-retained-decoders", <<0>>),
    Long("source-buffer-size", <<1>>),
    List(<<Option("source-buffer-size", <<32 * 1024 * 1024>>)>>),
    Long("file-mode", <<{7, 8, 11, 13}>>),
    Long("umask", <<{1, 4}>>), Long("auto-unmount", <<>>),
    Long("allow-root", <<>>), Long("remount", <<>>),
    List(<<Option("noverify", <<>>), Option("verify", <<>>)>>),
    List(<<Option("dmask", <<{16}>>)>>), List(<<Option("verify", <<1>>)>>),
    List(<<Option("threads", <<>>), Option("rw", <<>>)>>),
    List(<<Option("rw", <<>>), Option("threads", <<3>>), Option("remount", <<>>)>>),
    List(<<Option("remount", <<>>), Option("fmask", <<{2, 5}>>), Option("x-gvfs", <<>>)>>),
    List(<<Option("remount", <<1>>)>>),
    List(<<Option("auto-unmount", <<>>), Option("allow-other", <<>>)>>) }

MCMessage == <<1, 2, 3>>
=============================================================================

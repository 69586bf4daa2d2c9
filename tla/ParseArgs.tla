------------------------------ MODULE ParseArgs ------------------------------
(***************************************************************************)
(* The command lines of fs-virtio9p: what mount_virtio9p makes of its      *)
(* arguments, and what ParseArgs (parse_args.cpp) makes of those.  An      *)
(* argument is a record: the flag -d, -o with its comma-separated options, *)
(* a word, or another flag; an option is a record of key and value.        *)
(***************************************************************************)
EXTENDS Naturals, SequencesExt

CONSTANT NoValue  \* an empty string, a number that was not given

Flag(f)      == [is |-> f, opts |-> << >>, word |-> NoValue]
Options(os)  == [is |-> "-o", opts |-> os, word |-> NoValue]
Word(w)      == [is |-> "word", opts |-> << >>, word |-> w]
Option(k, v) == [key |-> k, value |-> v]

\* mount_virtio9p: the options, the first word (the device, which nobody
\* looks at) and the last of the other words; << >> when that one is missing.
MountHelper(args) ==
    LET words == SelectSeq(args, LAMBDA a : a.is = "word")
        opts  == SelectSeq(args, LAMBDA a : a.is = "-o")
    IN  IF Len(words) < 2 THEN << >>
        ELSE <<Flag("-d")>>
                 \o (IF opts = << >> \/ Last(opts).opts = << >> THEN << >>
                     ELSE <<Last(opts)>>)
                 \o <<Last(words)>>

EmptyConfig == [mount |-> NoValue, transport |-> NoValue, base |-> NoValue,
                irq |-> NoValue, daemonize |-> FALSE]

\* (Mutant: an address alone does not choose the transport.)
ApplyOptionByName(config, o) ==
    CASE o.key = "smem"      -> [config EXCEPT !.base = o.value]
      [] o.key = "irq"       -> [config EXCEPT !.irq = o.value]
      [] o.key = "transport" -> [config EXCEPT !.transport = o.value]
      [] OTHER               -> config

\* An address means MMIO unless a transport was named before it.
ApplyOption(config, o) ==
    CASE o.key = "smem"      ->
            [config EXCEPT !.base = o.value,
                           !.transport = IF @ = NoValue THEN "mmio" ELSE @]
      [] o.key = "irq"       -> [config EXCEPT !.irq = o.value]
      [] o.key = "transport" -> [config EXCEPT !.transport = o.value]
      [] OTHER               -> config

Argument(config, a) ==
    CASE a.is = "-d"   -> [config EXCEPT !.daemonize = TRUE]
      [] a.is = "-o"   -> FoldLeft(ApplyOption, config, a.opts)
      [] a.is = "word" -> [config EXCEPT !.mount = a.word]
      [] OTHER         -> config

ParseArgs(args) ==
    LET config == FoldLeft(Argument, EmptyConfig, args)
    IN  [config EXCEPT !.mount = IF @ = NoValue THEN "/mnt/host" ELSE @,
                       !.transport = IF @ = NoValue THEN "pci" ELSE @]

\* CreateTransport: whatever is not "mmio" is PCI.
TransportOf(config) == IF config.transport = "mmio" THEN "mmio" ELSE "pci"
=============================================================================

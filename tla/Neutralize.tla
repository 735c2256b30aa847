----------------------------- MODULE Neutralize -----------------------------
(* arch.neutralize (sys-linux-specifications/init.go): the rewriting that makes *)
(* a call harmless to the machine it runs on.  An argument of 64 bits is kept   *)
(* as its low half, a constant of the kernel by name, and a flag for bits set   *)
(* above: the kernel reads only the low half of the commands below.             *)
EXTENDS Integers

Wide(lo) == [hi |-> 1, lo |-> lo]
Const(lo) == [hi |-> 0, lo |-> lo]
MinusOne == Wide("MINUS_ONE")

(* The fields of struct arch; Other stands for every value without a name.     *)
IoctlConsts == {"FIFREEZE", "FITHAW", "SNAPSHOT_FREEZE", "SNAPSHOT_POWER_OFF",
                "EXT4_IOC_SHUTDOWN", "EXT4_IOC_RESIZE_FS", "EXT4_IOC_MIGRATE",
                "TIOCSSERIAL", "TIOCGSERIAL", "Other"}
SyslogConsts == {"CONSOLE_OFF", "CONSOLE_ON", "CONSOLE_LEVEL", "CLEAR", "SIZE_UNREAD", "Other"}
FamilyConsts == {"AF_NFC", "AF_LLC", "AF_BLUETOOTH", "AF_X25", "AF_AX25", "AF_NETROM",
                 "AF_ROSE", "AF_IEEE802154", "AF_NETLINK", "Other"}
PermissionEvents == {"FAN_OPEN_PERM", "FAN_ACCESS_PERM", "FAN_OPEN_EXEC_PERM"}
ModuleLimit == 1024 * 1024

Values(names) == [hi : {0, 1}, lo : names]
Policies == Values({"SCHED_NORMAL", "SCHED_FIFO", "SCHED_RR", "Other"})
OpenDevArgs ==
    [type : {"pointer", "const", "range", "other"}, begin : Nat, end : Nat, val : Nat]

(* The calls the neutralizer knows by name, with the arguments it looks at, as   *)
(* the generator, a mutation or a program that is read may leave them.         *)
IsCall(c) ==
    \/ c \in [kind : {"mremap"}, flags : SUBSET STRING]
    \/ c \in [kind : {"syslog"}, cmd : Values(SyslogConsts)]
    \/ c \in [kind : {"ioctl"}, cmd : Values(IoctlConsts)]
    \/ c \in [kind : {"fanotify_mark"}, mask : SUBSET STRING]
    \/ c \in [kind : {"ptrace"}, req : Values({"PTRACE_TRACEME", "Other"})]
    \/ c \in [kind : {"arch_prctl"}, cmd : Values({"ARCH_SET_FS", "ARCH_SET_GS", "Other"})]
    \/ c \in [kind : {"init_module"}, size : Nat]
    \/ c \in [kind : {"syz_init_net_socket"}, family : Values(FamilyConsts),
              type : STRING, proto : STRING]
    \/ c \in [kind : {"syz_open_dev"}, args : [1 .. 3 -> OpenDevArgs]]
    \/ c \in [kind : {"sched_setattr"}, attr : {"number", "address", "null"}]
    \/ c \in [kind : {"sched_setattr"}, attr : {"struct"}, policy : Policies]
    \/ c \in [kind : {"sched_setattr"}, attr : {"squashed"}, head : {"data", "resource"},
              dir : {"in", "out"}, inHead : BOOLEAN, policy : Policies]

-----------------------------------------------------------------------------
(* The cases of the switch on the name of the call.                            *)
neutralizeMremap(call) ==
    IF "MREMAP_MAYMOVE" \in call.flags
    THEN [call EXCEPT !.flags = @ \cup {"MREMAP_FIXED"}] ELSE call

neutralizeSyslog(call) ==
    [call EXCEPT !.cmd =
        IF @.lo \in {"CONSOLE_OFF", "CONSOLE_ON", "CONSOLE_LEVEL", "CLEAR"}
        THEN Const("SIZE_UNREAD") ELSE Const(@.lo)]

IoctlReplacement ==
    [FIFREEZE |-> "FITHAW", SNAPSHOT_FREEZE |-> "FITHAW", SNAPSHOT_POWER_OFF |-> "FITHAW",
     EXT4_IOC_SHUTDOWN |-> "EXT4_IOC_MIGRATE", EXT4_IOC_RESIZE_FS |-> "EXT4_IOC_MIGRATE",
     TIOCSSERIAL |-> "TIOCGSERIAL"]
\* A mutant: one command is replaced by another that is dangerous itself.
IoctlOneByOne(call) ==
    IF call.cmd.lo = "EXT4_IOC_SHUTDOWN" THEN [call EXCEPT !.cmd = Const("EXT4_IOC_RESIZE_FS")]
    ELSE IF call.cmd.lo \in DOMAIN IoctlReplacement
         THEN [call EXCEPT !.cmd = Const(IoctlReplacement[call.cmd.lo])] ELSE call
neutralizeIoctl(call) ==
    IF call.cmd.lo \in DOMAIN IoctlReplacement
    THEN [call EXCEPT !.cmd = Const(IoctlReplacement[call.cmd.lo])] ELSE call

neutralizeFanotify(call) == [call EXCEPT !.mask = @ \ PermissionEvents]

\* A mutant: the request is compared with all its 64 bits.
PtraceAllBits(call) ==
    IF call.req = Const("PTRACE_TRACEME") THEN [call EXCEPT !.req = MinusOne] ELSE call
neutralizePtrace(call) ==
    IF call.req.lo = "PTRACE_TRACEME" THEN [call EXCEPT !.req = MinusOne] ELSE call

neutralizeArchPrctl(call) ==
    IF call.cmd.lo = "ARCH_SET_FS" THEN [call EXCEPT !.cmd = Const("ARCH_SET_GS")] ELSE call

neutralizeInitModule(call) == [call EXCEPT !.size = @ % ModuleLimit]

neutralizeInitNetSocket(call) ==
    CASE call.family.lo \in FamilyConsts \ {"AF_NETLINK", "Other"} -> call
      [] call.family.lo = "AF_NETLINK" ->
             [call EXCEPT !.type = "SOCK_RAW", !.proto = "NETLINK_GENERIC"]
      [] OTHER -> [call EXCEPT !.family = MinusOne]

(* enforceIntArg: a constant gets its value back, a number outside its range    *)
(* the begin of the range; pointers and other types are left alone.            *)
enforceIntArg(arg) ==
    CASE arg.type = "const" -> [arg EXCEPT !.val = arg.begin]
      [] arg.type = "range" /\ (arg.val < arg.begin \/ arg.val > arg.end) ->
             [arg EXCEPT !.val = arg.begin]
      [] OTHER -> arg
neutralizeOpenDev(call) ==
    [call EXCEPT !.args = [i \in 1 .. 3 |-> enforceIntArg(@[i])]]

(* neutralizeSchedAttr: the attribute is a number, a pointer to nowhere, a      *)
(* struct, or a struct the mutation has squashed into raw pieces: then only a   *)
(* first piece of data is cleared, which need not be the one that holds the     *)
(* policy.  The policy of a struct is compared with all its 64 bits.           *)
neutralizeSchedAttr(call) ==
    CASE call.attr \in {"number", "address"} -> [call EXCEPT !.attr = "null"]
      [] call.attr = "squashed" /\ call.head = "data" /\ call.dir # "out" ->
             [call EXCEPT !.policy = IF call.inHead THEN Const("SCHED_NORMAL") ELSE @]
      [] call.attr = "struct" /\ call.policy \in {Const("SCHED_FIFO"), Const("SCHED_RR")} ->
             [call EXCEPT !.policy = Const("SCHED_NORMAL")]
      [] OTHER -> call

neutralizeCall(call) ==
    CASE call.kind = "mremap" -> neutralizeMremap(call)
      [] call.kind = "syslog" -> neutralizeSyslog(call)
      [] call.kind = "ioctl" -> neutralizeIoctl(call)
      [] call.kind = "fanotify_mark" -> neutralizeFanotify(call)
      [] call.kind = "ptrace" -> neutralizePtrace(call)
      [] call.kind = "arch_prctl" -> neutralizeArchPrctl(call)
      [] call.kind = "init_module" -> neutralizeInitModule(call)
      [] call.kind = "syz_init_net_socket" -> neutralizeInitNetSocket(call)
      [] call.kind = "syz_open_dev" -> neutralizeOpenDev(call)
      [] call.kind = "sched_setattr" -> neutralizeSchedAttr(call)
      [] OTHER -> call
=============================================================================

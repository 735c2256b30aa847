---------------------------- MODULE MCLinuxTarget ----------------------------
(* The Linux target with every call it rewrites and a few outcomes of chance.  *)
EXTENDS LinuxTarget

\* Of n outcomes the first and the last are explored, of a random byte the last.
PicksEnds(n) == IF n = 256 THEN {255} ELSE {0, n - 1}

SomeArgs ==
    [type : {"pointer"}, begin : {0}, end : {0}, val : {0}] \cup
    [type : {"const", "range"}, begin : {1}, end : {4}, val : {0, 1, 4, 5}]
Calls ==
    [kind : {"mremap"}, flags : SUBSET {"MREMAP_MAYMOVE", "MREMAP_FIXED"}] \cup
    [kind : {"syslog"}, cmd : Values(SyslogConsts)] \cup
    [kind : {"ioctl"}, cmd : Values(IoctlConsts)] \cup
    [kind : {"fanotify_mark"}, mask : SUBSET (PermissionEvents \cup {"FAN_OPEN"})] \cup
    [kind : {"ptrace"}, req : Values({"PTRACE_TRACEME", "Other"})] \cup
    [kind : {"arch_prctl"}, cmd : Values({"ARCH_SET_FS", "ARCH_SET_GS", "Other"})] \cup
    [kind : {"init_module"}, size : {0, ModuleLimit - 1, ModuleLimit, 5 * ModuleLimit + 3}] \cup
    [kind : {"syz_init_net_socket"}, family : Values(FamilyConsts),
     type : {"SOCK_RAW", "SOCK_DGRAM"}, proto : {"NETLINK_GENERIC", "NETLINK_ROUTE"}] \cup
    [kind : {"syz_open_dev"}, args : [1 .. 3 -> SomeArgs]] \cup
    [kind : {"sched_setattr"}, attr : {"number", "address", "null"}] \cup
    [kind : {"sched_setattr"}, attr : {"struct"}, policy : Policies] \cup
    [kind : {"sched_setattr"}, attr : {"squashed"}, head : {"data", "resource"},
     dir : {"in", "out"}, inHead : BOOLEAN, policy : Policies]

\* The templates that names of complete algorithms mention are in the table too.
ASSUME TemplatesPresent ==
    \A t \in Types : Algorithms[t].mention \subseteq {alg.name : alg \in Templates[t]}

\* An expansion opens less than one name on average, whatever its type: it ends.
ASSUME ExpansionsEnd ==
    \A t \in Types :
        MapThenSumSet(LAMBDA alg : Len(alg.args), Templates[t])
            < Algorithms[t].number + Cardinality(Templates[t])
=============================================================================

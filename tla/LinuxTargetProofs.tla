-------------------------- MODULE LinuxTargetProofs --------------------------
(* What the kernel is given is harmless and stays the same when it is           *)
(* neutralized again, and descriptors, times, tables and algorithm names are    *)
(* what the kernel expects, for every set of calls a generator or a seed comes  *)
(* up with, every Picks, every choice of entry sizes and every bound of the     *)
(* target.                                                                     *)
EXTENDS LinuxTarget, FiniteSetTheorems, SequenceTheorems, WellFoundedInduction, TLAPS

\* Neutralizing the call makes it harmless, once is enough, and it is the same call.
NeutralOnce(c) ==
    /\ HarmlessCall(neutralizeCall(c))
    /\ neutralizeCall(c).kind = c.kind
    /\ neutralizeCall(neutralizeCall(c)) = neutralizeCall(c)
    /\ "ebt_replace" \notin {c.kind, neutralizeCall(c).kind}

(* A case of the switch at a time, on a call given by its fields: what the case *)
(* makes of it, from which both facts follow.                                  *)
LEMMA MremapOnce ==
    ASSUME NEW f \in SUBSET STRING, NEW c, c = [kind |-> "mremap", flags |-> f]
    PROVE  NeutralOnce(c)
<1> DEFINE g == IF "MREMAP_MAYMOVE" \in f THEN f \cup {"MREMAP_FIXED"} ELSE f
           d == [kind |-> "mremap", flags |-> g]
<1>1. neutralizeMremap(c) = d
  BY DEF neutralizeMremap
<1>2. neutralizeMremap(d) = d
  BY DEF neutralizeMremap
<1>3. neutralizeCall(c) = d /\ neutralizeCall(d) = d
  BY <1>1, <1>2 DEF neutralizeCall
<1>4. HarmlessCall(d)
  BY DEF HarmlessCall
<1> QED
  BY <1>3, <1>4 DEF NeutralOnce

LEMMA SyslogOnce ==
    ASSUME NEW hi \in {0, 1}, NEW lo \in SyslogConsts,
           NEW c, c = [kind |-> "syslog", cmd |-> [hi |-> hi, lo |-> lo]]
    PROVE  NeutralOnce(c)
<1> DEFINE l == IF lo \in {"CONSOLE_OFF", "CONSOLE_ON", "CONSOLE_LEVEL", "CLEAR"}
                THEN "SIZE_UNREAD" ELSE lo
           d == [kind |-> "syslog", cmd |-> [hi |-> 0, lo |-> l]]
<1>1. neutralizeSyslog(c) = d
  BY DEF neutralizeSyslog, Const
<1>2. neutralizeSyslog(d) = d
  BY DEF neutralizeSyslog, Const
<1>3. neutralizeCall(c) = d /\ neutralizeCall(d) = d
  BY <1>1, <1>2 DEF neutralizeCall
<1>4. HarmlessCall(d)
  BY DEF HarmlessCall, SyslogConsts
<1> QED
  BY <1>3, <1>4 DEF NeutralOnce

LEMMA IoctlOnce ==
    ASSUME NEW hi \in {0, 1}, NEW lo \in IoctlConsts,
           NEW c, c = [kind |-> "ioctl", cmd |-> [hi |-> hi, lo |-> lo]]
    PROVE  NeutralOnce(c)
<1> DEFINE l == IF lo \in DOMAIN IoctlReplacement THEN IoctlReplacement[lo] ELSE lo
           h == IF lo \in DOMAIN IoctlReplacement THEN 0 ELSE hi
           d == [kind |-> "ioctl", cmd |-> [hi |-> h, lo |-> l]]
<1>1. neutralizeIoctl(c) = d
  BY DEF neutralizeIoctl, Const
<1>2. l \in {"FITHAW", "EXT4_IOC_MIGRATE", "TIOCGSERIAL", "Other"}
  BY DEF IoctlConsts, IoctlReplacement
<1>3. neutralizeIoctl(d) = d
  BY <1>2 DEF neutralizeIoctl, IoctlReplacement
<1>4. neutralizeCall(c) = d /\ neutralizeCall(d) = d
  BY <1>1, <1>3 DEF neutralizeCall
<1>5. HarmlessCall(d)
  BY <1>2 DEF HarmlessCall
<1> QED
  BY <1>4, <1>5 DEF NeutralOnce

LEMMA FanotifyOnce ==
    ASSUME NEW m \in SUBSET STRING, NEW c, c = [kind |-> "fanotify_mark", mask |-> m]
    PROVE  NeutralOnce(c)
<1> DEFINE d == [kind |-> "fanotify_mark", mask |-> m \ PermissionEvents]
<1>1. neutralizeFanotify(c) = d
  BY DEF neutralizeFanotify
<1>2. neutralizeFanotify(d) = d
  BY DEF neutralizeFanotify
<1>3. neutralizeCall(c) = d /\ neutralizeCall(d) = d
  BY <1>1, <1>2 DEF neutralizeCall
<1>4. HarmlessCall(d)
  BY DEF HarmlessCall
<1> QED
  BY <1>3, <1>4 DEF NeutralOnce

LEMMA PtraceOnce ==
    ASSUME NEW hi \in {0, 1}, NEW lo \in {"PTRACE_TRACEME", "Other"},
           NEW c, c = [kind |-> "ptrace", req |-> [hi |-> hi, lo |-> lo]]
    PROVE  NeutralOnce(c)
<1> DEFINE r == IF lo = "PTRACE_TRACEME" THEN [hi |-> 1, lo |-> "MINUS_ONE"]
                ELSE [hi |-> hi, lo |-> lo]
           d == [kind |-> "ptrace", req |-> r]
<1>1. neutralizePtrace(c) = d
  BY DEF neutralizePtrace, MinusOne, Wide
<1>2. neutralizePtrace(d) = d
  BY DEF neutralizePtrace, MinusOne, Wide
<1>3. neutralizeCall(c) = d /\ neutralizeCall(d) = d
  BY <1>1, <1>2 DEF neutralizeCall
<1>4. HarmlessCall(d)
  BY DEF HarmlessCall
<1> QED
  BY <1>3, <1>4 DEF NeutralOnce

LEMMA ArchPrctlOnce ==
    ASSUME NEW hi \in {0, 1}, NEW lo \in {"ARCH_SET_FS", "ARCH_SET_GS", "Other"},
           NEW c, c = [kind |-> "arch_prctl", cmd |-> [hi |-> hi, lo |-> lo]]
    PROVE  NeutralOnce(c)
<1> DEFINE r == IF lo = "ARCH_SET_FS" THEN [hi |-> 0, lo |-> "ARCH_SET_GS"]
                ELSE [hi |-> hi, lo |-> lo]
           d == [kind |-> "arch_prctl", cmd |-> r]
<1>1. neutralizeArchPrctl(c) = d
  BY DEF neutralizeArchPrctl, Const
<1>2. neutralizeArchPrctl(d) = d
  BY DEF neutralizeArchPrctl, Const
<1>3. neutralizeCall(c) = d /\ neutralizeCall(d) = d
  BY <1>1, <1>2 DEF neutralizeCall
<1>4. HarmlessCall(d)
  BY DEF HarmlessCall
<1> QED
  BY <1>3, <1>4 DEF NeutralOnce

LEMMA InitModuleOnce ==
    ASSUME NEW s \in Nat, NEW c, c = [kind |-> "init_module", size |-> s]
    PROVE  NeutralOnce(c)
<1> DEFINE r == s % ModuleLimit
           d == [kind |-> "init_module", size |-> r]
<1>0. ModuleLimit \in Nat \ {0}
  BY SMT DEF ModuleLimit
<1>1. r \in 0 .. ModuleLimit - 1 /\ r % ModuleLimit = r
  BY <1>0
<1>2. neutralizeInitModule(c) = d
  BY DEF neutralizeInitModule
<1>3. neutralizeInitModule(d) = d
  BY <1>1 DEF neutralizeInitModule
<1>4. neutralizeCall(c) = d /\ neutralizeCall(d) = d
  BY <1>2, <1>3 DEF neutralizeCall
<1>5. HarmlessCall(d)
  BY <1>1, <1>0 DEF HarmlessCall
<1> QED
  BY <1>4, <1>5 DEF NeutralOnce

LEMMA InitNetSocketOnce ==
    ASSUME NEW hi \in {0, 1}, NEW lo \in FamilyConsts, NEW t \in STRING, NEW p \in STRING,
           NEW c, c = [kind |-> "syz_init_net_socket", family |-> [hi |-> hi, lo |-> lo],
                       type |-> t, proto |-> p]
    PROVE  NeutralOnce(c)
<1>1. CASE lo \in FamilyConsts \ {"AF_NETLINK", "Other"}
  <2>1. neutralizeInitNetSocket(c) = c
    BY <1>1 DEF neutralizeInitNetSocket
  <2>2. neutralizeCall(c) = c
    BY <2>1 DEF neutralizeCall
  <2>3. HarmlessCall(c)
    BY <1>1 DEF HarmlessCall
  <2> QED
    BY <2>2, <2>3 DEF NeutralOnce
<1>2. CASE lo = "AF_NETLINK"
  <2> DEFINE d == [kind |-> "syz_init_net_socket", family |-> [hi |-> hi, lo |-> lo],
                   type |-> "SOCK_RAW", proto |-> "NETLINK_GENERIC"]
  <2>1. neutralizeInitNetSocket(c) = d
    BY <1>2 DEF neutralizeInitNetSocket
  <2>2. neutralizeInitNetSocket(d) = d
    BY <1>2 DEF neutralizeInitNetSocket
  <2>3. neutralizeCall(c) = d /\ neutralizeCall(d) = d
    BY <2>1, <2>2 DEF neutralizeCall
  <2>4. HarmlessCall(d)
    BY <1>2 DEF HarmlessCall
  <2> QED
    BY <2>3, <2>4 DEF NeutralOnce
<1>3. CASE lo = "Other"
  <2> DEFINE d == [kind |-> "syz_init_net_socket", family |-> MinusOne, type |-> t, proto |-> p]
  <2>1. MinusOne.lo = "MINUS_ONE" /\ "MINUS_ONE" \notin FamilyConsts
    BY DEF MinusOne, Wide, FamilyConsts
  <2>2. neutralizeInitNetSocket(c) = d
    BY <1>3 DEF neutralizeInitNetSocket
  <2>3. neutralizeInitNetSocket(d) = d
    BY <2>1 DEF neutralizeInitNetSocket
  <2>4. neutralizeCall(c) = d /\ neutralizeCall(d) = d
    BY <2>2, <2>3 DEF neutralizeCall
  <2>5. HarmlessCall(d)
    BY <2>1 DEF HarmlessCall
  <2> QED
    BY <2>4, <2>5 DEF NeutralOnce
<1> QED
  BY <1>1, <1>2, <1>3

LEMMA EnforceOnce ==
    ASSUME NEW a \in OpenDevArgs
    PROVE  enforceIntArg(enforceIntArg(a)) = enforceIntArg(a)
<1>1. PICK t \in {"pointer", "const", "range", "other"}, b \in Nat, e \in Nat, v \in Nat :
          a = [type |-> t, begin |-> b, end |-> e, val |-> v]
  BY DEF OpenDevArgs
<1> DEFINE d == [type |-> t, begin |-> b, end |-> e, val |-> b]
<1>2. enforceIntArg(a) = a \/ enforceIntArg(a) = d
  BY <1>1 DEF enforceIntArg
<1>3. enforceIntArg(d) = d
  BY DEF enforceIntArg
<1> QED
  BY <1>2, <1>3

LEMMA OpenDevOnce ==
    ASSUME NEW as \in [1 .. 3 -> OpenDevArgs], NEW c, c = [kind |-> "syz_open_dev", args |-> as]
    PROVE  NeutralOnce(c)
<1> DEFINE f == [i \in 1 .. 3 |-> enforceIntArg(as[i])]
           g == [i \in 1 .. 3 |-> enforceIntArg(f[i])]
           d == [kind |-> "syz_open_dev", args |-> f]
<1>1. neutralizeOpenDev(c) = d
  <2>1. neutralizeOpenDev(c) = [c EXCEPT !.args = [i \in 1 .. 3 |-> enforceIntArg(c.args[i])]]
    BY DEF neutralizeOpenDev
  <2>2. c.args = as
    OBVIOUS
  <2>3. neutralizeOpenDev(c) = [c EXCEPT !.args = f]
    BY <2>1, <2>2
  <2> QED
    BY <2>3
<1>2. g = f
  BY EnforceOnce
<1>3. d.args = f
  OBVIOUS
<1>4. neutralizeOpenDev(d) = d
  <2>1. neutralizeOpenDev(d) = [d EXCEPT !.args = [i \in 1 .. 3 |-> enforceIntArg(d.args[i])]]
    BY DEF neutralizeOpenDev
  <2>2. neutralizeOpenDev(d) = [d EXCEPT !.args = f]
    BY <2>1, <1>2, <1>3
  <2> QED
    BY <2>2
<1>5. neutralizeCall(c) = d /\ neutralizeCall(d) = d
  BY <1>1, <1>4 DEF neutralizeCall
<1>6. HarmlessCall(d)
  BY DEF HarmlessCall
<1> QED
  BY <1>5, <1>6 DEF NeutralOnce

LEMMA SchedNullOnce ==
    ASSUME NEW a \in {"number", "address", "null"},
           NEW c, c = [kind |-> "sched_setattr", attr |-> a]
    PROVE  NeutralOnce(c)
<1> DEFINE d == [kind |-> "sched_setattr", attr |-> "null"]
<1>1. neutralizeSchedAttr(c) = d
  BY DEF neutralizeSchedAttr
<1>2. neutralizeSchedAttr(d) = d
  BY DEF neutralizeSchedAttr
<1>3. neutralizeCall(c) = d /\ neutralizeCall(d) = d
  BY <1>1, <1>2 DEF neutralizeCall
<1>4. HarmlessCall(d)
  BY DEF HarmlessCall
<1> QED
  BY <1>3, <1>4 DEF NeutralOnce

LEMMA SchedStructOnce ==
    ASSUME NEW hi \in {0, 1}, NEW lo \in {"SCHED_NORMAL", "SCHED_FIFO", "SCHED_RR", "Other"},
           NEW c, c = [kind |-> "sched_setattr", attr |-> "struct",
                       policy |-> [hi |-> hi, lo |-> lo]]
    PROVE  NeutralOnce(c)
<1> DEFINE l == IF hi = 0 /\ lo \in {"SCHED_FIFO", "SCHED_RR"} THEN "SCHED_NORMAL" ELSE lo
           d == [kind |-> "sched_setattr", attr |-> "struct", policy |-> [hi |-> hi, lo |-> l]]
<1>1. neutralizeSchedAttr(c) = d
  BY DEF neutralizeSchedAttr, Const
<1>2. neutralizeSchedAttr(d) = d
  BY DEF neutralizeSchedAttr, Const
<1>3. neutralizeCall(c) = d /\ neutralizeCall(d) = d
  BY <1>1, <1>2 DEF neutralizeCall
<1>4. HarmlessCall(d)
  BY DEF HarmlessCall
<1> QED
  BY <1>3, <1>4 DEF NeutralOnce

LEMMA SchedSquashedOnce ==
    ASSUME NEW h \in {"data", "resource"}, NEW dir \in {"in", "out"}, NEW in \in BOOLEAN,
           NEW p \in Policies,
           NEW c, c = [kind |-> "sched_setattr", attr |-> "squashed", head |-> h, dir |-> dir,
                       inHead |-> in, policy |-> p]
    PROVE  NeutralOnce(c)
<1> DEFINE q == IF h = "data" /\ dir # "out" /\ in THEN Const("SCHED_NORMAL") ELSE p
           d == [kind |-> "sched_setattr", attr |-> "squashed", head |-> h, dir |-> dir,
                 inHead |-> in, policy |-> q]
<1>1. neutralizeSchedAttr(c) = d
  BY DEF neutralizeSchedAttr
<1>2. neutralizeSchedAttr(d) = d
  BY DEF neutralizeSchedAttr
<1>3. neutralizeCall(c) = d /\ neutralizeCall(d) = d
  BY <1>1, <1>2 DEF neutralizeCall
<1>4. HarmlessCall(d)
  BY DEF HarmlessCall, Const
<1> QED
  BY <1>3, <1>4 DEF NeutralOnce

\* Every call the switch knows, as the generator, a mutation or a seed leaves it.
LEMMA CallOnce ==
    ASSUME NEW c, IsCall(c)
    PROVE  NeutralOnce(c)
<1>1. CASE c \in [kind : {"mremap"}, flags : SUBSET STRING]
  <2>1. PICK f \in SUBSET STRING : c = [kind |-> "mremap", flags |-> f]
    BY <1>1
  <2> QED
    BY <2>1, MremapOnce
<1>2. CASE c \in [kind : {"syslog"}, cmd : Values(SyslogConsts)]
  <2>1. PICK hi \in {0, 1}, lo \in SyslogConsts :
            c = [kind |-> "syslog", cmd |-> [hi |-> hi, lo |-> lo]]
    BY <1>2 DEF Values
  <2> QED
    BY <2>1, SyslogOnce
<1>3. CASE c \in [kind : {"ioctl"}, cmd : Values(IoctlConsts)]
  <2>1. PICK hi \in {0, 1}, lo \in IoctlConsts :
            c = [kind |-> "ioctl", cmd |-> [hi |-> hi, lo |-> lo]]
    BY <1>3 DEF Values
  <2> QED
    BY <2>1, IoctlOnce
<1>4. CASE c \in [kind : {"fanotify_mark"}, mask : SUBSET STRING]
  <2>1. PICK m \in SUBSET STRING : c = [kind |-> "fanotify_mark", mask |-> m]
    BY <1>4
  <2> QED
    BY <2>1, FanotifyOnce
<1>5. CASE c \in [kind : {"ptrace"}, req : Values({"PTRACE_TRACEME", "Other"})]
  <2>1. PICK hi \in {0, 1}, lo \in {"PTRACE_TRACEME", "Other"} :
            c = [kind |-> "ptrace", req |-> [hi |-> hi, lo |-> lo]]
    BY <1>5 DEF Values
  <2> QED
    BY <2>1, PtraceOnce
<1>6. CASE c \in [kind : {"arch_prctl"}, cmd : Values({"ARCH_SET_FS", "ARCH_SET_GS", "Other"})]
  <2>1. PICK hi \in {0, 1}, lo \in {"ARCH_SET_FS", "ARCH_SET_GS", "Other"} :
            c = [kind |-> "arch_prctl", cmd |-> [hi |-> hi, lo |-> lo]]
    BY <1>6 DEF Values
  <2> QED
    BY <2>1, ArchPrctlOnce
<1>7. CASE c \in [kind : {"init_module"}, size : Nat]
  <2>1. PICK s \in Nat : c = [kind |-> "init_module", size |-> s]
    BY <1>7
  <2> QED
    BY <2>1, InitModuleOnce
<1>8. CASE c \in [kind : {"syz_init_net_socket"}, family : Values(FamilyConsts),
                  type : STRING, proto : STRING]
  <2>1. PICK hi \in {0, 1}, lo \in FamilyConsts, t \in STRING, p \in STRING :
            c = [kind |-> "syz_init_net_socket", family |-> [hi |-> hi, lo |-> lo],
                 type |-> t, proto |-> p]
    BY <1>8 DEF Values
  <2> QED
    BY <2>1, InitNetSocketOnce
<1>9. CASE c \in [kind : {"syz_open_dev"}, args : [1 .. 3 -> OpenDevArgs]]
  <2>1. PICK as \in [1 .. 3 -> OpenDevArgs] : c = [kind |-> "syz_open_dev", args |-> as]
    BY <1>9
  <2> QED
    BY <2>1, OpenDevOnce
<1>10. CASE c \in [kind : {"sched_setattr"}, attr : {"number", "address", "null"}]
  <2>1. PICK a \in {"number", "address", "null"} : c = [kind |-> "sched_setattr", attr |-> a]
    BY <1>10
  <2> QED
    BY <2>1, SchedNullOnce
<1>11. CASE c \in [kind : {"sched_setattr"}, attr : {"struct"}, policy : Policies]
  <2>1. PICK hi \in {0, 1}, lo \in {"SCHED_NORMAL", "SCHED_FIFO", "SCHED_RR", "Other"} :
            c = [kind |-> "sched_setattr", attr |-> "struct", policy |-> [hi |-> hi, lo |-> lo]]
    BY <1>11 DEF Policies, Values
  <2> QED
    BY <2>1, SchedStructOnce
<1>12. CASE c \in [kind : {"sched_setattr"}, attr : {"squashed"}, head : {"data", "resource"},
                   dir : {"in", "out"}, inHead : BOOLEAN, policy : Policies]
  <2>1. PICK h \in {"data", "resource"}, dir \in {"in", "out"}, in \in BOOLEAN, p \in Policies :
            c = [kind |-> "sched_setattr", attr |-> "squashed", head |-> h, dir |-> dir,
                 inHead |-> in, policy |-> p]
    BY <1>12
  <2> QED
    BY <2>1, SchedSquashedOnce
<1> QED
  BY <1>1, <1>2, <1>3, <1>4, <1>5, <1>6, <1>7, <1>8, <1>9, <1>10, <1>11, <1>12 DEF IsCall
-----------------------------------------------------------------------------
(* Everything else: special arguments that no case rewrites, and the ebtables.  *)
SpecialKinds ==
    {"ipt_replace", "arpt_replace", "usb_device_descriptor", "usb_device_descriptor_hid",
     "timespec", "timeval", "sockaddr_alg", "alg_name", "alg_aead_name", "alg_hash_name",
     "alg_skcipher_name"}

\* The fields of ebtables that count here; the others may be anything.
IsEbtables(a) ==
    \E table, pointer, chains, counters, nentries, hooks, len :
        a = [kind |-> "ebt_replace", table |-> table, pointer |-> pointer, chains |-> chains,
             counters |-> counters, nentries |-> nentries, hooks |-> hooks, len |-> len]

\* What neutralizing makes of the argument is harmless, of its kind, and stays as it is.
NeutralArg(a) ==
    /\ HarmlessCall(neutralize(a))
    /\ neutralize(a).kind = a.kind
    /\ neutralize(neutralize(a)) = neutralize(a)

LEMMA SpecialNeutral ==
    ASSUME NEW a, a.kind \in SpecialKinds
    PROVE  NeutralArg(a)
<1>1. neutralizeCall(a) = a
  BY DEF neutralizeCall, SpecialKinds
<1>2. neutralize(a) = a
  BY <1>1 DEF neutralize, SpecialKinds
<1>3. HarmlessCall(a)
  BY DEF HarmlessCall, SpecialKinds
<1> QED
  BY <1>2, <1>3 DEF NeutralArg

LEMMA CallNeutral ==
    ASSUME NEW a, IsCall(a)
    PROVE  NeutralArg(a)
  BY CallOnce DEF NeutralArg, NeutralOnce, neutralize

\* The length that is passed depends on the chains alone, which stay.
LEMMA EbtablesNeutral ==
    ASSUME NEW a, IsEbtables(a)
    PROVE  NeutralArg(a)
<1>1. PICK table, pointer, chains, counters, nentries, hooks, len :
          a = [kind |-> "ebt_replace", table |-> table, pointer |-> pointer, chains |-> chains,
               counters |-> counters, nentries |-> nentries, hooks |-> hooks, len |-> len]
  BY DEF IsEbtables
<1> DEFINE size == IF pointer = "squashed" THEN 1 ELSE ChainOffset(chains, Len(chains) + 1)
           l == IF pointer = "null" THEN len ELSE TableSize + size
           d == [kind |-> "ebt_replace", table |-> table, pointer |-> pointer, chains |-> chains,
                 counters |-> counters, nentries |-> nentries, hooks |-> hooks, len |-> l]
<1>2. EntriesSize(a) = size /\ EntriesSize(d) = size
  BY <1>1 DEF EntriesSize
<1>3. neutralizeEbtables(a) = d
  BY <1>1, <1>2 DEF neutralizeEbtables
<1>4. neutralizeEbtables(d) = d
  BY <1>2 DEF neutralizeEbtables
<1>5. neutralize(a) = d /\ neutralize(d) = d
  BY <1>1, <1>3, <1>4 DEF neutralize
<1>6. HarmlessCall(d) /\ d.kind = a.kind
  BY <1>1 DEF HarmlessCall
<1> QED
  BY <1>5, <1>6 DEF NeutralArg

LEMMA EbtablesBuilt ==
    ASSUME NEW raw
    PROVE  IsEbtables(generateEbtables(raw))
  BY DEF IsEbtables, generateEbtables, StaleEbtables
-----------------------------------------------------------------------------
(* An argument waits for the neutralizer as one of the three sorts, and leaves  *)
(* it harmless and stable.                                                     *)
Buildable(a) == IsCall(a) \/ a.kind \in SpecialKinds \/ IsEbtables(a)
TargetInv ==
    /\ stage = "built" => Buildable(arg)
    /\ stage = "neutral" => HarmlessCall(arg) /\ neutralize(arg) = arg

LEMMA BuildableNeutral ==
    ASSUME NEW a, Buildable(a)
    PROVE  NeutralArg(a)
  BY CallNeutral, SpecialNeutral, EbtablesNeutral DEF Buildable

LEMMA TargetInductive ==
    ASSUME TargetInv, [Next]_vars
    PROVE  TargetInv'
<1>1. ASSUME NEW arch \in Arches, InitTarget(arch) PROVE TargetInv'
  BY <1>1 DEF InitTarget, TargetInv, Buildable
<1>2. CASE GenerateCall
  BY <1>2, RawCallsAssumption DEF GenerateCall, TargetInv, Buildable
<1>3. CASE GenerateSpecialArg \/ MutateArg \/ ExpandName \/ NextArgument
  <2>1. stage' \notin {"built", "neutral"}
    BY <1>3 DEF GenerateSpecialArg, MutateArg, ExpandName, Naming, NextArgument
  <2> QED
    BY <2>1 DEF TargetInv
<1>4. CASE FixTable
  <2>1. stage' = "built" /\ arg'.kind = arg.kind
    BY <1>4 DEF FixTable, generateNetfilterTable
  <2> QED
    BY <1>4, <2>1 DEF FixTable, TargetInv, Buildable, SpecialKinds
<1>5. CASE FixEbtables
  BY <1>5, EbtablesBuilt DEF FixEbtables, TargetInv, Buildable
<1>6. CASE FixUsb
  <2>1. \A record, n : \A d \in Descriptors(record, n) : d.kind = "usb_device_descriptor"
    BY DEF Descriptors
  <2>2. stage' = "built" /\ arg'.kind = "usb_device_descriptor"
    BY <1>6, <2>1 DEF FixUsb, generateUsbDeviceDescriptor
  <2> QED
    BY <2>2 DEF TargetInv, Buildable, SpecialKinds
<1>7. CASE FixHid
  <2>1. stage' = "built" /\ arg'.kind = "usb_device_descriptor_hid"
    BY <1>7 DEF FixHid, generateUsbHidDeviceDescriptor
  <2> QED
    BY <2>1 DEF TargetInv, Buildable, SpecialKinds
<1>8. ASSUME NEW kind \in TimeTypes, GenerateTime(kind) PROVE TargetInv'
  <2>1. stage' = "built" /\ arg'.kind = kind
    BY <1>8 DEF GenerateTime, generateTimespec, Time
  <2> QED
    BY <2>1 DEF TargetInv, Buildable, SpecialKinds, TimeTypes
<1>9. ASSUME NEW kind \in DOMAIN NameTypes, StartName(kind) PROVE TargetInv'
  BY <1>9 DEF StartName, TargetInv
<1>10. CASE FinishName
  <2>1. stage' = "built" /\ arg'.kind = arg.kind /\ arg.kind \in DOMAIN NameTypes
    BY <1>10 DEF FinishName, Naming
  <2> QED
    BY <2>1 DEF TargetInv, Buildable, SpecialKinds, NameTypes
<1>11. CASE Neutralized
  <2>1. NeutralArg(arg)
    BY <1>11, BuildableNeutral DEF Neutralized, TargetInv
  <2> QED
    BY <1>11, <2>1 DEF Neutralized, TargetInv, NeutralArg
<1>12. CASE NeutralizeFails
  BY <1>12 DEF NeutralizeFails, TargetInv
<1>13. CASE UNCHANGED vars
  BY <1>13 DEF vars, TargetInv
<1> QED
  BY <1>1, <1>2, <1>3, <1>4, <1>5, <1>6, <1>7, <1>8, <1>9, <1>10, <1>11, <1>12, <1>13 DEF Next

(* For any set of calls the generator or a seed may come up with, the kernel     *)
(* gets none the neutralizer exists to keep from it, but a sched_setattr with a  *)
(* real-time policy that has bits set above, or that is squashed and not in a    *)
(* first piece of data that goes in (init.go 271-298).                           *)
THEOREM ExecutedCallsHarmless == Spec => []ExecutedHarmless
<1>1. Init => TargetInv
  BY DEF Init, TargetInv
<1>2. TargetInv /\ [Next]_vars => TargetInv'
  BY TargetInductive
<1>3. TargetInv => ExecutedHarmless
  BY DEF TargetInv, ExecutedHarmless
<1> QED
  BY <1>1, <1>2, <1>3, PTL DEF Spec

(* Neutralizing what was neutralized changes nothing: a program that is saved    *)
(* and read back is the program that was executed.                             *)
THEOREM NeutralizingIdempotent == Spec => []NeutralFixpoint
<1>1. Init => TargetInv
  BY DEF Init, TargetInv
<1>2. TargetInv /\ [Next]_vars => TargetInv'
  BY TargetInductive
<1>3. TargetInv => NeutralFixpoint
  BY DEF TargetInv, NeutralFixpoint
<1> QED
  BY <1>1, <1>2, <1>3, PTL DEF Spec
-----------------------------------------------------------------------------
(* The special arguments whose content is promised: times and USB descriptors.   *)
(* What a generator has made of them is kept until the next mutation, since the  *)
(* neutralizer leaves these kinds alone.                                        *)
UsbKind == "usb_device_descriptor"
Probed(a) == FitsDevice(a.id, a.device) /\ FitsInterface(a.id, a.interfaces[1])

\* The fields of a name that is being written.
NameInHand(a) ==
    \E kind \in DOMAIN NameTypes : \E type, todo, name :
        a = [kind |-> kind, type |-> type, todo |-> todo, name |-> name]

SpecialInv ==
    /\ arg.kind \in TimeTypes => arg \in generateTimespec(arg.kind)
    /\ stage = "raw" /\ arg.kind = UsbKind => arg \in RawDescriptors(UsbKind)
    /\ stage = "raw" /\ arg.kind \in DOMAIN NameTypes => NameInHand(arg)
    /\ stage \in {"built", "neutral"} /\ arg.kind = UsbKind => arg.squashed \/ Probed(arg)

LEMMA TimesOfKind ==
    ASSUME NEW kind \in TimeTypes, NEW a \in generateTimespec(kind)
    PROVE  a.kind = kind
  BY DEF generateTimespec, Time

\* The revisions of a record are a range of 16 bits, an open end included.
LEMMA RevisionRange ==
    ASSUME NEW record \in usbIds
    PROVE  /\ BcdLo(record) \in Nat /\ BcdHi(record) \in Nat
           /\ BcdLo(record) <= BcdHi(record) /\ BcdHi(record) < Word16
<1> DEFINE InRange(r) == /\ r.bcdLo \in Nat /\ r.bcdHi \in Nat
                         /\ r.bcdLo <= r.bcdHi /\ r.bcdHi < Word16
           NoEnds(r) == "DEV_LO" \notin r.flags /\ "DEV_HI" \notin r.flags
<1>1. \A r \in FirstRevisions \cup HuaweiRevisions \cup LastRevisions \cup RevisedInterfaces :
          InRange(r)
  BY DEF FirstRevisions, HuaweiRevisions, LastRevisions, RevisedInterfaces, Revision,
     UsbDeviceID, Word16
<1>2. \A r \in Drivers \cup FirstProducts \cup FtdiProducts \cup MoreProducts
               \cup SierraProducts \cup QualcommProducts \cup ZteProducts : NoEnds(r)
  BY DEF Drivers, FirstProducts, FtdiProducts, MoreProducts, SierraProducts,
     QualcommProducts, ZteProducts, Product, Device, UsbDeviceID
<1>3. \A r \in FirstNumbered \cup SierraNumbered \cup QualcommNumbered \cup ZteNumbered
               \cup DeviceClasses : NoEnds(r)
  BY DEF FirstNumbered, SierraNumbered, QualcommNumbered, ZteNumbered, DeviceClasses,
     Numbered, Device, UsbDeviceID
<1>4. \A r \in InterfaceClasses \cup VendorClasses \cup FirstVendorTriples
               \cup HuaweiTriples \cup LastVendorTriples : NoEnds(r)
  BY DEF InterfaceClasses, VendorClasses, FirstVendorTriples, HuaweiTriples,
     LastVendorTriples, Class, Pair, Triple, Interface, UsbDeviceID
<1>5. \A r \in ProductClasses \cup TelitClasses \cup ProductPairs \cup AppleEnds : NoEnds(r)
  BY DEF ProductClasses, TelitClasses, ProductPairs, AppleEnds, Class, Pair, Ends, Device,
     Interface, UsbDeviceID
<1>6. \A r \in FirstTriples \cup NokiaTriples \cup MoreTriples \cup ZteTriples
               \cup LastTriples : NoEnds(r)
  BY DEF FirstTriples, NokiaTriples, MoreTriples, ZteTriples, LastTriples, Triple, Device,
     Interface, UsbDeviceID
<1>7. InRange(record) \/ NoEnds(record)
  BY <1>1, <1>2, <1>3, <1>4, <1>5, <1>6 DEF usbIds
<1> QED
  BY <1>7 DEF BcdLo, BcdHi, Word16

\* The device and the first interface of a descriptor fit the record it was drawn from.
LEMMA DescriptorProbed ==
    ASSUME NEW record \in usbIds, NEW n \in 1 .. MaxInterfaces, NEW a \in Descriptors(record, n)
    PROVE  a.kind = UsbKind /\ Probed(a)
<1>1. a.kind = UsbKind /\ a.id = record /\ a.device \in DevicesOf(record)
      /\ a.interfaces \in InterfaceLists(record, n)
  BY DEF Descriptors, UsbKind
<1>2. a.interfaces[1] \in InterfacesOf(record)
  <2>1. n \in Nat /\ 1 \in 1 .. n
    BY MaxInterfacesAssumption
  <2> QED
    BY <1>1, <2>1 DEF InterfaceLists
<1>3. \A f \in DeviceFields : FlagOf[f] \in record.flags => a.device[f] = record[f]
  BY <1>1 DEF DeviceFields, DevicesOf, Drawn
<1>4. BcdLo(record) <= a.device.bcdDevice /\ a.device.bcdDevice <= BcdHi(record)
  <2>1. PICK k \in Picks(BcdHi(record) - BcdLo(record) + 1) :
            a.device.bcdDevice = BcdLo(record) + k
    BY <1>1 DEF DevicesOf, DrawnBcd
  <2>2. k \in 0 .. BcdHi(record) - BcdLo(record)
    <3> Word16 \in Nat
      BY DEF Word16
    <3>1. BcdHi(record) - BcdLo(record) + 1 \in 1 .. Word16
      BY RevisionRange
    <3>2. Picks(BcdHi(record) - BcdLo(record) + 1)
              \subseteq 0 .. (BcdHi(record) - BcdLo(record) + 1) - 1
      BY <3>1, PicksAssumption
    <3> QED
      BY <2>1, <3>2, RevisionRange
  <2> QED
    BY <2>1, <2>2, RevisionRange
<1>5. FitsDevice(record, a.device)
  BY <1>3, <1>4 DEF FitsDevice, BcdLo, BcdHi
<1>6. FitsInterface(record, a.interfaces[1])
  BY <1>2 DEF FitsInterface, InterfaceFields, InterfacesOf, Drawn
<1> QED
  BY <1>1, <1>5, <1>6 DEF Probed

\* What the prog library hands over is of its kind.
LEMMA RawKinds ==
    ASSUME NEW raw \in Raws
    PROVE  /\ raw.kind \notin TimeTypes /\ raw.kind \notin DOMAIN NameTypes
           /\ raw.kind = UsbKind => raw \in RawDescriptors(UsbKind)
<1>1. \A t : \A r \in RawTables(t) : r.kind \in {"ipt_replace", "arpt_replace"}
  BY DEF RawTables, KindOf
<1>2. \A t : \A r \in RawEbtables(t) : r.kind = "ebt_replace"
  BY DEF RawEbtables
<1>3. \A k : \A r \in RawDescriptors(k) : r.kind = k
  BY DEF RawDescriptors
<1>4. CASE \E t \in Tables : raw \in RawTables(t)
  BY <1>1, <1>4 DEF TimeTypes, NameTypes, UsbKind
<1>5. CASE \E t \in Ebtables : raw \in RawEbtables(t)
  BY <1>2, <1>5 DEF TimeTypes, NameTypes, UsbKind
<1>6. CASE \E k \in UsbTypes : raw \in RawDescriptors(k)
  BY <1>3, <1>6 DEF TimeTypes, NameTypes, UsbKind, UsbTypes
<1>7. \/ \E t \in Tables : raw \in RawTables(t)
      \/ \E t \in Ebtables : raw \in RawEbtables(t)
      \/ \E k \in UsbTypes : raw \in RawDescriptors(k)
  BY DEF Raws
<1> QED
  BY <1>4, <1>5, <1>6, <1>7

LEMMA CallKinds ==
    ASSUME NEW c, IsCall(c)
    PROVE  c.kind \notin TimeTypes /\ c.kind # UsbKind
  BY DEF IsCall, TimeTypes, UsbKind

LEMMA SpecialInductive ==
    ASSUME TargetInv, SpecialInv, [Next]_vars
    PROVE  SpecialInv'
<1>1. ASSUME NEW arch \in Arches, InitTarget(arch) PROVE SpecialInv'
  BY <1>1 DEF InitTarget, SpecialInv
<1>2. CASE GenerateCall
  <2>1. IsCall(arg') /\ stage' = "built"
    BY <1>2, RawCallsAssumption DEF GenerateCall
  <2> QED
    BY <2>1, CallKinds DEF SpecialInv
<1>3. CASE GenerateSpecialArg \/ MutateArg
  <2>1. arg' \in Raws /\ stage' = "raw"
    BY <1>3 DEF GenerateSpecialArg, MutateArg
  <2> QED
    BY <2>1, RawKinds DEF SpecialInv
<1>4. CASE FixTable
  <2>1. stage' = "built" /\ arg'.kind \in {"ipt_replace", "arpt_replace"}
    BY <1>4 DEF FixTable, generateNetfilterTable
  <2> QED
    BY <2>1 DEF SpecialInv, TimeTypes, UsbKind
<1>5. CASE FixEbtables
  <2>1. stage' = "built" /\ arg'.kind = "ebt_replace"
    BY <1>5, EbtablesBuilt DEF FixEbtables, IsEbtables
  <2> QED
    BY <2>1 DEF SpecialInv, TimeTypes, UsbKind
<1>6. CASE FixUsb
  <2>1. arg \in RawDescriptors(UsbKind) /\ stage' = "built"
    BY <1>6 DEF FixUsb, SpecialInv, UsbKind
  <2>2. arg.interfaces \in 1 .. MaxInterfaces /\ arg.kind = UsbKind
    BY <2>1 DEF RawDescriptors
  <2>3. CASE arg.squashed
    BY <1>6, <2>1, <2>2, <2>3 DEF FixUsb, generateUsbDeviceDescriptor, SpecialInv, TimeTypes,
       UsbKind
  <2>4. CASE ~arg.squashed
    <3>1. PICK record \in usbIds : arg' \in Descriptors(record, arg.interfaces)
      BY <1>6, <2>4 DEF FixUsb, generateUsbDeviceDescriptor
    <3>2. arg'.kind = UsbKind /\ Probed(arg')
      BY <2>2, <3>1, DescriptorProbed
    <3> QED
      BY <2>1, <3>2 DEF SpecialInv, TimeTypes, UsbKind, Probed
  <2> QED
    BY <2>3, <2>4
<1>7. CASE FixHid
  <2>1. stage' = "built" /\ arg'.kind = "usb_device_descriptor_hid"
    BY <1>7 DEF FixHid, generateUsbHidDeviceDescriptor
  <2> QED
    BY <2>1 DEF SpecialInv, TimeTypes, UsbKind
<1>8. ASSUME NEW kind \in TimeTypes, GenerateTime(kind) PROVE SpecialInv'
  <2>1. stage' = "built" /\ arg' \in generateTimespec(kind) /\ arg'.kind = kind
    BY <1>8, TimesOfKind DEF GenerateTime
  <2> QED
    BY <2>1 DEF SpecialInv, TimeTypes, UsbKind
<1>9. ASSUME NEW kind \in DOMAIN NameTypes, StartName(kind) PROVE SpecialInv'
  <2>1. PICK type \in NameTypes[kind] :
            arg' = [kind |-> kind, type |-> type, todo |-> <<type>>, name |-> <<>>]
    BY <1>9 DEF StartName
  <2>2. stage' = "raw" /\ arg'.kind = kind /\ NameInHand(arg')
    BY <1>9, <2>1 DEF StartName, NameInHand
  <2> QED
    BY <2>2 DEF SpecialInv, TimeTypes, UsbKind, NameTypes, NameInHand
<1>10. CASE ExpandName
  <2>1. PICK kind \in DOMAIN NameTypes : \E type, todo, name :
            arg = [kind |-> kind, type |-> type, todo |-> todo, name |-> name]
    BY <1>10 DEF ExpandName, Naming, SpecialInv, NameInHand
  <2>2. PICK type, todo, name :
            arg = [kind |-> kind, type |-> type, todo |-> todo, name |-> name]
    BY <2>1
  <2>3. stage' = "raw" /\ arg'.kind = kind /\ NameInHand(arg')
    BY <1>10, <2>2 DEF ExpandName, Naming, NameInHand
  <2> QED
    BY <2>3 DEF SpecialInv, TimeTypes, UsbKind, NameTypes, NameInHand
<1>11. CASE FinishName
  <2>1. stage' = "built" /\ arg'.kind \in DOMAIN NameTypes
    BY <1>11 DEF FinishName, Naming
  <2> QED
    BY <2>1 DEF SpecialInv, TimeTypes, UsbKind, NameTypes
<1>12. CASE Neutralized
  <2>1. arg'.kind = arg.kind /\ stage = "built" /\ stage' = "neutral"
    BY <1>12, BuildableNeutral DEF Neutralized, TargetInv, NeutralArg
  <2>2. arg.kind \in TimeTypes \cup {UsbKind} => arg' = arg
    BY <1>12 DEF Neutralized, neutralize, neutralizeCall, TimeTypes, UsbKind
  <2> QED
    BY <2>1, <2>2 DEF SpecialInv, Probed
<1>13. CASE NeutralizeFails
  BY <1>13 DEF NeutralizeFails, SpecialInv
<1>14. CASE NextArgument
  BY <1>14 DEF NextArgument, Nothing, SpecialInv, TimeTypes, UsbKind
<1>15. CASE UNCHANGED vars
  BY <1>15 DEF vars, SpecialInv
<1> QED
  BY <1>1, <1>2, <1>3, <1>4, <1>5, <1>6, <1>7, <1>8, <1>9, <1>10, <1>11, <1>12, <1>13, <1>14,
     <1>15 DEF Next

LEMMA TargetAndSpecial == Spec => [](TargetInv /\ SpecialInv)
<1>1. Init => TargetInv /\ SpecialInv
  BY DEF Init, TargetInv, SpecialInv, Nothing, TimeTypes, UsbKind
<1>2. TargetInv /\ SpecialInv /\ [Next]_vars => (TargetInv /\ SpecialInv)'
  BY TargetInductive, SpecialInductive
<1> QED
  BY <1>1, <1>2, PTL DEF Spec

(* Every USB descriptor that is executed presents the device its driver asks for, *)
(* whatever the outcomes of chance and however often it was mutated               *)
(* (init_vusb.go:53-139).                                                        *)
THEOREM DevicesProbed == Spec => []UsbProbed
<1>1. SpecialInv => UsbProbed
  BY DEF SpecialInv, UsbProbed, Probed, UsbKind
<1> QED
  BY <1>1, TargetAndSpecial, PTL

(* The same of a time as TimeAhead, but for whatever the clock shows.             *)
AheadOf(a) ==
    \/ a.sec = FarFuture /\ a.add = 0
    \/ /\ a.sec = 0
       /\ \A now \in IF a.clock THEN Nat ELSE {0} :
              (now * Nanos) \div a.div + a.add
                  \in {((now + ahead) * Nanos) \div Div(a.kind) : ahead \in Timeouts \cup {0}}

LEMMA GeneratedAhead ==
    ASSUME NEW kind \in TimeTypes, NEW a \in generateTimespec(kind)
    PROVE  AheadOf(a)
<1> DEFINE Meant(now) ==
        {((now + ahead) * Nanos) \div Div(kind) : ahead \in Timeouts \cup {0}}
<1>1. a.kind = kind
  BY TimesOfKind
<1>2. CASE a = Time(kind, FarFuture, 0, FALSE)
  BY <1>2 DEF Time, AheadOf
<1>3. CASE a = Time(kind, 0, 0, FALSE)
  <2>1. a.sec = 0 /\ ~a.clock
        /\ (0 * Nanos) \div a.div + a.add = ((0 + 0) * Nanos) \div Div(kind)
    BY <1>3, SMT DEF Time, Div, TimeTypes, Nanos
  <2> QED
    BY <1>1, <2>1 DEF AheadOf
<1>4. CASE \E t \in Timeouts : a = Time(kind, 0, (t * Nanos) \div Div(kind), FALSE)
  <2>1. PICK t \in Timeouts : a = Time(kind, 0, (t * Nanos) \div Div(kind), FALSE)
    BY <1>4
  <2>2. a.sec = 0 /\ ~a.clock
        /\ (0 * Nanos) \div a.div + a.add = ((0 + t) * Nanos) \div Div(kind)
    BY <2>1, SMT DEF Time, Div, TimeTypes, Timeouts, Nanos
  <2> QED
    BY <1>1, <2>2 DEF AheadOf
<1>5. CASE \E t \in Timeouts :
               a = Time(kind, 0, t * (IF kind = "timeval" THEN 1000 ELSE Nanos), TRUE)
  <2>1. PICK t \in Timeouts :
            a = Time(kind, 0, t * (IF kind = "timeval" THEN 1000 ELSE Nanos), TRUE)
    BY <1>5
  <2>2. a.sec = 0 /\ a.clock
        /\ \A now \in Nat :
               (now * Nanos) \div a.div + a.add = ((now + t) * Nanos) \div Div(kind)
    BY <2>1, SMT DEF Time, Div, TimeTypes, Timeouts, Nanos
  <2>3. \A now \in Nat : (now * Nanos) \div a.div + a.add \in Meant(now)
    BY <2>2
  <2> QED
    BY <1>1, <2>2, <2>3 DEF AheadOf
<1> QED
  BY <1>2, <1>3, <1>4, <1>5 DEF generateTimespec

(* A time is 10 or 60 ms ahead in the unit of its own type, now, or far away, at  *)
(* the times the model checker tries and at any other (init.go:355-428).         *)
THEOREM TimesAhead == Spec => [](TimeAhead /\ (arg.kind \in TimeTypes => AheadOf(arg)))
<1>1. SpecialInv => (arg.kind \in TimeTypes => AheadOf(arg))
  BY GeneratedAhead DEF SpecialInv
<1>2. (arg.kind \in TimeTypes => AheadOf(arg)) => TimeAhead
  <2>1. ClockMs \subseteq Nat
    BY DEF ClockMs
  <2> QED
    BY <2>1 DEF AheadOf, TimeAhead
<1> QED
  BY <1>1, <1>2, TargetAndSpecial, PTL

-----------------------------------------------------------------------------
(* The tables.  Their offsets are sums over the entries, which FoldSet computes *)
(* by recursion over sets; what it computes is proved by induction, which the    *)
(* prover has from < being well founded on the natural numbers.                 *)
\* Induction over the natural numbers, for a set of them.
LEMMA AllNaturals ==
    ASSUME NEW T \in SUBSET Nat, 0 \in T, \A n \in T : n + 1 \in T
    PROVE  T = Nat
<1> SUFFICES ASSUME Nat \ T # {} PROVE FALSE
  OBVIOUS
<1>1. PICK m \in Nat \ T : \A x \in Nat \ T : <<x, m>> \notin OpToRel(<, Nat)
  BY WFMin, NatLessThanWellFounded
<1>2. m - 1 \in Nat /\ m - 1 \notin T
  <2>1. m \in Nat /\ m \notin T /\ m # 0
    OBVIOUS
  <2>2. m - 1 \in Nat /\ (m - 1) + 1 = m
    BY <2>1
  <2> QED
    BY <2>1, <2>2
<1>3. ~(m - 1 < m)
  BY <1>1, <1>2 DEF OpToRel
<1> QED
  BY <1>2, <1>3

(* What SizeBefore computes, element by element in the order CHOOSE has, is a    *)
(* sum: w has the sum of the sizes of every set of entries.                    *)
IsSum(w, sizes, n) ==
    /\ w \in [SUBSET (1 .. n) -> Nat]
    /\ w[{}] = 0
    /\ \A s \in SUBSET (1 .. n) : \A y \in s : w[s] = sizes[y] + w[s \ {y}]

LEMMA SumExists ==
    ASSUME NEW k \in Nat, NEW sizes, \A i \in 1 .. k : sizes[i] \in Nat
    PROVE  \E w : IsSum(w, sizes, k)
<1> DEFINE T == {n \in Nat : n <= k => \E w : IsSum(w, sizes, n)}
<1>1. 0 \in T
  <2>1. 1 .. 0 = {}
    OBVIOUS
  <2>2. IsSum([s \in SUBSET (1 .. 0) |-> 0], sizes, 0)
    BY <2>1 DEF IsSum
  <2> QED
    BY <2>2
<1>2. ASSUME NEW n \in T PROVE n + 1 \in T
  <2> SUFFICES ASSUME n + 1 <= k PROVE \E w : IsSum(w, sizes, n + 1)
    OBVIOUS
  <2>1. PICK w : IsSum(w, sizes, n)
    OBVIOUS
  <2> DEFINE v == [s \in SUBSET (1 .. n + 1) |->
                      IF n + 1 \in s THEN sizes[n + 1] + w[s \ {n + 1}] ELSE w[s]]
  <2>2. sizes[n + 1] \in Nat /\ 1 .. n + 1 = (1 .. n) \cup {n + 1} /\ n + 1 \notin 1 .. n
    OBVIOUS
  <2>3. \A s \in SUBSET (1 .. n + 1) : s \ {n + 1} \in SUBSET (1 .. n)
    BY <2>2
  <2>4. \A s \in SUBSET (1 .. n + 1) : n + 1 \notin s => s \in SUBSET (1 .. n)
    BY <2>2
  <2>5. v \in [SUBSET (1 .. n + 1) -> Nat] /\ v[{}] = 0
    BY <2>1, <2>2, <2>3, <2>4 DEF IsSum
  <2>6. ASSUME NEW s \in SUBSET (1 .. n + 1), NEW y \in s
        PROVE  v[s] = sizes[y] + v[s \ {y}]
    <3>1. CASE y = n + 1
      BY <3>1
    <3>2. CASE y # n + 1 /\ n + 1 \notin s
      <4>1. v[s] = w[s] /\ v[s \ {y}] = w[s \ {y}] /\ s \in SUBSET (1 .. n)
        BY <3>2, <2>4
      <4> QED
        BY <4>1, <2>1 DEF IsSum
    <3>3. CASE y # n + 1 /\ n + 1 \in s
      <4> DEFINE r == s \ {n + 1}
      <4>1. r \in SUBSET (1 .. n) /\ y \in r /\ (s \ {y}) \ {n + 1} = r \ {y}
        BY <3>3, <2>3
      <4>2. w[r] = sizes[y] + w[r \ {y}] /\ w[r] \in Nat /\ w[r \ {y}] \in Nat
        BY <4>1, <2>1 DEF IsSum
      <4>3. v[s] = sizes[n + 1] + w[r]
        BY <3>3
      <4>4. v[s \ {y}] = sizes[n + 1] + w[r \ {y}]
        BY <3>3, <4>1
      <4>5. sizes[y] \in Nat
        BY <4>1
      <4> QED
        BY <4>2, <4>3, <4>4, <4>5, <2>2
    <3> QED
      BY <3>1, <3>2, <3>3
  <2>7. IsSum(v, sizes, n + 1)
    BY <2>5, <2>6 DEF IsSum
  <2> QED
    BY <2>7
<1>3. T = Nat
  BY <1>1, <1>2, AllNaturals
<1> QED
  BY <1>3

\* The function of SizeBefore is that sum.
Iterates(v, sizes, S) ==
    v = [s \in SUBSET S |->
            IF s = {} THEN 0 ELSE LET x == CHOOSE x \in s : TRUE IN sizes[x] + v[s \ {x}]]

LEMMA SumUnique ==
    ASSUME NEW n \in Nat, NEW sizes, NEW w, IsSum(w, sizes, n), NEW v, Iterates(v, sizes, 1 .. n)
    PROVE  v[1 .. n] = w[1 .. n]
<1> DEFINE T == {k \in Nat : \A s \in SUBSET (1 .. n) : Cardinality(s) = k => v[s] = w[s]}
<1>0. IsFiniteSet(1 .. n) /\ \A s \in SUBSET (1 .. n) : IsFiniteSet(s) /\ Cardinality(s) \in Nat
  <2>1. IsFiniteSet(1 .. n)
    BY FS_Interval
  <2> QED
    BY <2>1, FS_Subset, FS_CardinalityType
<1>1. 0 \in T
  <2>1. v[{}] = 0
    BY DEF Iterates
  <2> QED
    BY <1>0, <2>1, FS_EmptySet DEF IsSum
<1>2. ASSUME NEW k \in T PROVE k + 1 \in T
  <2> SUFFICES ASSUME NEW s \in SUBSET (1 .. n), Cardinality(s) = k + 1 PROVE v[s] = w[s]
    OBVIOUS
  <2>0. k \in Nat /\ IsFiniteSet(s)
    BY <1>0
  <2>1. s # {}
    BY <2>0, FS_EmptySet
  <2> DEFINE x == CHOOSE x \in s : TRUE
  <2>2. x \in s
    BY <2>1
  <2>3. Cardinality(s \ {x}) = k
    <3>1. Cardinality(s \ {x}) = Cardinality(s) - 1
      BY <2>0, <2>2, FS_RemoveElement
    <3> QED
      BY <2>0, <3>1
  <2>4. v[s] = sizes[x] + v[s \ {x}]
    BY <2>1 DEF Iterates
  <2>5. v[s \ {x}] = w[s \ {x}]
    BY <2>3
  <2>6. w[s] = sizes[x] + w[s \ {x}]
    BY <2>2 DEF IsSum
  <2> QED
    BY <2>4, <2>5, <2>6
<1>3. T = Nat
  <2> HIDE DEF T
  <2> QED
    BY <1>1, <1>2, AllNaturals DEF T
<1> QED
  BY <1>0, <1>3

LEMMA SizeBeforeSum ==
    ASSUME NEW n \in Nat, NEW sizes, NEW w, IsSum(w, sizes, n)
    PROVE  SizeBefore(sizes, n) = w[1 .. n]
<1>1. SizeBefore(sizes, n) = (CHOOSE v : Iterates(v, sizes, 1 .. n))[1 .. n]
  BY DEF SizeBefore, FoldSet, MapThenFoldSet, Iterates
<1>2. Iterates(w, sizes, 1 .. n)
  <2>1. \A s \in SUBSET (1 .. n) :
            w[s] = IF s = {} THEN 0 ELSE LET x == CHOOSE x \in s : TRUE IN sizes[x] + w[s \ {x}]
    BY DEF IsSum
  <2> QED
    BY <2>1 DEF IsSum, Iterates
<1>3. Iterates(CHOOSE v : Iterates(v, sizes, 1 .. n), sizes, 1 .. n)
  BY <1>2
<1> QED
  BY <1>1, <1>3, SumUnique

\* So it grows by one size from each entry to the next.
LEMMA SizeBeforeSteps ==
    ASSUME NEW sizes, NEW k \in Nat, \A i \in 1 .. k : sizes[i] \in Nat
    PROVE  /\ SizeBefore(sizes, 0) = 0
           /\ \A n \in 0 .. k : SizeBefore(sizes, n) \in Nat
           /\ \A n \in 1 .. k : SizeBefore(sizes, n) = SizeBefore(sizes, n - 1) + sizes[n]
<1>1. PICK w : IsSum(w, sizes, k)
  BY SumExists
<1>2. ASSUME NEW n \in 0 .. k PROVE SizeBefore(sizes, n) = w[1 .. n] /\ w[1 .. n] \in Nat
  <2>1. SUBSET (1 .. n) \subseteq SUBSET (1 .. k)
    OBVIOUS
  <2>2. IsSum([s \in SUBSET (1 .. n) |-> w[s]], sizes, n)
    BY <1>1, <2>1 DEF IsSum
  <2> DEFINE u == [s \in SUBSET (1 .. n) |-> w[s]]
  <2>3. 1 .. n \in SUBSET (1 .. n) /\ n \in Nat /\ u[1 .. n] = w[1 .. n]
    OBVIOUS
  <2>4. w[1 .. n] \in Nat
    BY <1>1, <2>1, <2>3 DEF IsSum
  <2> HIDE DEF u
  <2>5. SizeBefore(sizes, n) = u[1 .. n]
    BY <2>2, <2>3, SizeBeforeSum
  <2> QED
    BY <2>3, <2>4, <2>5
<1>3. SizeBefore(sizes, 0) = 0
  <2>1. 1 .. 0 = {}
    OBVIOUS
  <2> QED
    BY <1>1, <1>2, <2>1 DEF IsSum
<1>4. ASSUME NEW n \in 1 .. k PROVE SizeBefore(sizes, n) = SizeBefore(sizes, n - 1) + sizes[n]
  <2>1. n \in 1 .. n /\ (1 .. n) \ {n} = 1 .. n - 1 /\ 1 .. n \in SUBSET (1 .. k)
    OBVIOUS
  <2>2. w[1 .. n] = sizes[n] + w[1 .. n - 1]
    BY <1>1, <2>1 DEF IsSum
  <2> QED
    BY <1>2, <2>2
<1> QED
  BY <1>2, <1>3, <1>4

\* The kernel, which walks the entries, arrives where the fix-up has counted to.
LEMMA WalkCounts ==
    ASSUME NEW n \in Nat, NEW sizes \in [1 .. n -> Nat]
    PROVE  /\ Len(sizes) = n
           /\ \A i \in 0 .. n : EntryStart(sizes)[i] = SizeBefore(sizes, i)
           /\ DOMAIN EntryStart(sizes) = 0 .. n
<1> DEFINE Walks(v) == v = [i \in 0 .. n |-> IF i = 0 THEN 0 ELSE v[i - 1] + sizes[i]]
           count == [i \in 0 .. n |-> SizeBefore(sizes, i)]
           walk == EntryStart(sizes)
<1>1. Len(sizes) = n
  <2>1. sizes \in Seq(Nat)
    OBVIOUS
  <2> QED
    BY <2>1
<1>2. EntryStart(sizes) = CHOOSE v : Walks(v)
  BY <1>1 DEF EntryStart
<1>3. Walks(count)
  <2>1. \A i \in 0 .. n : SizeBefore(sizes, i) =
            IF i = 0 THEN 0 ELSE SizeBefore(sizes, i - 1) + sizes[i]
    BY SizeBeforeSteps
  <2>2. \A i \in 0 .. n : i # 0 => count[i - 1] = SizeBefore(sizes, i - 1)
    OBVIOUS
  <2> QED
    BY <2>1, <2>2
<1>4. Walks(walk)
  <2> HIDE DEF Walks, count
  <2> QED
    BY <1>2, <1>3
<1> HIDE DEF walk
<1> DEFINE T == {i \in Nat : i <= n => walk[i] = SizeBefore(sizes, i)}
<1>5. 0 \in T
  <2>1. walk[0] = 0
    BY <1>4
  <2>2. SizeBefore(sizes, 0) = 0
    BY SizeBeforeSteps
  <2> QED
    BY <2>1, <2>2
<1>6. ASSUME NEW i \in T PROVE i + 1 \in T
  <2> SUFFICES ASSUME i + 1 <= n PROVE walk[i + 1] = SizeBefore(sizes, i + 1)
    OBVIOUS
  <2>1. /\ i \in Nat /\ i + 1 \in 1 .. n /\ i + 1 \in 0 .. n /\ (i + 1) - 1 = i
        /\ walk[i] = SizeBefore(sizes, i)
    OBVIOUS
  <2>2. walk[i + 1] = walk[i] + sizes[i + 1]
    BY <1>4, <2>1
  <2>3. SizeBefore(sizes, i + 1) = SizeBefore(sizes, i) + sizes[i + 1]
    BY <2>1, SizeBeforeSteps
  <2> QED
    BY <2>1, <2>2, <2>3
<1>7. T = Nat
  <2> HIDE DEF T
  <2> QED
    BY <1>5, <1>6, AllNaturals DEF T
<1>8. DOMAIN walk = 0 .. n
  BY <1>4
<1>9. \A i \in 0 .. n : walk[i] = SizeBefore(sizes, i)
  <2>1. TAKE i \in 0 .. n
  <2>2. i \in T /\ i <= n
    BY <1>7
  <2> QED
    BY <2>2
<1> QED
  BY <1>1, <1>8, <1>9 DEF walk

(* The tables of entries: what TableWalkable says of a table that is fixed up.     *)
TableKinds == {"ipt_replace", "arpt_replace"}
Walkable(a) ==
    LET walk == EntryStart(a.sizes)
        starts == {walk[i] : i \in DOMAIN walk}
    IN  /\ \A k \in Hooks(a.table) :
              IF k \in UsedHooks[a.table]
              THEN a.hooks[k] \in starts /\ a.underflows[k] = walk[Len(a.sizes)]
              ELSE a.hooks[k] = Unused /\ a.underflows[k] = Unused
        /\ \A i \in DOMAIN a.jumps : a.jumps[i] \in starts \cup Verdicts \cup {NoJump}

LEMMA EntriesCounted ==
    ASSUME NEW table \in Tables
    PROVE  NumEntriesOf(table) \in Nat
<1>1. NumEntries[table] \in Nat /\ MaxEntries \in Nat
  BY EntriesAssumption DEF Tables, UsedHooks, NumEntries
<1>2. Min({NumEntries[table], MaxEntries}) \in {NumEntries[table], MaxEntries}
  <2>1. \E x \in {NumEntries[table], MaxEntries} :
            \A y \in {NumEntries[table], MaxEntries} : x <= y
    BY <1>1
  <2> QED
    BY <2>1 DEF Min
<1> QED
  BY <1>1, <1>2 DEF NumEntriesOf

(* Whatever genOffset picks is where the walk arrives, at an entry or at the end  *)
(* (init_iptables.go:22-107).                                                   *)
LEMMA FixedTableWalkable ==
    ASSUME NEW table \in Tables, NEW raw \in RawTables(table),
           NEW a \in generateNetfilterTable(raw)
    PROVE  a.kind = raw.kind /\ a.table = raw.table /\ Walkable(a)
<1> DEFINE n == NumEntriesOf(table)
           starts == {EntryStart(raw.sizes)[i] : i \in DOMAIN EntryStart(raw.sizes)}
<1>1. /\ n \in Nat /\ raw.table = table
      /\ raw.sizes \in [1 .. n -> Nat] /\ raw.jumps \in [1 .. n -> Jumps]
  BY EntriesCounted, EntriesAssumption DEF RawTables
<1>2. /\ Len(raw.sizes) = n /\ DOMAIN EntryStart(raw.sizes) = 0 .. n
      /\ \A i \in 0 .. n : EntryStart(raw.sizes)[i] = SizeBefore(raw.sizes, i)
  BY <1>1, WalkCounts
<1>3. genOffset(raw.sizes) \subseteq starts
  <2>1. \A i \in 1 .. n : SizeBefore(raw.sizes, i - 1) \in starts
    BY <1>1, <1>2
  <2>2. SizeBefore(raw.sizes, n) \in starts
    BY <1>1, <1>2
  <2> QED
    BY <1>2, <2>1, <2>2 DEF genOffset, Offsets, Underflow
<1>4. PICK used \in [UsedHooks[table] -> genOffset(raw.sizes)],
           jumps \in [DOMAIN raw.jumps -> genOffset(raw.sizes) \cup Jumps] :
        /\ \A i \in DOMAIN jumps : jumps[i] \in JumpOffsets(raw.sizes, raw.jumps[i])
        /\ a = [kind |-> raw.kind, table |-> raw.table, sizes |-> raw.sizes, jumps |-> jumps,
                hooks |-> [k \in Hooks(table) |->
                              IF k \in UsedHooks[table] THEN used[k] ELSE Unused],
                underflows |-> [k \in Hooks(table) |->
                                   IF k \in UsedHooks[table] THEN Underflow(raw.sizes) ELSE Unused]]
  BY <1>1 DEF generateNetfilterTable
<1>5. \A k \in Hooks(table) :
        IF k \in UsedHooks[table]
        THEN a.hooks[k] \in starts /\ a.underflows[k] = EntryStart(raw.sizes)[n]
        ELSE a.hooks[k] = Unused /\ a.underflows[k] = Unused
  BY <1>1, <1>2, <1>3, <1>4 DEF Underflow
<1>6. \A i \in DOMAIN a.jumps : a.jumps[i] \in starts \cup Verdicts \cup {NoJump}
  BY <1>3, <1>4 DEF JumpOffsets
<1> QED
  BY <1>1, <1>2, <1>4, <1>5, <1>6 DEF Walkable

-----------------------------------------------------------------------------
(* The chains of an ebtable: where one begins the one before has ended.          *)
LEMMA SizesGrow ==
    ASSUME NEW n \in Nat, NEW sizes \in [1 .. n -> Nat], NEW i \in 0 .. n, NEW j \in 0 .. n, i <= j
    PROVE  SizeBefore(sizes, i) <= SizeBefore(sizes, j)
<1> DEFINE T == {k \in Nat : i + k <= n => SizeBefore(sizes, i) <= SizeBefore(sizes, i + k)}
<1>1. 0 \in T
  <2>1. i + 0 = i /\ SizeBefore(sizes, i) \in Nat
    BY SizeBeforeSteps
  <2> QED
    BY <2>1
<1>2. ASSUME NEW k \in T PROVE k + 1 \in T
  <2> SUFFICES ASSUME i + (k + 1) <= n
               PROVE  SizeBefore(sizes, i) <= SizeBefore(sizes, i + (k + 1))
    OBVIOUS
  <2>1. k \in Nat /\ i + k \in 0 .. n /\ i + (k + 1) \in 1 .. n /\ (i + (k + 1)) - 1 = i + k
    OBVIOUS
  <2>2. SizeBefore(sizes, i) <= SizeBefore(sizes, i + k)
    BY <2>1
  <2>3. SizeBefore(sizes, i + (k + 1)) = SizeBefore(sizes, i + k) + sizes[i + (k + 1)]
    BY <2>1, SizeBeforeSteps
  <2>4. /\ SizeBefore(sizes, i) \in Nat /\ SizeBefore(sizes, i + k) \in Nat
        /\ sizes[i + (k + 1)] \in Nat
    BY <2>1, SizeBeforeSteps
  <2> QED
    BY <2>2, <2>3, <2>4
<1>3. T = Nat
  <2> HIDE DEF T
  <2> QED
    BY <1>1, <1>2, AllNaturals DEF T
<1>4. j - i \in Nat /\ i + (j - i) = j
  OBVIOUS
<1>5. j - i \in T
  BY <1>3, <1>4
<1> QED
  BY <1>4, <1>5

LEMMA SizesStrict ==
    ASSUME NEW n \in Nat, NEW sizes \in [1 .. n -> Nat], \A i \in 1 .. n : sizes[i] > 0,
           NEW i \in 0 .. n, NEW j \in 0 .. n, i < j
    PROVE  SizeBefore(sizes, i) < SizeBefore(sizes, j)
<1>1. i + 1 \in 1 .. n /\ i + 1 \in 0 .. n /\ (i + 1) - 1 = i /\ i + 1 <= j
  OBVIOUS
<1>2. SizeBefore(sizes, i + 1) = SizeBefore(sizes, i) + sizes[i + 1]
  BY <1>1, SizeBeforeSteps
<1>3. SizeBefore(sizes, i + 1) <= SizeBefore(sizes, j)
  BY <1>1, SizesGrow
<1>4. SizeBefore(sizes, i) \in Nat /\ SizeBefore(sizes, j) \in Nat
      /\ sizes[i + 1] \in Nat /\ sizes[i + 1] > 0
  BY <1>1, SizeBeforeSteps
<1> QED
  BY <1>2, <1>3, <1>4

\* A counter's range of each chain: they cover what all chains have, without overlap.
Share(sizes, i) == {SizeBefore(sizes, i - 1) + n : n \in 0 .. sizes[i] - 1}

LEMMA SharesCover ==
    ASSUME NEW k \in Nat, NEW sizes \in [1 .. k -> Nat]
    PROVE  /\ UNION {Share(sizes, i) : i \in 1 .. k} = 0 .. SizeBefore(sizes, k) - 1
           /\ \A i, j \in 1 .. k : i # j => Share(sizes, i) \cap Share(sizes, j) = {}
<1>0. ASSUME NEW i \in 1 .. k
      PROVE  /\ Share(sizes, i) = SizeBefore(sizes, i - 1) .. SizeBefore(sizes, i) - 1
             /\ SizeBefore(sizes, i - 1) \in Nat /\ SizeBefore(sizes, i) \in Nat
             /\ SizeBefore(sizes, i - 1) <= SizeBefore(sizes, i)
  <2> DEFINE b == SizeBefore(sizes, i - 1)
             e == SizeBefore(sizes, i)
             m == sizes[i]
  <2>1. b \in Nat /\ e \in Nat /\ m \in Nat /\ e = b + m
    <3>1. i - 1 \in 0 .. k /\ i \in 0 .. k
      OBVIOUS
    <3> QED
      BY <3>1, SizeBeforeSteps
  <2> HIDE DEF b, e, m
  <2>2. \A x \in b .. e - 1 : x - b \in 0 .. m - 1 /\ x = b + (x - b)
    BY <2>1
  <2>3. {b + n : n \in 0 .. m - 1} = b .. e - 1
    BY <2>1, <2>2
  <2> QED
    BY <2>1, <2>3 DEF Share, b, e, m
<1>1. \A i, j \in 1 .. k : i # j => Share(sizes, i) \cap Share(sizes, j) = {}
  <2>1. ASSUME NEW i \in 1 .. k, NEW j \in 1 .. k, i < j
        PROVE  Share(sizes, i) \cap Share(sizes, j) = {}
    <3>1. SizeBefore(sizes, i) <= SizeBefore(sizes, j - 1)
      BY <2>1, SizesGrow
    <3>2. /\ Share(sizes, i) = SizeBefore(sizes, i - 1) .. SizeBefore(sizes, i) - 1
          /\ Share(sizes, j) = SizeBefore(sizes, j - 1) .. SizeBefore(sizes, j) - 1
          /\ SizeBefore(sizes, i) \in Nat /\ SizeBefore(sizes, j - 1) \in Nat
      BY <1>0
    <3> QED
      BY <3>1, <3>2
  <2> QED
    BY <2>1
<1> DEFINE Covered(m) == UNION {Share(sizes, i) : i \in 1 .. m}
           T == {m \in Nat : m <= k => Covered(m) = 0 .. SizeBefore(sizes, m) - 1}
<1>2. 0 \in T
  <2>1. Covered(0) = {} /\ SizeBefore(sizes, 0) = 0
    BY SizeBeforeSteps
  <2> QED
    BY <2>1
<1>3. ASSUME NEW m \in T PROVE m + 1 \in T
  <2> SUFFICES ASSUME m + 1 <= k PROVE Covered(m + 1) = 0 .. SizeBefore(sizes, m + 1) - 1
    OBVIOUS
  <2>1. m \in Nat /\ m + 1 \in 1 .. k /\ (m + 1) - 1 = m /\ 1 .. m + 1 = (1 .. m) \cup {m + 1}
    OBVIOUS
  <2>2. Covered(m) = 0 .. SizeBefore(sizes, m) - 1
    BY <2>1
  <2>3. Covered(m + 1) = Covered(m) \cup Share(sizes, m + 1)
    BY <2>1
  <2>4. /\ Share(sizes, m + 1) = SizeBefore(sizes, m) .. SizeBefore(sizes, m + 1) - 1
        /\ SizeBefore(sizes, m) \in Nat /\ SizeBefore(sizes, m + 1) \in Nat
        /\ SizeBefore(sizes, m) <= SizeBefore(sizes, m + 1)
    BY <2>1, <1>0
  <2> HIDE DEF Covered
  <2>5. (0 .. SizeBefore(sizes, m) - 1) \cup (SizeBefore(sizes, m) .. SizeBefore(sizes, m + 1) - 1)
        = 0 .. SizeBefore(sizes, m + 1) - 1
    BY <2>4
  <2> QED
    BY <2>2, <2>3, <2>4, <2>5
<1>4. T = Nat
  <2> HIDE DEF T
  <2> QED
    BY <1>2, <1>3, AllNaturals DEF T
<1>5. Covered(k) = 0 .. SizeBefore(sizes, k) - 1
  BY <1>4
<1> QED
  BY <1>1, <1>5

LEMMA CardinalityOfTwo ==
    ASSUME NEW x, NEW y, x # y
    PROVE  Cardinality({x, y}) = 2
<1>1. {x, y} = {x} \cup {y} /\ y \notin {x}
  OBVIOUS
<1>2. IsFiniteSet({x}) /\ Cardinality({x}) = 1
  BY FS_Singleton
<1>3. Cardinality({x} \cup {y}) = 1 + 1
  BY <1>1, <1>2, FS_AddElement
<1> QED
  BY <1>1, <1>3

\* The chain of a valid hook is the one at its place among the valid hooks.
LEMMA HookRanks ==
    ASSUME NEW table \in Ebtables
    PROVE  /\ ValidHooks[table] \subseteq EbtHooks
           /\ \A h \in ValidHooks[table] : Rank(table, h) \in 0 .. 2
           /\ \A h, g \in ValidHooks[table] : Rank(table, h) = Rank(table, g) => h = g
<1>1. CASE table = "ebt_filter"
  <2>1. {h \in ValidHooks[table] : h < 1} = {} /\ {h \in ValidHooks[table] : h < 2} = {1}
        /\ {h \in ValidHooks[table] : h < 3} = {1, 2}
    BY <1>1 DEF ValidHooks
  <2>2. Cardinality({1, 2}) = 2
    <3>1. 1 # 2
      OBVIOUS
    <3> QED
      BY <3>1, CardinalityOfTwo
  <2>3. Rank(table, 1) = 0 /\ Rank(table, 2) = 1 /\ Rank(table, 3) = 2
    BY <2>1, <2>2, FS_EmptySet, FS_Singleton DEF Rank
  <2> QED
    BY <1>1, <2>3 DEF ValidHooks, EbtHooks
<1>2. CASE table = "ebt_nat"
  <2>1. {h \in ValidHooks[table] : h < 0} = {} /\ {h \in ValidHooks[table] : h < 3} = {0}
        /\ {h \in ValidHooks[table] : h < 4} = {0, 3}
    BY <1>2 DEF ValidHooks
  <2>2. Cardinality({0, 3}) = 2
    <3>1. 0 # 3
      OBVIOUS
    <3> QED
      BY <3>1, CardinalityOfTwo
  <2>3. Rank(table, 0) = 0 /\ Rank(table, 3) = 1 /\ Rank(table, 4) = 2
    BY <2>1, <2>2, FS_EmptySet, FS_Singleton DEF Rank
  <2> QED
    BY <1>2, <2>3 DEF ValidHooks, EbtHooks
<1>3. CASE table = "ebt_broute"
  <2>1. {h \in ValidHooks[table] : h < 5} = {}
    BY <1>3 DEF ValidHooks
  <2>2. Rank(table, 5) = 0
    BY <2>1, FS_EmptySet DEF Rank
  <2> QED
    BY <1>3, <2>2 DEF ValidHooks, EbtHooks
<1> QED
  BY <1>1, <1>2, <1>3 DEF Ebtables, ValidHooks

(* What EbtablesConsistent says of a table, in the parts the fix-up is            *)
(* responsible for and the length that the neutralizer adds.                    *)
ChainSizes(chains) == [i \in DOMAIN chains |-> ChainSize(chains[i])]
Shares(chains, counters) ==
    [i \in DOMAIN chains |-> {counters[i] + n : n \in 0 .. chains[i] - 1}]
SharedOut(chains, counters, nentries) ==
    /\ UNION {Shares(chains, counters)[i] : i \in DOMAIN chains} = 0 .. nentries - 1
    /\ \A i, j \in DOMAIN chains :
          i # j => Shares(chains, counters)[i] \cap Shares(chains, counters)[j] = {}
Hooked(table, chains, hooks) ==
    LET walk == EntryStart(ChainSizes(chains))
        valid == ValidHooks[table]
    IN  /\ \A h \in EbtHooks \ valid : hooks[h] = 0
        /\ \A h \in valid : \E i \in 1 .. Len(chains) : hooks[h] = EntriesBase + walk[i - 1]
        /\ \A h, g \in valid : hooks[h] = hooks[g] => h = g
Measured(chains, len) == len = TableSize + EntryStart(ChainSizes(chains))[Len(chains)]

\* The table after its fix-up, before anything has a length.
HasChains(chains) == \E n \in Nat : chains \in [1 .. n -> 0 .. 2]
Filled(a) ==
    /\ HasChains(a.chains)
    /\ SharedOut(a.chains, a.counters, a.nentries)
    /\ Hooked(a.table, a.chains, a.hooks)

(* The fix-up of a table with chains: counters handed out chain by chain, every    *)
(* valid hook the chain of its rank (init_iptables.go:109-165).                  *)
LEMMA FixedChains ==
    ASSUME NEW table \in Ebtables, NEW n \in 3 .. 4, NEW chains \in [1 .. n -> 0 .. 2],
           NEW raw, raw = [kind |-> "ebt_replace", table |-> table, pointer |-> "chains",
                           chains |-> chains],
           NEW a, a = generateEbtables(raw)
    PROVE  Filled(a)
<1> DEFINE s == ChainSizes(chains)
           walk == EntryStart(s)
           valid == ValidHooks[table]
<1>1. a = [kind |-> "ebt_replace", table |-> table, pointer |-> "chains", chains |-> chains,
           counters |-> Counters(chains), nentries |-> SizeBefore(chains, Len(chains)),
           hooks |-> [h \in EbtHooks |-> IF h \in valid THEN HookAddress(raw, h) ELSE 0],
           len |-> 0]
  BY DEF generateEbtables, StaleEbtables
<1>2. n \in Nat /\ chains \in [1 .. n -> Nat] /\ Len(chains) = n /\ DOMAIN chains = 1 .. n
  BY WalkCounts
<1>3. s \in [1 .. n -> Nat] /\ \A i \in 1 .. n : s[i] > 0
  BY <1>2 DEF ChainSizes, ChainSize
<1>4. \A i \in 0 .. n : walk[i] = SizeBefore(s, i)
  BY <1>2, <1>3, WalkCounts
<1>5. SharedOut(chains, Counters(chains), SizeBefore(chains, n))
  <2> DEFINE shares == Shares(chains, Counters(chains))
  <2>1. \A i \in 1 .. n : shares[i] = Share(chains, i)
    BY <1>2 DEF Shares, Share, Counters
  <2>2. UNION {shares[i] : i \in 1 .. n} = UNION {Share(chains, i) : i \in 1 .. n}
    BY <2>1
  <2>3. UNION {shares[i] : i \in 1 .. n} = 0 .. SizeBefore(chains, n) - 1
    BY <1>2, <2>2, SharesCover
  <2>4. \A i, j \in 1 .. n : i # j => shares[i] \cap shares[j] = {}
    BY <1>2, <2>1, SharesCover
  <2> QED
    BY <1>2, <2>3, <2>4 DEF SharedOut
<1>6. ASSUME NEW h \in valid
      PROVE  /\ Rank(table, h) \in 0 .. n - 1 /\ h \in EbtHooks
             /\ a.hooks[h] = EntriesBase + SizeBefore(s, Rank(table, h))
  <2>1. Rank(table, h) \in 0 .. n - 1 /\ h \in EbtHooks
    BY HookRanks
  <2>2. HookAddress(raw, h) = EntriesBase + ChainOffset(chains, Rank(table, h) + 1)
    BY <1>2, <2>1 DEF HookAddress
  <2>3. ChainOffset(chains, Rank(table, h) + 1) = SizeBefore(s, Rank(table, h))
    <3>1. (Rank(table, h) + 1) - 1 = Rank(table, h)
      BY <2>1
    <3> QED
      BY <3>1 DEF ChainOffset, ChainSizes
  <2> QED
    BY <1>1, <2>1, <2>2, <2>3
<1>7. \A h \in EbtHooks \ valid : a.hooks[h] = 0
  BY <1>1
<1>8. \A h \in valid : \E i \in 1 .. n : a.hooks[h] = EntriesBase + walk[i - 1]
  <2>1. TAKE h \in valid
  <2>2. Rank(table, h) + 1 \in 1 .. n /\ (Rank(table, h) + 1) - 1 = Rank(table, h)
        /\ Rank(table, h) \in 0 .. n
    BY <1>6
  <2> QED
    BY <1>4, <1>6, <2>2
<1>9. ASSUME NEW h \in valid, NEW g \in valid, Rank(table, h) < Rank(table, g)
      PROVE  a.hooks[h] # a.hooks[g]
  <2>1. /\ Rank(table, h) \in 0 .. n /\ Rank(table, g) \in 0 .. n
        /\ a.hooks[h] = EntriesBase + SizeBefore(s, Rank(table, h))
        /\ a.hooks[g] = EntriesBase + SizeBefore(s, Rank(table, g))
    BY <1>6
  <2>2. SizeBefore(s, Rank(table, h)) < SizeBefore(s, Rank(table, g))
    BY <1>2, <1>3, <1>9, <2>1, SizesStrict
  <2>3. SizeBefore(s, Rank(table, h)) \in Nat /\ SizeBefore(s, Rank(table, g)) \in Nat
    BY <1>2, <1>3, <2>1, SizeBeforeSteps
  <2> QED
    BY <2>1, <2>2, <2>3 DEF EntriesBase
<1>10. \A h, g \in valid : a.hooks[h] = a.hooks[g] => h = g
  <2>1. \A h, g \in valid : Rank(table, h) = Rank(table, g) => h = g
    BY HookRanks
  <2>2. \A h \in valid : Rank(table, h) \in Int
    BY <1>6
  <2> QED
    BY <1>9, <2>1, <2>2
<1>11. Hooked(table, chains, a.hooks)
  BY <1>2, <1>7, <1>8, <1>10 DEF Hooked
<1>12. /\ a.table = table /\ a.chains = chains /\ a.counters = Counters(chains)
       /\ a.nentries = SizeBefore(chains, n)
  BY <1>1, <1>2
<1>13. HasChains(chains)
  BY <1>2 DEF HasChains
<1> QED
  BY <1>5, <1>11, <1>12, <1>13 DEF Filled

\* The length that is passed is that of the table and the walk over its chains.
LEMMA NeutralMeasured ==
    ASSUME NEW a, IsEbtables(a), a.pointer = "chains", Filled(a),
           NEW b, b = neutralizeEbtables(a)
    PROVE  Filled(b) /\ Measured(b.chains, b.len)
<1>1. PICK table, pointer, chains, counters, nentries, hooks, len :
          a = [kind |-> "ebt_replace", table |-> table, pointer |-> pointer, chains |-> chains,
               counters |-> counters, nentries |-> nentries, hooks |-> hooks, len |-> len]
  BY DEF IsEbtables
<1>2. PICK n \in Nat : chains \in [1 .. n -> 0 .. 2]
  BY <1>1 DEF Filled, HasChains
<1> DEFINE s == ChainSizes(chains)
<1>3. b = [a EXCEPT !.len = TableSize + ChainOffset(chains, Len(chains) + 1)]
  BY <1>1 DEF neutralizeEbtables, EntriesSize
<1>4. /\ b.table = a.table /\ b.chains = a.chains /\ b.counters = a.counters
      /\ b.nentries = a.nentries /\ b.hooks = a.hooks
      /\ b.len = TableSize + ChainOffset(chains, Len(chains) + 1)
  BY <1>1, <1>3
<1>5. Filled(b)
  BY <1>4 DEF Filled
<1>6. ChainOffset(chains, Len(chains) + 1) = EntryStart(s)[Len(chains)]
  <2>1. chains \in [1 .. n -> Nat] /\ DOMAIN chains = 1 .. n
    BY <1>2
  <2>2. s \in [1 .. n -> Nat]
    BY <2>1 DEF ChainSizes, ChainSize
  <2>3. Len(chains) = n /\ (n + 1) - 1 = n /\ n \in 0 .. n
    BY <2>1, WalkCounts
  <2>4. EntryStart(s)[n] = SizeBefore(s, n)
    BY <2>2, <2>3, WalkCounts
  <2> QED
    BY <2>3, <2>4 DEF ChainOffset, ChainSizes
<1> QED
  BY <1>1, <1>4, <1>5, <1>6 DEF Measured

-----------------------------------------------------------------------------
(* Neither property is inductive: that a table is fixed up needs what came raw,    *)
(* which the mutation chose, and the length is right only if the neutralizer       *)
(* found the chains as the fix-up had left them.                                  *)
TableInv ==
    /\ stage = "raw" /\ arg.kind \in TableKinds => \E t \in Tables : arg \in RawTables(t)
    /\ stage = "raw" /\ arg.kind = "ebt_replace" => \E t \in Ebtables : arg \in RawEbtables(t)
    /\ stage \in {"built", "neutral"} /\ arg.kind \in TableKinds => Walkable(arg)
    /\ stage \in {"built", "neutral"} /\ arg.kind = "ebt_replace" /\ arg.pointer = "chains" =>
           Filled(arg)
    /\ stage = "neutral" /\ arg.kind = "ebt_replace" /\ arg.pointer = "chains" =>
           Measured(arg.chains, arg.len)

\* Every other kind of argument meets the invariant as it is.
LEMMA OtherKinds ==
    ASSUME arg'.kind \notin TableKinds \cup {"ebt_replace"}
    PROVE  TableInv'
  BY DEF TableInv

LEMMA RawTableKinds ==
    ASSUME NEW raw \in Raws
    PROVE  /\ raw.kind \in TableKinds => \E t \in Tables : raw \in RawTables(t)
           /\ raw.kind = "ebt_replace" => \E t \in Ebtables : raw \in RawEbtables(t)
<1>1. \A t : \A r \in RawTables(t) : r.kind \in {"ipt_replace", "arpt_replace"}
  BY DEF RawTables, KindOf
<1>2. \A t : \A r \in RawEbtables(t) : r.kind = "ebt_replace"
  BY DEF RawEbtables
<1>3. \A k \in UsbTypes : \A r \in RawDescriptors(k) :
        r.kind \notin TableKinds \cup {"ebt_replace"}
  BY DEF RawDescriptors, UsbTypes, TableKinds
<1>4. \/ \E t \in Tables : raw \in RawTables(t)
      \/ \E t \in Ebtables : raw \in RawEbtables(t)
      \/ \E k \in UsbTypes : raw \in RawDescriptors(k)
  BY DEF Raws
<1> QED
  BY <1>1, <1>2, <1>3, <1>4 DEF TableKinds

LEMMA NotATable ==
    ASSUME NEW c, IsCall(c)
    PROVE  c.kind \notin TableKinds \cup {"ebt_replace"}
  BY DEF IsCall, TableKinds

LEMMA EbtablesFilled ==
    ASSUME NEW table \in Ebtables, NEW raw \in RawEbtables(table)
    PROVE  LET a == generateEbtables(raw)
           IN  a.kind = "ebt_replace" /\ (a.pointer = "chains" => Filled(a))
<1> DEFINE a == generateEbtables(raw)
<1>1. a.kind = "ebt_replace" /\ a.pointer = raw.pointer
  BY DEF generateEbtables, StaleEbtables
<1>2. CASE raw.pointer = "chains"
  <2>1. raw = [kind |-> "ebt_replace", table |-> table, pointer |-> "chains",
               chains |-> raw.chains]
        /\ raw.chains \in UNION {[1 .. n -> 0 .. 2] : n \in 3 .. 4}
    BY <1>2 DEF RawEbtables
  <2>2. PICK n \in 3 .. 4 : raw.chains \in [1 .. n -> 0 .. 2]
    BY <2>1
  <2> QED
    BY <1>1, <2>1, <2>2, FixedChains
<1> QED
  BY <1>1, <1>2

LEMMA TableInductive ==
    ASSUME TargetInv, SpecialInv, TableInv, [Next]_vars
    PROVE  TableInv'
<1>1. ASSUME NEW arch \in Arches, InitTarget(arch) PROVE TableInv'
  BY <1>1 DEF InitTarget, TableInv
<1>2. CASE GenerateCall
  <2>1. IsCall(arg')
    BY <1>2, RawCallsAssumption DEF GenerateCall
  <2> QED
    BY <2>1, NotATable, OtherKinds
<1>3. CASE GenerateSpecialArg \/ MutateArg
  <2>1. arg' \in Raws /\ stage' = "raw"
    BY <1>3 DEF GenerateSpecialArg, MutateArg
  <2> QED
    BY <2>1, RawTableKinds DEF TableInv
<1>4. CASE FixTable
  <2>1. PICK t \in Tables : arg \in RawTables(t)
    BY <1>4 DEF FixTable, TableInv, TableKinds
  <2>2. stage' = "built" /\ arg'.kind \in TableKinds /\ Walkable(arg')
    BY <1>4, <2>1, FixedTableWalkable DEF FixTable, TableKinds
  <2> QED
    BY <2>2 DEF TableInv, TableKinds
<1>5. CASE FixEbtables
  <2>1. PICK t \in Ebtables : arg \in RawEbtables(t)
    BY <1>5 DEF FixEbtables, TableInv
  <2>2. stage' = "built" /\ arg'.kind = "ebt_replace" /\ (arg'.pointer = "chains" => Filled(arg'))
    BY <1>5, <2>1, EbtablesFilled DEF FixEbtables
  <2> QED
    BY <2>2 DEF TableInv, TableKinds
<1>6. CASE FixUsb
  <2>1. \A record, n : \A d \in Descriptors(record, n) : d.kind = "usb_device_descriptor"
    BY DEF Descriptors
  <2>2. arg'.kind = "usb_device_descriptor"
    BY <1>6, <2>1 DEF FixUsb, generateUsbDeviceDescriptor
  <2> QED
    BY <2>2, OtherKinds DEF TableKinds
<1>7. CASE FixHid
  <2>1. arg'.kind = "usb_device_descriptor_hid"
    BY <1>7 DEF FixHid, generateUsbHidDeviceDescriptor
  <2> QED
    BY <2>1, OtherKinds DEF TableKinds
<1>8. ASSUME NEW kind \in TimeTypes, GenerateTime(kind) PROVE TableInv'
  <2>1. arg'.kind = kind
    BY <1>8, TimesOfKind DEF GenerateTime
  <2> QED
    BY <2>1, OtherKinds DEF TableKinds, TimeTypes
<1>9. ASSUME NEW kind \in DOMAIN NameTypes, StartName(kind) PROVE TableInv'
  <2>1. arg'.kind = kind
    BY <1>9 DEF StartName
  <2> QED
    BY <2>1, OtherKinds DEF TableKinds, NameTypes
<1>10. CASE ExpandName
  <2>1. PICK kind \in DOMAIN NameTypes : \E type, todo, name :
            arg = [kind |-> kind, type |-> type, todo |-> todo, name |-> name]
    BY <1>10 DEF ExpandName, Naming, SpecialInv, NameInHand
  <2>2. PICK type, todo, name :
            arg = [kind |-> kind, type |-> type, todo |-> todo, name |-> name]
    BY <2>1
  <2>3. arg'.kind = kind
    BY <1>10, <2>2 DEF ExpandName
  <2> QED
    BY <2>3, OtherKinds DEF TableKinds, NameTypes
<1>11. CASE FinishName
  <2>1. arg'.kind \in DOMAIN NameTypes
    BY <1>11 DEF FinishName, Naming
  <2> QED
    BY <2>1, OtherKinds DEF TableKinds, NameTypes
<1>12. CASE Neutralized
  <2>1. stage = "built" /\ stage' = "neutral" /\ arg' = neutralize(arg) /\ arg'.kind = arg.kind
    BY <1>12, BuildableNeutral DEF Neutralized, TargetInv, NeutralArg
  <2>2. CASE arg.kind \in TableKinds
    <3>1. arg' = arg
      BY <2>1, <2>2 DEF TableKinds, neutralize, neutralizeCall
    <3> QED
      BY <2>1, <2>2, <3>1 DEF TableInv, TableKinds
  <2>3. CASE arg.kind = "ebt_replace"
    <3>1. IsEbtables(arg) /\ arg' = neutralizeEbtables(arg)
      BY <2>1, <2>3, NotATable DEF TargetInv, Buildable, SpecialKinds, neutralize
    <3>2. arg'.pointer = arg.pointer
      BY <3>1 DEF neutralizeEbtables
    <3>3. arg.pointer = "chains" => Filled(arg') /\ Measured(arg'.chains, arg'.len)
      BY <2>1, <2>3, <3>1, NeutralMeasured DEF TableInv
    <3> QED
      BY <2>1, <2>3, <3>2, <3>3 DEF TableInv, TableKinds
  <2>4. CASE arg.kind \notin TableKinds \cup {"ebt_replace"}
    BY <2>1, <2>4, OtherKinds
  <2> QED
    BY <2>2, <2>3, <2>4
<1>13. CASE NeutralizeFails
  BY <1>13 DEF NeutralizeFails, TableInv
<1>14. CASE NextArgument
  BY <1>14, OtherKinds DEF NextArgument, Nothing, TableKinds
<1>15. CASE UNCHANGED vars
  BY <1>15 DEF vars, TableInv
<1> QED
  BY <1>1, <1>2, <1>3, <1>4, <1>5, <1>6, <1>7, <1>8, <1>9, <1>10, <1>11, <1>12, <1>13, <1>14,
     <1>15 DEF Next

LEMMA TablesHold == Spec => [](TargetInv /\ SpecialInv /\ TableInv)
<1>1. Init => TableInv
  BY DEF Init, TableInv
<1>2. TargetInv /\ SpecialInv /\ TableInv /\ [Next]_vars => TableInv'
  BY TableInductive
<1> QED
  BY <1>1, <1>2, TargetAndSpecial, PTL DEF Spec

(* However the entries were mutated, hooks, underflows and jumps of a table are    *)
(* where the kernel finds an entry (init_iptables.go:22-107).                     *)
THEOREM TablesWalkable == Spec => []TableWalkable
<1>1. TableInv => TableWalkable
  BY DEF TableInv, TableWalkable, Walkable, TableKinds
<1> QED
  BY <1>1, TablesHold, PTL

(* The chains share out the counters, every valid hook has a chain of its own and  *)
(* setsockopt is told the right size (init_iptables.go:109-181).                  *)
THEOREM ChainsConsistent == Spec => []EbtablesConsistent
<1>1. TableInv => EbtablesConsistent
  BY DEF TableInv, EbtablesConsistent, Filled, SharedOut, Shares, Hooked, Measured, ChainSizes,
         Ranges
<1> QED
  BY <1>1, TablesHold, PTL
-----------------------------------------------------------------------------
(* Names.  NamesWithin is defined by recursion; that there is such a function is  *)
(* proved from its first n values, which determine one another.                  *)
NameSets == [Types -> SUBSET Seq(Tokens)]
NoNames == [t \in Types |-> {}]
\* The first n + 1 values of NamesWithin.
IsChain(v, n) ==
    /\ v \in [0 .. n -> NameSets]
    /\ v[0] = NoNames
    /\ \A i \in 1 .. n : v[i] = NamesOver(v[i - 1])

LEMMA ChainExists ==
    ASSUME NEW n \in Nat
    PROVE  \E v : IsChain(v, n)
<1> DEFINE T == {m \in Nat : \E v : IsChain(v, m)}
<1>1. 0 \in T
  <2>1. IsChain([i \in 0 .. 0 |-> NoNames], 0)
    BY DEF IsChain, NameSets, NoNames
  <2> QED
    BY <2>1
<1>2. ASSUME NEW m \in T PROVE m + 1 \in T
  <2>1. m \in Nat /\ \E v : IsChain(v, m)
    OBVIOUS
  <2>2. PICK v : IsChain(v, m)
    BY <2>1
  <2> DEFINE w == [i \in 0 .. m + 1 |-> IF i = m + 1 THEN NamesOver(v[m]) ELSE v[i]]
  <2>3. NamesOver(v[m]) \in NameSets
    BY DEF NamesOver, NameSets
  <2>4. w \in [0 .. m + 1 -> NameSets]
    BY <2>1, <2>2, <2>3 DEF IsChain
  <2>5. w[0] = NoNames
    BY <2>1, <2>2 DEF IsChain
  <2>6. ASSUME NEW i \in 1 .. m + 1 PROVE w[i] = NamesOver(w[i - 1])
    <3>1. i - 1 \in 0 .. m /\ i - 1 # m + 1 /\ i \in 0 .. m + 1 /\ i - 1 \in 0 .. m + 1
      BY <2>1
    <3>2. w[i - 1] = v[i - 1]
      BY <3>1
    <3>3. CASE i = m + 1
      <4>1. i - 1 = m /\ w[i] = NamesOver(v[m])
        BY <2>1, <3>1, <3>3
      <4> QED
        BY <3>2, <4>1
    <3>4. CASE i # m + 1
      <4>1. i \in 1 .. m /\ w[i] = v[i]
        BY <2>1, <3>1, <3>4
      <4> QED
        BY <2>2, <3>2, <4>1 DEF IsChain
    <3> QED
      BY <3>3, <3>4
  <2>7. IsChain(w, m + 1)
    <3> HIDE DEF w
    <3> QED
      BY <2>4, <2>5, <2>6 DEF IsChain
  <2> QED
    BY <2>1, <2>7
<1>3. T = Nat
  <2> HIDE DEF T
  <2> QED
    BY <1>1, <1>2, AllNaturals DEF T
<1> QED
  BY <1>3

LEMMA ChainsAgree ==
    ASSUME NEW n \in Nat, NEW m \in Nat, NEW v, NEW w, IsChain(v, n), IsChain(w, m),
           NEW i \in 0 .. n, i \in 0 .. m
    PROVE  v[i] = w[i]
<1> DEFINE T == {j \in Nat : j <= n /\ j <= m => v[j] = w[j]}
<1>1. 0 \in T
  BY DEF IsChain
<1>2. ASSUME NEW j \in T PROVE j + 1 \in T
  <2> SUFFICES ASSUME j + 1 <= n, j + 1 <= m PROVE v[j + 1] = w[j + 1]
    OBVIOUS
  <2>1. /\ j \in Nat /\ j + 1 \in 1 .. n /\ j + 1 \in 1 .. m /\ (j + 1) - 1 = j
        /\ v[j] = w[j]
    OBVIOUS
  <2>2. v[j + 1] = NamesOver(v[j]) /\ w[j + 1] = NamesOver(w[j])
    BY <2>1 DEF IsChain
  <2> QED
    BY <2>1, <2>2
<1>3. T = Nat
  <2> HIDE DEF T
  <2> QED
    BY <1>1, <1>2, AllNaturals DEF T
<1>4. i \in T /\ i <= n /\ i <= m
  BY <1>3
<1> QED
  BY <1>4

LEMMA NamesWithinSteps ==
    /\ NamesWithin \in [Nat -> NameSets]
    /\ NamesWithin[0] = NoNames
    /\ \A n \in Nat : NamesWithin[n + 1] = NamesOver(NamesWithin[n])
<1> DEFINE Steps(f) == f = [n \in Nat |-> IF n = 0 THEN NoNames ELSE NamesOver(f[n - 1])]
           chain(n) == CHOOSE v : IsChain(v, n)
           g == [n \in Nat |-> chain(n)[n]]
<1>1. \A n \in Nat : IsChain(chain(n), n)
  BY ChainExists
<1> HIDE DEF chain
<1>2. ASSUME NEW n \in Nat, n # 0 PROVE g[n] = NamesOver(g[n - 1])
  <2>1. n - 1 \in Nat /\ n \in 1 .. n /\ n - 1 \in 0 .. n /\ n - 1 \in 0 .. n - 1
    BY <1>2
  <2>2. IsChain(chain(n), n) /\ IsChain(chain(n - 1), n - 1)
    BY <1>1, <2>1
  <2>3. chain(n)[n] = NamesOver(chain(n)[n - 1])
    BY <2>1, <2>2 DEF IsChain
  <2>4. chain(n)[n - 1] = chain(n - 1)[n - 1]
    BY <2>1, <2>2, ChainsAgree
  <2> QED
    BY <2>1, <2>3, <2>4
<1>3. g[0] = NoNames
  BY <1>1 DEF IsChain
<1>4. Steps(g)
  <2>1. DOMAIN g = Nat
    OBVIOUS
  <2>2. \A n \in Nat : g[n] = IF n = 0 THEN NoNames ELSE NamesOver(g[n - 1])
    <3> HIDE DEF g
    <3> QED
      BY <1>2, <1>3
  <2>3. g = [n \in Nat |-> g[n]]
    OBVIOUS
  <2> HIDE DEF g
  <2> QED
    BY <2>2, <2>3
<1>5. NamesWithin = CHOOSE f : Steps(f)
  BY DEF NamesWithin, NoNames
<1>6. Steps(NamesWithin)
  <2> HIDE DEF Steps, g
  <2> QED
    BY <1>4, <1>5
<1>7. \A n \in Nat : NamesWithin[n] = IF n = 0 THEN NoNames ELSE NamesOver(NamesWithin[n - 1])
  BY <1>6
<1>8. \A n \in Nat : NamesWithin[n] \in NameSets
  <2>1. \A names : NamesOver(names) \in NameSets
    BY DEF NameSets, NamesOver
  <2>2. NoNames \in NameSets
    BY DEF NameSets, NoNames
  <2> QED
    BY <1>7, <2>1, <2>2
<1>9. DOMAIN NamesWithin = Nat /\ NamesWithin = [n \in Nat |-> NamesWithin[n]]
  BY <1>6
<1>10. ASSUME NEW n \in Nat PROVE NamesWithin[n + 1] = NamesOver(NamesWithin[n])
  <2>1. n + 1 \in Nat /\ n + 1 # 0 /\ (n + 1) - 1 = n
    OBVIOUS
  <2> QED
    BY <1>7, <2>1
<1> QED
  BY <1>7, <1>8, <1>9, <1>10

\* A name by its shape, with n the depth of what it holds.
LEMMA NamesOfType ==
    ASSUME NEW n \in Nat, NEW t \in Types, NEW name \in Seq(Tokens)
    PROVE  name \in NamesWithin[n + 1][t] <=>
               \/ name = <<Complete[t]>>
               \/ \E alg \in Templates[t] : IsInstance(alg, name, NamesWithin[n])
<1>1. NamesWithin[n + 1] = NamesOver(NamesWithin[n])
  BY NamesWithinSteps
<1> QED
  BY <1>1 DEF NamesOver

LEMMA NamesAreTexts ==
    ASSUME NEW n \in Nat, NEW t \in Types
    PROVE  NamesWithin[n][t] \subseteq Seq(Tokens)
  BY NamesWithinSteps DEF NameSets

\* A template takes one to three arguments.
OneToThree == {<<a>> : a \in Types} \cup {<<a, b>> : a, b \in Types}
                  \cup {<<a, b, c>> : a, b, c \in Types}
LEMMA TemplateArguments ==
    ASSUME NEW t \in Types, NEW alg \in Templates[t]
    PROVE  alg.args \in Seq(Types) /\ Len(alg.args) > 0 /\ alg.name \in Tokens
<1>1. /\ {<<"cipher">>, <<"skcipher">>, <<"aead">>, <<"hash">>} \subseteq OneToThree
      /\ {<<"hash", "skcipher">>, <<"skcipher", "hash">>, <<"aead", "hash">>,
          <<"skcipher", "cipher">>} \subseteq OneToThree
      /\ <<"skcipher", "cipher", "hash">> \in OneToThree
  BY DEF OneToThree, Types
<1>2. \A a \in AeadTemplates : a.args \in OneToThree
  BY <1>1 DEF AeadTemplates, algDesc
<1>3. \A a \in SkcipherTemplates : a.args \in OneToThree
  BY <1>1 DEF SkcipherTemplates, algDesc
<1>4. \A a \in HashTemplates : a.args \in OneToThree
  BY <1>1 DEF HashTemplates, algDesc
<1>5. alg.args \in OneToThree
  BY <1>2, <1>3, <1>4 DEF Templates, Types
<1>6. \A args \in OneToThree : args \in Seq(Types) /\ Len(args) > 0
  <2>1. \A a \in Types : <<a>> \in Seq(Types) /\ Len(<<a>>) > 0
    OBVIOUS
  <2>2. \A a, b \in Types : <<a, b>> \in Seq(Types) /\ Len(<<a, b>>) > 0
    OBVIOUS
  <2>3. \A a, b, c \in Types : <<a, b, c>> \in Seq(Types) /\ Len(<<a, b, c>>) > 0
    OBVIOUS
  <2>4. TAKE args \in OneToThree
  <2>5. \/ \E a \in Types : args = <<a>>
        \/ \E a, b \in Types : args = <<a, b>>
        \/ \E a, b, c \in Types : args = <<a, b, c>>
    BY <2>4 DEF OneToThree
  <2> QED
    BY <2>1, <2>2, <2>3, <2>5
<1>7. alg.name \in Tokens
  <2>1. alg \in UNION {Templates[u] : u \in Types}
    OBVIOUS
  <2> QED
    BY <2>1 DEF Tokens
<1> QED
  BY <1>5, <1>6, <1>7

LEMMA InstanceGrows ==
    ASSUME NEW t \in Types, NEW alg \in Templates[t], NEW name, NEW names, NEW more,
           \A a \in Types : names[a] \subseteq more[a], IsInstance(alg, name, names)
    PROVE  IsInstance(alg, name, more)
<1>1. \A i \in 1 .. Len(alg.args) : alg.args[i] \in Types
  BY TemplateArguments
<1> QED
  BY <1>1 DEF IsInstance

\* What nests less deep may nest deeper.
LEMMA NamesGrow ==
    ASSUME NEW n \in Nat, NEW t \in Types
    PROVE  NamesWithin[n][t] \subseteq NamesWithin[n + 1][t]
<1> DEFINE T == {m \in Nat : \A a \in Types : NamesWithin[m][a] \subseteq NamesWithin[m + 1][a]}
<1>1. 0 \in T
  BY NamesWithinSteps DEF NoNames
<1>2. ASSUME NEW m \in T PROVE m + 1 \in T
  <2>1. m \in Nat /\ m + 1 \in Nat
        /\ \A a \in Types : NamesWithin[m][a] \subseteq NamesWithin[m + 1][a]
    OBVIOUS
  <2>2. ASSUME NEW a \in Types, NEW name \in NamesWithin[m + 1][a]
        PROVE  name \in NamesWithin[(m + 1) + 1][a]
    <3>1. name \in Seq(Tokens)
      BY <2>1, NamesAreTexts
    <3>2. \/ name = <<Complete[a]>>
          \/ \E alg \in Templates[a] : IsInstance(alg, name, NamesWithin[m])
      BY <2>1, <3>1, NamesOfType
    <3>3. \/ name = <<Complete[a]>>
          \/ \E alg \in Templates[a] : IsInstance(alg, name, NamesWithin[m + 1])
      BY <2>1, <3>2, InstanceGrows
    <3> QED
      BY <2>1, <3>1, <3>3, NamesOfType
  <2> QED
    BY <2>1, <2>2
<1>3. T = Nat
  <2> HIDE DEF T
  <2> QED
    BY <1>1, <1>2, AllNaturals DEF T
<1> QED
  BY <1>3

(* What is still to be written may be written in many ways: a text fits it if it   *)
(* falls into pieces at cut, each of which is punctuation or a name of its type.    *)
Items == Tokens \cup Types
IsPiece(item, text, n) ==
    IF item \in Types THEN text \in NamesWithin[n][item] ELSE text = <<item>>
FitsBy(cut, todo, text, n) ==
    /\ cut \in [0 .. Len(todo) -> 0 .. Len(text)]
    /\ cut[0] = 0 /\ cut[Len(todo)] = Len(text)
    /\ \A i \in 1 .. Len(todo) :
          /\ cut[i - 1] <= cut[i]
          /\ IsPiece(todo[i], SubSeq(text, cut[i - 1] + 1, cut[i]), n)
Fits(todo, text, n) == \E cut : FitsBy(cut, todo, text, n)

\* One token longer in front, everything is found one further on.
LEMMA ShiftedPart ==
    ASSUME NEW text \in Seq(Tokens), NEW long \in Seq(Tokens), NEW m \in Nat, m <= Len(text),
           Len(long) = m + 1, \A i \in 1 .. m : long[i + 1] = text[i],
           NEW a \in Nat, NEW b \in Nat, a > 0, b <= m
    PROVE  SubSeq(long, a + 1, b + 1) = SubSeq(text, a, b)
<1>1. Len(text) \in Nat
  OBVIOUS
<1>2. \A i \in a + 1 .. b + 1 : long[i] \in Tokens
  <2>1. \A i \in a + 1 .. b + 1 : i \in 1 .. Len(long)
    OBVIOUS
  <2> QED
    BY <2>1, ElementOfSeq
<1>3. \A i \in a .. b : text[i] \in Tokens
  <2>1. \A i \in a .. b : i \in 1 .. Len(text)
    BY <1>1
  <2> QED
    BY <2>1, ElementOfSeq
<1>4. /\ SubSeq(long, a + 1, b + 1) \in Seq(Tokens)
      /\ Len(SubSeq(long, a + 1, b + 1)) = IF a + 1 <= b + 1 THEN (b + 1) - (a + 1) + 1 ELSE 0
      /\ \A i \in 1 .. (b + 1) - (a + 1) + 1 : SubSeq(long, a + 1, b + 1)[i] = long[(a + 1) + i - 1]
  BY <1>2, SubSeqProperties
<1>5. /\ SubSeq(text, a, b) \in Seq(Tokens)
      /\ Len(SubSeq(text, a, b)) = IF a <= b THEN b - a + 1 ELSE 0
      /\ \A i \in 1 .. b - a + 1 : SubSeq(text, a, b)[i] = text[a + i - 1]
  BY <1>3, SubSeqProperties
<1>6. Len(SubSeq(long, a + 1, b + 1)) = Len(SubSeq(text, a, b))
  BY <1>4, <1>5
<1>7. ASSUME NEW i \in 1 .. Len(SubSeq(long, a + 1, b + 1))
      PROVE  SubSeq(long, a + 1, b + 1)[i] = SubSeq(text, a, b)[i]
  <2>1. i \in 1 .. b - a + 1 /\ i \in 1 .. (b + 1) - (a + 1) + 1 /\ a + i - 1 \in 1 .. m
        /\ (a + 1) + i - 1 = (a + i - 1) + 1
    BY <1>1, <1>4
  <2> QED
    BY <1>4, <1>5, <2>1
<1> QED
  BY <1>4, <1>5, <1>6, <1>7, SeqEqual

LEMMA TokenInFront ==
    ASSUME NEW text \in Seq(Tokens), NEW tok \in Tokens
    PROVE  /\ <<tok>> \o text \in Seq(Tokens) /\ Len(<<tok>> \o text) = Len(text) + 1
           /\ (<<tok>> \o text)[1] = tok
           /\ \A i \in 1 .. Len(text) : (<<tok>> \o text)[i + 1] = text[i]
<1>1. <<tok>> \in Seq(Tokens) /\ Len(<<tok>>) = 1 /\ <<tok>>[1] = tok /\ Len(text) \in Nat
  OBVIOUS
<1>2. /\ <<tok>> \o text \in Seq(Tokens) /\ Len(<<tok>> \o text) = 1 + Len(text)
      /\ \A i \in 1 .. 1 + Len(text) :
             (<<tok>> \o text)[i] = IF i <= 1 THEN tok ELSE text[i - 1]
  BY <1>1, ConcatProperties
<1>3. \A i \in 1 .. Len(text) : i + 1 \in 1 .. 1 + Len(text) /\ ~(i + 1 <= 1) /\ (i + 1) - 1 = i
  BY <1>1
<1> QED
  BY <1>1, <1>2, <1>3

LEMMA CutsGrow ==
    ASSUME NEW n \in Nat, NEW cut \in [0 .. n -> Nat], \A i \in 1 .. n : cut[i - 1] <= cut[i],
           NEW i \in 0 .. n, NEW j \in i .. n
    PROVE  cut[i] <= cut[j]
<1> DEFINE T == {d \in Nat : i + d <= n => cut[i] <= cut[i + d]}
<1>1. 0 \in T
  OBVIOUS
<1>2. ASSUME NEW d \in T PROVE d + 1 \in T
  <2> SUFFICES ASSUME i + (d + 1) <= n PROVE cut[i] <= cut[i + (d + 1)]
    OBVIOUS
  <2>1. d \in Nat /\ i + d \in 0 .. n /\ i + (d + 1) \in 1 .. n /\ (i + (d + 1)) - 1 = i + d
        /\ cut[i] <= cut[i + d]
    OBVIOUS
  <2>2. cut[i + d] <= cut[i + (d + 1)]
    BY <2>1
  <2>3. cut[i] \in Nat /\ cut[i + d] \in Nat /\ cut[i + (d + 1)] \in Nat
    BY <2>1
  <2> QED
    BY <2>1, <2>2, <2>3
<1>3. T = Nat
  <2> HIDE DEF T
  <2> QED
    BY <1>1, <1>2, AllNaturals DEF T
<1>4. j - i \in Nat /\ i + (j - i) = j /\ j <= n
  OBVIOUS
<1>5. j - i \in T
  <2> HIDE DEF T
  <2> QED
    BY <1>3, <1>4
<1> QED
  BY <1>4, <1>5

\* The first items are written as one, of which the next token is the beginning.
LEMMA FitsTogether ==
    ASSUME NEW items \in Seq(Items), NEW rest \in Seq(Items), NEW text \in Seq(Tokens),
           NEW tok \in Tokens, NEW x \in Items, NEW n \in Nat, NEW cut,
           FitsBy(cut, items \o rest, text, n),
           IsPiece(x, SubSeq(<<tok>> \o text, 1, cut[Len(items)] + 1), n + 1)
    PROVE  Fits(<<x>> \o rest, <<tok>> \o text, n + 1)
<1> DEFINE k == Len(items)
           d == [i \in 0 .. Len(rest) + 1 |-> IF i = 0 THEN 0 ELSE cut[k + i - 1] + 1]
<1>1. k \in Nat /\ Len(rest) \in Nat /\ Len(text) \in Nat
  OBVIOUS
<1>2. /\ Len(items \o rest) = k + Len(rest)
      /\ \A i \in 1 .. Len(rest) : (items \o rest)[k + i] = rest[i]
  <2>1. /\ Len(items \o rest) = k + Len(rest)
        /\ \A i \in 1 .. k + Len(rest) :
               (items \o rest)[i] = IF i <= k THEN items[i] ELSE rest[i - k]
    BY ConcatProperties
  <2>2. \A i \in 1 .. Len(rest) : k + i \in 1 .. k + Len(rest) /\ ~(k + i <= k) /\ (k + i) - k = i
    BY <1>1
  <2> HIDE DEF k
  <2> QED
    BY <2>1, <2>2
<1>3. /\ Len(<<x>> \o rest) = Len(rest) + 1 /\ (<<x>> \o rest)[1] = x
      /\ \A i \in 1 .. Len(rest) : (<<x>> \o rest)[i + 1] = rest[i]
  <2>1. <<x>> \in Seq(Items) /\ Len(<<x>>) = 1 /\ <<x>>[1] = x
    OBVIOUS
  <2>2. /\ Len(<<x>> \o rest) = 1 + Len(rest)
        /\ \A i \in 1 .. 1 + Len(rest) :
               (<<x>> \o rest)[i] = IF i <= 1 THEN x ELSE rest[i - 1]
    BY <2>1, ConcatProperties
  <2>3. \A i \in 1 .. Len(rest) : i + 1 \in 1 .. 1 + Len(rest) /\ ~(i + 1 <= 1) /\ (i + 1) - 1 = i
    BY <1>1
  <2> QED
    BY <1>1, <2>2, <2>3
<1>4. Len(<<tok>> \o text) = Len(text) + 1
  BY TokenInFront
<1>5. /\ cut \in [0 .. k + Len(rest) -> 0 .. Len(text)]
      /\ cut[0] = 0 /\ cut[k + Len(rest)] = Len(text)
      /\ \A i \in 1 .. k + Len(rest) :
            /\ cut[i - 1] <= cut[i]
            /\ IsPiece((items \o rest)[i], SubSeq(text, cut[i - 1] + 1, cut[i]), n)
  BY <1>2 DEF FitsBy
<1>x. IsPiece(x, SubSeq(<<tok>> \o text, 1, cut[k] + 1), n + 1)
  OBVIOUS
<1> HIDE DEF k
<1>6. d \in [0 .. Len(rest) + 1 -> 0 .. Len(text) + 1]
  <2>1. ASSUME NEW i \in 0 .. Len(rest) + 1, i # 0 PROVE cut[k + i - 1] \in 0 .. Len(text)
    <3>1. k + i - 1 \in 0 .. k + Len(rest)
      BY <1>1, <2>1
    <3> QED
      BY <1>5, <3>1
  <2> QED
    BY <1>1, <2>1
<1>7. d[0] = 0 /\ d[Len(rest) + 1] = Len(text) + 1
  <2>1. k + (Len(rest) + 1) - 1 = k + Len(rest)
    BY <1>1
  <2> QED
    BY <1>1, <1>5, <2>1
<1>8. \A i \in 1 .. Len(rest) + 1 : d[i] = cut[k + i - 1] + 1
  BY <1>1
<1>9. ASSUME NEW i \in 1 .. Len(rest) + 1
      PROVE  /\ d[i - 1] <= d[i]
             /\ IsPiece((<<x>> \o rest)[i], SubSeq(<<tok>> \o text, d[i - 1] + 1, d[i]), n + 1)
  <2>1. CASE i = 1
    <3>1. /\ 1 \in 1 .. Len(rest) + 1 /\ k + 1 - 1 = k /\ k \in 0 .. k + Len(rest)
          /\ i - 1 = 0 /\ 0 + 1 = 1
      BY <1>1, <2>1
    <3>2. d[1] = cut[k + 1 - 1] + 1
      BY <1>8, <3>1
    <3>3. d[i] = cut[k] + 1 /\ d[i - 1] = 0 /\ cut[k] \in Nat
      BY <1>5, <1>7, <2>1, <3>1, <3>2
    <3>4. d[i - 1] + 1 = 1
      BY <3>3
    <3> HIDE DEF d
    <3>5. IsPiece((<<x>> \o rest)[i], SubSeq(<<tok>> \o text, d[i - 1] + 1, d[i]), n + 1)
      BY <1>3, <1>x, <2>1, <3>3, <3>4
    <3> QED
      BY <3>3, <3>5
  <2>2. CASE i # 1
    <3> DEFINE j == k + (i - 1)
    <3>1. /\ i - 1 \in 1 .. Len(rest) /\ i - 1 \in 1 .. Len(rest) + 1
          /\ j \in 1 .. k + Len(rest) /\ j - 1 = k + (i - 1) - 1 /\ j = k + i - 1
          /\ j \in 0 .. k + Len(rest) /\ j - 1 \in 0 .. k + Len(rest) /\ (i - 1) + 1 = i
      BY <1>1, <2>2
    <3>2. d[i - 1] = cut[j - 1] + 1 /\ d[i] = cut[j] + 1
      BY <1>8, <3>1
    <3>3. (<<x>> \o rest)[i] = (items \o rest)[j]
      BY <1>2, <1>3, <3>1
    <3>4. cut[j - 1] \in 0 .. Len(text) /\ cut[j] \in 0 .. Len(text) /\ cut[j - 1] <= cut[j]
      BY <1>5, <3>1
    <3> DEFINE p == cut[j - 1] + 1
               q == cut[j]
    <3>5. p \in Nat /\ q \in Nat /\ p > 0 /\ q <= Len(text) /\ d[i - 1] = p /\ d[i] = q + 1
      BY <1>1, <3>2, <3>4
    <3>6. IsPiece((items \o rest)[j], SubSeq(text, p, q), n)
      BY <1>5, <3>1
    <3> HIDE DEF d, j, p, q
    <3>7. IsPiece((items \o rest)[j], SubSeq(text, p, q), n + 1)
      BY <3>6, NamesGrow DEF IsPiece
    <3>8. SubSeq(<<tok>> \o text, p + 1, q + 1) = SubSeq(text, p, q)
      BY <1>1, <3>5, TokenInFront, ShiftedPart
    <3>9. SubSeq(<<tok>> \o text, d[i - 1] + 1, d[i]) = SubSeq(text, p, q)
      BY <3>5, <3>8
    <3>10. d[i - 1] <= d[i]
      BY <3>2, <3>4
    <3> QED
      BY <3>3, <3>7, <3>9, <3>10
  <2> QED
    BY <2>1, <2>2
<1> HIDE DEF d
<1>10. FitsBy(d, <<x>> \o rest, <<tok>> \o text, n + 1)
  BY <1>3, <1>4, <1>6, <1>7, <1>9 DEF FitsBy
<1> QED
  BY <1>10 DEF Fits

LEMMA ArgumentItems ==
    ASSUME NEW args \in Seq(Types), Len(args) > 0
    PROVE  /\ Arguments(args) \in Seq(Items) /\ Len(Arguments(args)) = 2 * Len(args) + 1
           /\ Arguments(args)[1] = "(" /\ Arguments(args)[2 * Len(args) + 1] = ")"
           /\ \A i \in 1 .. Len(args) : Arguments(args)[2 * i] = args[i]
           /\ \A i \in 1 .. Len(args) - 1 : Arguments(args)[2 * i + 1] = ","
<1> DEFINE k == Len(args)
           mid == [i \in 1 .. 2 * k - 1 |-> IF i % 2 = 1 THEN args[(i + 1) \div 2] ELSE ","]
<1>1. k \in Nat /\ k > 0
  OBVIOUS
<1>2. /\ \A i \in 1 .. k : 2 * i - 1 \in 1 .. 2 * k - 1 /\ (2 * i - 1) % 2 = 1
                           /\ ((2 * i - 1) + 1) \div 2 = i
      /\ \A i \in 1 .. k - 1 : 2 * i \in 1 .. 2 * k - 1 /\ (2 * i) % 2 # 1
      /\ \A i \in 1 .. 2 * k - 1 : (i + 1) \div 2 \in 1 .. k
  <2> HIDE DEF k
  <2> QED
    BY <1>1
<1>3. "(" \in Items /\ "," \in Items /\ ")" \in Items /\ \A i \in 1 .. k : args[i] \in Items
  <2>1. "(" \in Tokens /\ "," \in Tokens /\ ")" \in Tokens
    BY DEF Tokens
  <2>2. \A i \in 1 .. k : args[i] \in Types
    BY ElementOfSeq
  <2> QED
    BY <2>1, <2>2 DEF Items
<1>4. mid \in Seq(Items) /\ Len(mid) = 2 * k - 1
  <2>1. \A i \in 1 .. 2 * k - 1 : mid[i] \in Items
    BY <1>2, <1>3
  <2>0. 2 * k - 1 \in Nat
    BY <1>1
  <2>4. mid = [i \in 1 .. 2 * k - 1 |-> mid[i]]
    OBVIOUS
  <2> HIDE DEF mid, k
  <2>2. mid \in [1 .. 2 * k - 1 -> Items] /\ 2 * k - 1 \in Nat
    BY <2>0, <2>1, <2>4
  <2>3. mid \in Seq(Items)
    BY <2>2
  <2> QED
    BY <2>2, <2>3
<1>5. /\ \A i \in 1 .. k : mid[2 * i - 1] = args[i]
      /\ \A i \in 1 .. k - 1 : mid[2 * i] = ","
  BY <1>2
<1>6. Arguments(args) = (<<"(">> \o mid) \o <<")">>
  BY DEF Arguments
<1> HIDE DEF mid, k
<1>7. <<"(">> \in Seq(Items) /\ <<")">> \in Seq(Items) /\ Len(<<"(">>) = 1 /\ Len(<<")">>) = 1
      /\ <<"(">>[1] = "(" /\ <<")">>[1] = ")"
  <2>1. \A x \in Items : <<x>> \in Seq(Items) /\ Len(<<x>>) = 1 /\ <<x>>[1] = x
    OBVIOUS
  <2> QED
    BY <1>3, <2>1
<1>8. /\ <<"(">> \o mid \in Seq(Items) /\ Len(<<"(">> \o mid) = 1 + (2 * k - 1)
      /\ \A i \in 1 .. 1 + (2 * k - 1) :
            (<<"(">> \o mid)[i] = IF i <= 1 THEN <<"(">>[i] ELSE mid[i - 1]
  BY <1>4, <1>7, ConcatProperties
<1>9. /\ Arguments(args) \in Seq(Items) /\ Len(Arguments(args)) = 1 + (2 * k - 1) + 1
      /\ \A i \in 1 .. 1 + (2 * k - 1) + 1 :
            Arguments(args)[i] = IF i <= 1 + (2 * k - 1) THEN (<<"(">> \o mid)[i]
                                 ELSE <<")">>[i - (1 + (2 * k - 1))]
  BY <1>6, <1>7, <1>8, ConcatProperties
<1>10. \A i \in 2 .. 2 * k : Arguments(args)[i] = mid[i - 1]
  BY <1>1, <1>8, <1>9
<1>11. Arguments(args)[1] = "(" /\ Arguments(args)[2 * k + 1] = ")"
  BY <1>1, <1>7, <1>8, <1>9
<1>12. ASSUME NEW i \in 1 .. k PROVE Arguments(args)[2 * i] = args[i]
  <2>1. 2 * i \in 2 .. 2 * k
    BY <1>1
  <2> QED
    BY <1>5, <1>10, <2>1
<1>13. ASSUME NEW i \in 1 .. k - 1 PROVE Arguments(args)[2 * i + 1] = ","
  <2>1. 2 * i + 1 \in 2 .. 2 * k /\ (2 * i + 1) - 1 = 2 * i
    BY <1>1
  <2> QED
    BY <1>5, <1>10, <2>1
<1>14. 1 + (2 * k - 1) + 1 = 2 * k + 1
  BY <1>1
<1> QED
  BY <1>9, <1>11, <1>12, <1>13, <1>14 DEF k

\* Punctuation stands for itself: a piece of one token.
LEMMA PunctuationPiece ==
    ASSUME NEW text \in Seq(Tokens), NEW p, p \notin Types, NEW n,
           NEW a \in Nat, NEW b \in Nat, a <= b, b <= Len(text),
           IsPiece(p, SubSeq(text, a + 1, b), n)
    PROVE  b = a + 1 /\ text[b] = p
<1>1. SubSeq(text, a + 1, b) = <<p>>
  BY DEF IsPiece
<1>2. Len(text) \in Nat
  BY LenProperties
<1>3. \A i \in a + 1 .. b : text[i] \in Tokens
  <2>1. \A i \in a + 1 .. b : i \in 1 .. Len(text)
    BY <1>2
  <2> QED
    BY <2>1, ElementOfSeq
<1>4. a + 1 \in Nat
  OBVIOUS
<1>5. /\ Len(SubSeq(text, a + 1, b)) = IF a + 1 <= b THEN b - (a + 1) + 1 ELSE 0
      /\ \A i \in 1 .. b - (a + 1) + 1 : SubSeq(text, a + 1, b)[i] = text[(a + 1) + i - 1]
  BY <1>3, <1>4, SubSeqProperties
<1>6. Len(<<p>>) = 1 /\ <<p>>[1] = p
  OBVIOUS
<1>7. b = a + 1
  <2>1. Len(<<p>>) = IF a + 1 <= b THEN b - (a + 1) + 1 ELSE 0
    BY <1>1, <1>5
  <2> QED
    BY <1>6, <2>1
<1>8. 1 \in 1 .. b - (a + 1) + 1 /\ (a + 1) + 1 - 1 = b
  BY <1>7
<1>9. <<p>>[1] = text[(a + 1) + 1 - 1]
  BY <1>1, <1>5, <1>8
<1> QED
  BY <1>6, <1>7, <1>8, <1>9

\* What is written after the name of a template, its arguments, makes it complete.
LEMMA TemplateWritten ==
    ASSUME NEW t \in Types, NEW alg \in Templates[t], NEW rest \in Seq(Items),
           NEW text \in Seq(Tokens), NEW n \in Nat, NEW cut,
           FitsBy(cut, Arguments(alg.args) \o rest, text, n)
    PROVE  SubSeq(<<alg.name>> \o text, 1, cut[Len(Arguments(alg.args))] + 1)
               \in NamesWithin[n + 1][t]
<1> DEFINE args == alg.args
           k == Len(args)
           items == Arguments(args)
           long == <<alg.name>> \o text
           m == cut[2 * k + 1]
           name == SubSeq(long, 1, m + 1)
           at == [i \in 0 .. k |-> cut[2 * i + 1] + 1]
           mark(i) == IF i = 0 THEN "(" ELSE IF i = k THEN ")" ELSE ","
<1>1. args \in Seq(Types) /\ Len(args) > 0 /\ alg.name \in Tokens
  BY TemplateArguments
<1>2. k \in Nat /\ k > 0 /\ Len(text) \in Nat /\ Len(rest) \in Nat
  BY <1>1
<1>3. /\ items \in Seq(Items) /\ Len(items) = 2 * k + 1
      /\ items[1] = "(" /\ items[2 * k + 1] = ")"
      /\ \A i \in 1 .. k : items[2 * i] = args[i]
      /\ \A i \in 1 .. k - 1 : items[2 * i + 1] = ","
  BY <1>1, ArgumentItems
<1>4. long \in Seq(Tokens) /\ Len(long) = Len(text) + 1 /\ long[1] = alg.name
      /\ \A i \in 1 .. Len(text) : long[i + 1] = text[i]
  BY <1>1, TokenInFront
<1> HIDE DEF items, long
<1>5. /\ Len(items \o rest) = 2 * k + 1 + Len(rest)
      /\ \A i \in 1 .. 2 * k + 1 : (items \o rest)[i] = items[i]
  <2>1. /\ Len(items \o rest) = Len(items) + Len(rest)
        /\ \A i \in 1 .. Len(items) + Len(rest) :
              (items \o rest)[i] = IF i <= Len(items) THEN items[i] ELSE rest[i - Len(items)]
    BY <1>3, ConcatProperties
  <2>2. Len(items) = 2 * k + 1 /\ k \in Nat /\ Len(rest) \in Nat
    BY <1>2, <1>3
  <2> HIDE DEF k
  <2>3. \A i \in 1 .. 2 * k + 1 : i \in 1 .. Len(items) + Len(rest) /\ i <= Len(items)
    BY <2>2
  <2> QED
    BY <2>1, <2>2, <2>3
<1>6. FitsBy(cut, items \o rest, text, n)
  BY DEF items
<1>7. /\ cut \in [0 .. 2 * k + 1 + Len(rest) -> 0 .. Len(text)]
      /\ cut[0] = 0
      /\ \A i \in 1 .. 2 * k + 1 + Len(rest) : cut[i - 1] <= cut[i]
      /\ \A i \in 1 .. 2 * k + 1 + Len(rest) :
             IsPiece((items \o rest)[i], SubSeq(text, cut[i - 1] + 1, cut[i]), n)
  BY <1>5, <1>6 DEF FitsBy
<1>8. \A i \in 1 .. 2 * k + 1 : IsPiece(items[i], SubSeq(text, cut[i - 1] + 1, cut[i]), n)
  <2> HIDE DEF k
  <2> QED
    BY <1>2, <1>5, <1>7
<1>9. \A i \in 0 .. 2 * k + 1 : cut[i] \in 0 .. Len(text) /\ cut[i] <= m
  <2> TAKE i \in 0 .. 2 * k + 1
  <2> DEFINE N == 2 * k + 1 + Len(rest)
  <2>1. N \in Nat /\ i \in 0 .. N /\ 2 * k + 1 \in i .. N /\ cut \in [0 .. N -> Nat]
        /\ \A j \in 1 .. N : cut[j - 1] <= cut[j]
    BY <1>2, <1>7
  <2> HIDE DEF N
  <2>2. cut[i] <= cut[2 * k + 1]
    BY <2>1, CutsGrow
  <2>3. i \in 0 .. 2 * k + 1 + Len(rest)
    BY <2>1 DEF N
  <2> QED
    BY <1>7, <2>2, <2>3
<1> HIDE DEF m
<1>10. m \in 0 .. Len(text)
  <2>1. 2 * k + 1 \in 0 .. 2 * k + 1
    BY <1>2
  <2> QED
    BY <1>9, <2>1 DEF m
<1>11. name \in Seq(Tokens) /\ Len(name) = m + 1 /\ \A i \in 1 .. m + 1 : name[i] = long[i]
  <2>1. \A i \in 1 .. m + 1 : long[i] \in Tokens
    <3>1. \A i \in 1 .. m + 1 : i \in 1 .. Len(long)
      BY <1>2, <1>4, <1>10
    <3> QED
      BY <1>4, <3>1, ElementOfSeq
  <2>2. m + 1 \in Nat /\ 1 <= m + 1 /\ (m + 1) - 1 + 1 = m + 1
    BY <1>2, <1>10
  <2>3. /\ name \in Seq(Tokens)
        /\ Len(name) = IF 1 <= m + 1 THEN (m + 1) - 1 + 1 ELSE 0
        /\ \A i \in 1 .. (m + 1) - 1 + 1 : name[i] = long[1 + i - 1]
    BY <2>1, <2>2, SubSeqProperties
  <2>4. \A i \in 1 .. m + 1 : 1 + i - 1 = i
    BY <2>2
  <2> HIDE DEF name
  <2> QED
    BY <2>2, <2>3, <2>4
<1> HIDE DEF name
<1>12. name[1] = alg.name /\ name # <<>>
  <2>1. 1 \in 1 .. m + 1 /\ Len(name) # 0
    BY <1>2, <1>10, <1>11
  <2>2. name # <<>>
    BY <2>1
  <2> QED
    BY <1>4, <1>11, <2>1, <2>2
<1>13. \A i \in 1 .. m : name[i + 1] = text[i]
  <2> TAKE i \in 1 .. m
  <2>1. i + 1 \in 1 .. m + 1 /\ i \in 1 .. Len(text)
    BY <1>2, <1>10
  <2> QED
    BY <1>4, <1>11, <2>1
<1>14. ASSUME NEW i \in 0 .. k
       PROVE  cut[2 * i + 1] = cut[2 * i] + 1 /\ text[cut[2 * i + 1]] = mark(i)
  <2>1. items[2 * i + 1] = mark(i)
    <3>1. CASE i = 0
      <4>1. 2 * 0 + 1 = 1
        OBVIOUS
      <4> QED
        BY <1>3, <3>1, <4>1
    <3>2. CASE i = k
      <4>1. mark(i) = ")"
        BY <1>2, <3>2
      <4>2. items[2 * i + 1] = ")"
        BY <1>3, <3>2
      <4> QED
        BY <4>1, <4>2
    <3>3. CASE i # 0 /\ i # k
      <4>1. i \in 1 .. k - 1
        BY <1>2, <3>3
      <4> QED
        BY <1>3, <3>3, <4>1
    <3> QED
      BY <3>1, <3>2, <3>3
  <2> DEFINE j == 2 * i + 1
  <2>2. j \in 1 .. 2 * k + 1 /\ j - 1 = 2 * i /\ j \in 0 .. 2 * k + 1 /\ 2 * i \in 0 .. 2 * k + 1
        /\ j \in 1 .. 2 * k + 1 + Len(rest)
    BY <1>2
  <2>3. cut[j - 1] \in 0 .. Len(text) /\ cut[j] \in 0 .. Len(text) /\ cut[j - 1] <= cut[j]
    BY <1>7, <1>9, <2>2
  <2>4. IsPiece(items[j], SubSeq(text, cut[j - 1] + 1, cut[j]), n)
    BY <1>8, <2>2
  <2>5. mark(i) \notin Types
    BY DEF Types
  <2> HIDE DEF j
  <2>6. items[j] = mark(i)
    BY <2>1 DEF j
  <2> HIDE DEF mark
  <2>7. IsPiece(mark(i), SubSeq(text, cut[j - 1] + 1, cut[j]), n)
    BY <2>4, <2>6
  <2>9. cut[j - 1] \in Nat /\ cut[j] \in Nat /\ cut[j] <= Len(text)
    BY <1>2, <2>3
  <2>8. cut[j] = cut[j - 1] + 1 /\ text[cut[j]] = mark(i)
    BY <2>3, <2>5, <2>7, <2>9, PunctuationPiece
  <2> QED
    BY <2>2, <2>8 DEF j
<1>15. ASSUME NEW i \in 0 .. k
       PROVE  at[i] = cut[2 * i + 1] + 1 /\ at[i] \in 1 .. m + 1 /\ name[at[i]] = mark(i)
  <2>1. 2 * i + 1 \in 0 .. 2 * k + 1 /\ 2 * i \in 0 .. 2 * k + 1
    BY <1>2
  <2>5. /\ cut[2 * i + 1] \in 0 .. Len(text) /\ cut[2 * i + 1] <= m
        /\ cut[2 * i] \in 0 .. Len(text) /\ cut[2 * i + 1] = cut[2 * i] + 1
    BY <1>9, <1>14, <2>1
  <2>2. cut[2 * i + 1] \in 1 .. m
    BY <1>2, <1>10, <2>5
  <2>3. name[cut[2 * i + 1] + 1] = mark(i)
    BY <1>13, <1>14, <2>2
  <2>4. at[i] = cut[2 * i + 1] + 1
    OBVIOUS
  <2> HIDE DEF at, mark
  <2> QED
    BY <1>2, <1>10, <2>2, <2>3, <2>4
<1>16. mark(0) = "(" /\ mark(k) = ")" /\ (\A i \in 1 .. k - 1 : mark(i) = ",")
       /\ \A i \in 0 .. k : mark(i) \in {"(", ",", ")"}
  BY <1>2
<1>17. at[0] = 2 /\ at[k] = m + 1
  <2>1. 0 \in 0 .. k /\ k \in 0 .. k /\ 2 * 0 + 1 = 1 /\ 2 * 0 = 0 /\ 0 + 1 = 1 /\ 1 + 1 = 2
    BY <1>2
  <2>2. cut[1] = 1
    BY <1>7, <1>14, <2>1
  <2>3. at[0] = 2
    BY <1>15, <2>1, <2>2
  <2>4. at[k] = cut[2 * k + 1] + 1
    BY <1>15, <2>1
  <2> QED
    BY <2>3, <2>4 DEF m
<1>18. ASSUME NEW i \in 1 .. k
       PROVE  SubSeq(name, at[i - 1] + 1, at[i] - 1) \in NamesWithin[n][args[i]]
  <2>1. i \in 0 .. k /\ i - 1 \in 0 .. k /\ 2 * (i - 1) + 1 = 2 * i - 1
        /\ 2 * i \in 1 .. 2 * k + 1 /\ 2 * i - 1 \in 0 .. 2 * k + 1 /\ 2 * i \in 0 .. 2 * k + 1
    BY <1>2
  <2>2. at[i - 1] = cut[2 * i - 1] + 1
    BY <1>15, <2>1
  <2>3. at[i] = cut[2 * i] + 1 + 1
    BY <1>14, <1>15, <2>1
  <2> DEFINE a == cut[2 * i - 1] + 1
             b == cut[2 * i]
  <2>10. /\ cut[2 * i - 1] \in 0 .. Len(text) /\ cut[2 * i] \in 0 .. Len(text)
         /\ cut[2 * i] <= m
    BY <1>9, <2>1
  <2> HIDE DEF at
  <2>4. a \in Nat /\ b \in Nat /\ a > 0 /\ b <= m /\ at[i - 1] = a /\ at[i] - 1 = b + 1
    BY <1>2, <2>2, <2>3, <2>10
  <2>5. items[2 * i] = args[i] /\ args[i] \in Types
    BY <1>1, <1>3, ElementOfSeq
  <2>6. IsPiece(items[2 * i], SubSeq(text, a, b), n)
    BY <1>8, <2>1
  <2> HIDE DEF a, b
  <2>7. SubSeq(text, a, b) \in NamesWithin[n][args[i]]
    BY <2>5, <2>6 DEF IsPiece
  <2>8. m \in Nat /\ m <= Len(text)
    BY <1>2, <1>10
  <2>9. SubSeq(name, a + 1, b + 1) = SubSeq(text, a, b)
    BY <1>11, <1>13, <2>4, <2>8, ShiftedPart
  <2> QED
    BY <2>4, <2>7, <2>9
<1>19. DOMAIN name = 1 .. m + 1
  BY <1>11
<1> DEFINE marks == {i \in DOMAIN name : name[i] \in {"(", ",", ")"}}
<1>20. at \in [0 .. k -> marks]
  <2>1. \A i \in 0 .. k : at[i] \in marks
    BY <1>15, <1>16, <1>19
  <2>2. at = [i \in 0 .. k |-> at[i]]
    OBVIOUS
  <2> HIDE DEF at, marks
  <2> QED
    BY <2>1, <2>2
<1>21. /\ name[at[0]] = "(" /\ name[at[k]] = ")"
       /\ \A i \in 1 .. k - 1 : name[at[i]] = ","
  <2>1. 0 \in 0 .. k /\ k \in 0 .. k /\ \A i \in 1 .. k - 1 : i \in 0 .. k
    BY <1>2
  <2> HIDE DEF at, mark
  <2> QED
    BY <1>15, <1>16, <2>1
<1> HIDE DEF at, mark
<1>22. IsInstance(alg, name, NamesWithin[n])
  BY <1>11, <1>12, <1>17, <1>18, <1>20, <1>21 DEF IsInstance
<1>23. name \in NamesWithin[n + 1][t]
  BY <1>11, <1>22, NamesOfType
<1>24. cut[Len(items)] = m
  BY <1>3 DEF m
<1> QED
  BY <1>23, <1>24 DEF name, items, long

(* Between two steps the name may end in whatever fits what is still to be         *)
(* written: each such end makes it a name of the type asked for.  A name nests     *)
(* at most as deep as its end does and one deeper for each token it has.            *)
Continued(type, todo, name) ==
    \A n \in Nat : \A text \in Seq(Tokens) :
        Fits(todo, text, n) => name \o text \in NamesWithin[n + Len(name)][type]
Unfinished(a) ==
    \E kind \in DOMAIN NameTypes : \E type \in NameTypes[kind] :
        \E todo \in Seq(Items), name \in Seq(Tokens) :
            /\ a = [kind |-> kind, type |-> type, todo |-> todo, name |-> name]
            /\ Continued(type, todo, name)
Finished(a) ==
    /\ a.type \in NameTypes[a.kind] /\ IsName(a.type, a.name)
    /\ Len(a.field) = NameSize
    /\ \A i \in 1 .. NameSize : a.field[i] = IF i <= Len(a.name) THEN a.name[i] ELSE "NUL"
NameInv ==
    /\ stage = "raw" /\ arg.kind \in DOMAIN NameTypes => Unfinished(arg)
    /\ stage \in {"built", "neutral"} /\ arg.kind \in DOMAIN NameTypes => Finished(arg)

LEMMA NameTypesAreTypes ==
    ASSUME NEW kind \in DOMAIN NameTypes, NEW type \in NameTypes[kind]
    PROVE  type \in Types
  BY DEF NameTypes, allTypes, Types

LEMMA NothingWritten ==
    ASSUME NEW type \in Types
    PROVE  Continued(type, <<type>>, <<>>)
<1> SUFFICES ASSUME NEW n \in Nat, NEW text \in Seq(Tokens), Fits(<<type>>, text, n)
             PROVE  <<>> \o text \in NamesWithin[n + 0][type]
  BY DEF Continued
<1>1. PICK cut : FitsBy(cut, <<type>>, text, n)
  BY DEF Fits
<1>2. Len(<<type>>) = 1 /\ <<type>>[1] = type /\ 1 - 1 = 0 /\ 1 \in 1 .. 1
  OBVIOUS
<1>3. cut[0] = 0 /\ cut[1] = Len(text) /\ IsPiece(type, SubSeq(text, cut[1 - 1] + 1, cut[1]), n)
  BY <1>1, <1>2 DEF FitsBy
<1>4. IsPiece(type, SubSeq(text, 1, Len(text)), n)
  <2>1. cut[1 - 1] + 1 = 1
    BY <1>2, <1>3
  <2> QED
    BY <1>3, <2>1
<1>5. SubSeq(text, 1, Len(text)) = text
  BY SubSeqFull
<1>6. text \in NamesWithin[n][type]
  BY <1>4, <1>5 DEF IsPiece
<1>7. <<>> \o text = text /\ n + 0 = n
  BY ConcatEmptySeq
<1> QED
  BY <1>6, <1>7

LEMMA AllWritten ==
    ASSUME NEW type \in Types, NEW name \in Seq(Tokens), Continued(type, <<>>, name)
    PROVE  IsName(type, name)
<1> DEFINE cut == [i \in 0 .. 0 |-> 0]
<1>1. Len(<<>>) = 0 /\ <<>> \in Seq(Tokens)
  OBVIOUS
<1>2. FitsBy(cut, <<>>, <<>>, 0)
  BY <1>1 DEF FitsBy
<1>3. Fits(<<>>, <<>>, 0)
  BY <1>2 DEF Fits
<1>4. name \o <<>> \in NamesWithin[0 + Len(name)][type]
  BY <1>1, <1>3 DEF Continued
<1>5. name \o <<>> = name /\ 0 + Len(name) = Len(name)
  BY ConcatEmptySeq, LenProperties
<1> QED
  BY <1>4, <1>5 DEF IsName

LEMMA NameContinues ==
    ASSUME NEW type \in Types, NEW todo, NEW name \in Seq(Tokens), Continued(type, todo, name),
           NEW tok \in Tokens, NEW next,
           \A n \in Nat : \A text \in Seq(Tokens) :
               Fits(next, text, n) => Fits(todo, <<tok>> \o text, n + 1)
    PROVE  Append(name, tok) \in Seq(Tokens) /\ Continued(type, next, Append(name, tok))
<1>1. /\ Append(name, tok) \in Seq(Tokens) /\ Len(Append(name, tok)) = Len(name) + 1
      /\ Append(name, tok) = name \o <<tok>>
  BY AppendProperties, AppendIsConcat
<1>2. ASSUME NEW n \in Nat, NEW text \in Seq(Tokens), Fits(next, text, n)
      PROVE  Append(name, tok) \o text \in NamesWithin[n + Len(Append(name, tok))][type]
  <2>1. Fits(todo, <<tok>> \o text, n + 1) /\ <<tok>> \o text \in Seq(Tokens) /\ n + 1 \in Nat
    BY <1>2, TokenInFront
  <2>2. name \o (<<tok>> \o text) \in NamesWithin[(n + 1) + Len(name)][type]
    BY <2>1 DEF Continued
  <2>3. <<tok>> \in Seq(Tokens)
    OBVIOUS
  <2>4. (name \o <<tok>>) \o text = name \o (<<tok>> \o text)
    BY <2>3, ConcatAssociative
  <2>5. (n + 1) + Len(name) = n + (Len(name) + 1)
    BY LenProperties
  <2> QED
    BY <1>1, <2>2, <2>4, <2>5
<1> QED
  BY <1>1, <1>2 DEF Continued

LEMMA FirstToken ==
    ASSUME NEW text \in Seq(Tokens), NEW tok \in Tokens
    PROVE  SubSeq(<<tok>> \o text, 1, 1) = <<tok>>
<1> DEFINE long == <<tok>> \o text
<1>1. long \in Seq(Tokens) /\ Len(long) = Len(text) + 1 /\ long[1] = tok /\ Len(text) \in Nat
  BY TokenInFront, LenProperties
<1> HIDE DEF long
<1>2. \A i \in 1 .. 1 : long[i] \in Tokens
  BY <1>1
<1>3. /\ SubSeq(long, 1, 1) \in Seq(Tokens)
      /\ Len(SubSeq(long, 1, 1)) = IF 1 <= 1 THEN 1 - 1 + 1 ELSE 0
      /\ \A i \in 1 .. 1 - 1 + 1 : SubSeq(long, 1, 1)[i] = long[1 + i - 1]
  BY <1>2, SubSeqProperties
<1>4. 1 \in 1 .. 1 - 1 + 1 /\ 1 + 1 - 1 = 1 /\ 1 - 1 + 1 = 1
  OBVIOUS
<1>5. Len(SubSeq(long, 1, 1)) = 1 /\ SubSeq(long, 1, 1)[1] = tok
  BY <1>1, <1>3, <1>4
<1>6. <<tok>> \in Seq(Tokens) /\ Len(<<tok>>) = 1 /\ <<tok>>[1] = tok
  OBVIOUS
<1>7. \A i \in 1 .. Len(SubSeq(long, 1, 1)) : SubSeq(long, 1, 1)[i] = <<tok>>[i]
  BY <1>5, <1>6
<1>8. SubSeq(long, 1, 1) = <<tok>>
  BY <1>3, <1>5, <1>6, <1>7, SeqEqual
<1> QED
  BY <1>8 DEF long

\* One item is written as one token, punctuation or a complete algorithm.
LEMMA TokenWritten ==
    ASSUME NEW x \in Items, NEW rest \in Seq(Items), NEW tok \in Tokens,
           NEW n \in Nat, NEW text \in Seq(Tokens), Fits(rest, text, n),
           IF x \in Types THEN tok = Complete[x] ELSE tok = x
    PROVE  Fits(<<x>> \o rest, <<tok>> \o text, n + 1)
<1>1. PICK cut : FitsBy(cut, rest, text, n)
  BY DEF Fits
<1>2. <<>> \in Seq(Items) /\ Len(<<>>) = 0 /\ <<>> \o rest = rest /\ 0 + 1 = 1
  BY ConcatEmptySeq
<1>3. cut[Len(<<>>)] + 1 = 1
  BY <1>1, <1>2 DEF FitsBy
<1>4. IsPiece(x, <<tok>>, n + 1)
  <2>1. CASE x \in Types
    <3>1. <<tok>> \in Seq(Tokens) /\ tok = Complete[x]
      BY <2>1
    <3>2. <<tok>> \in NamesWithin[n + 1][x]
      BY <2>1, <3>1, NamesOfType
    <3> QED
      BY <2>1, <3>2 DEF IsPiece
  <2>2. CASE x \notin Types
    BY <2>2 DEF IsPiece
  <2> QED
    BY <2>1, <2>2
<1>5. IsPiece(x, SubSeq(<<tok>> \o text, 1, cut[Len(<<>>)] + 1), n + 1)
  BY <1>3, <1>4, FirstToken
<1>6. FitsBy(cut, <<>> \o rest, text, n)
  BY <1>1, <1>2
<1> QED
  BY <1>2, <1>5, <1>6, FitsTogether

\* One type is written as a template whose arguments are still to come.
LEMMA TemplateBegun ==
    ASSUME NEW x \in Types, NEW alg \in Templates[x], NEW rest \in Seq(Items),
           NEW n \in Nat, NEW text \in Seq(Tokens), Fits(Arguments(alg.args) \o rest, text, n)
    PROVE  Fits(<<x>> \o rest, <<alg.name>> \o text, n + 1)
<1>1. PICK cut : FitsBy(cut, Arguments(alg.args) \o rest, text, n)
  BY DEF Fits
<1>2. alg.args \in Seq(Types) /\ Len(alg.args) > 0 /\ alg.name \in Tokens
  BY TemplateArguments
<1>3. Arguments(alg.args) \in Seq(Items) /\ x \in Items
  BY <1>2, ArgumentItems DEF Items
<1>4. IsPiece(x, SubSeq(<<alg.name>> \o text, 1, cut[Len(Arguments(alg.args))] + 1), n + 1)
  BY <1>1, TemplateWritten DEF IsPiece
<1> QED
  BY <1>1, <1>2, <1>3, <1>4, FitsTogether

LEMMA TodoSplit ==
    ASSUME NEW todo \in Seq(Items), todo # <<>>
    PROVE  Head(todo) \in Items /\ Tail(todo) \in Seq(Items) /\ todo = <<Head(todo)>> \o Tail(todo)
<1> DEFINE x == Head(todo)
           rest == Tail(todo)
<1>1. /\ x \in Items /\ rest \in Seq(Items) /\ Len(rest) = Len(todo) - 1
      /\ \A i \in 1 .. Len(rest) : rest[i] = todo[i + 1]
  BY HeadTailProperties
<1>2. x = todo[1] /\ Len(todo) \in Nat /\ Len(rest) \in Nat
  BY <1>1
<1> HIDE DEF x, rest
<1>3. <<x>> \in Seq(Items) /\ Len(<<x>>) = 1 /\ <<x>>[1] = x
  BY <1>1
<1>4. /\ <<x>> \o rest \in Seq(Items) /\ Len(<<x>> \o rest) = 1 + Len(rest)
      /\ \A i \in 1 .. 1 + Len(rest) : (<<x>> \o rest)[i] = IF i <= 1 THEN <<x>>[i] ELSE rest[i - 1]
  BY <1>1, <1>3, ConcatProperties
<1>5. Len(todo) = Len(<<x>> \o rest)
  BY <1>1, <1>2, <1>4
<1>6. ASSUME NEW i \in 1 .. Len(todo) PROVE todo[i] = (<<x>> \o rest)[i]
  <2>1. CASE i = 1
    <3>1. 1 \in 1 .. 1 + Len(rest)
      BY <1>2
    <3> QED
      BY <1>2, <1>3, <1>4, <2>1, <3>1
  <2>2. CASE i # 1
    <3>1. i \in 1 .. 1 + Len(rest) /\ ~(i <= 1) /\ i - 1 \in 1 .. Len(rest) /\ (i - 1) + 1 = i
      BY <1>1, <1>2, <2>2
    <3> QED
      BY <1>1, <1>4, <3>1
  <2> QED
    BY <2>1, <2>2
<1>7. todo = <<x>> \o rest
  BY <1>4, <1>5, <1>6, SeqEqual
<1> QED
  BY <1>1, <1>7 DEF x, rest

LEMMA ItemExpanded ==
    ASSUME Unfinished(arg), arg.todo # <<>>, ExpandName, arg.kind \in DOMAIN NameTypes
    PROVE  Unfinished(arg') /\ arg'.kind = arg.kind
<1>0. PICK kind \in DOMAIN NameTypes :
          \E type \in NameTypes[kind], todo \in Seq(Items), name \in Seq(Tokens) :
              /\ arg = [kind |-> kind, type |-> type, todo |-> todo, name |-> name]
              /\ Continued(type, todo, name)
  BY DEF Unfinished
<1>1. PICK type \in NameTypes[kind], todo \in Seq(Items), name \in Seq(Tokens) :
          /\ arg = [kind |-> kind, type |-> type, todo |-> todo, name |-> name]
          /\ Continued(type, todo, name)
  BY <1>0
<1> DEFINE x == Head(todo)
           rest == Tail(todo)
           made(next, tok) ==
               [kind |-> kind, type |-> type, todo |-> next, name |-> Append(name, tok)]
<1>2. type \in Types /\ todo # <<>>
  BY <1>1, NameTypesAreTypes
<1>3. x \in Items /\ rest \in Seq(Items) /\ todo = <<x>> \o rest
  BY <1>2, TodoSplit
<1> HIDE DEF x, rest
<1>4. ASSUME NEW next \in Seq(Items), NEW tok \in Tokens,
             \A n \in Nat : \A text \in Seq(Tokens) :
                 Fits(next, text, n) => Fits(todo, <<tok>> \o text, n + 1)
      PROVE  Unfinished(made(next, tok)) /\ made(next, tok).kind = kind
  <2>1. Append(name, tok) \in Seq(Tokens) /\ Continued(type, next, Append(name, tok))
    BY <1>1, <1>2, <1>4, NameContinues
  <2> QED
    BY <2>1 DEF Unfinished
<1>5. CASE x \in Types
  <2>1. PICK alg \in generateAlg(x) :
            arg' = [arg EXCEPT !.name = Append(@, alg.name), !.todo = generateAlgImpl(@, alg)]
    BY <1>1, <1>5 DEF ExpandName, x
  <2>2. arg' = made(generateAlgImpl(todo, alg), alg.name)
    BY <1>1, <2>1
  <2>3. CASE alg \in Templates[x]
    <3>1. alg.args \in Seq(Types) /\ Len(alg.args) > 0 /\ alg.name \in Tokens
      BY <1>5, <2>3, TemplateArguments
    <3>2. alg.args # <<>>
      BY <3>1
    <3>3. generateAlgImpl(todo, alg) = Arguments(alg.args) \o rest
      BY <3>2 DEF generateAlgImpl, rest
    <3>4. Arguments(alg.args) \in Seq(Items)
      BY <3>1, ArgumentItems
    <3>5. Arguments(alg.args) \o rest \in Seq(Items)
      BY <1>3, <3>4, ConcatProperties
    <3>6. \A n \in Nat : \A text \in Seq(Tokens) :
              Fits(Arguments(alg.args) \o rest, text, n) => Fits(todo, <<alg.name>> \o text, n + 1)
      BY <1>3, <1>5, <2>3, TemplateBegun
    <3> HIDE DEF made
    <3>7. /\ Unfinished(made(Arguments(alg.args) \o rest, alg.name))
          /\ made(Arguments(alg.args) \o rest, alg.name).kind = kind
      BY <1>4, <3>1, <3>5, <3>6
    <3> QED
      BY <1>1, <2>2, <3>3, <3>7
  <2>4. CASE alg = algDesc(Complete[x], <<>>)
    <3>1. alg.args = <<>> /\ alg.name = Complete[x]
      BY <2>4 DEF algDesc
    <3>2. generateAlgImpl(todo, alg) = <<>> \o rest
      BY <3>1 DEF generateAlgImpl, rest
    <3>3. <<>> \o rest = rest
      BY <1>3, ConcatEmptySeq
    <3>4. alg.name \in Tokens
      BY <1>5, <3>1 DEF Tokens
    <3>5. \A n \in Nat : \A text \in Seq(Tokens) :
              Fits(rest, text, n) => Fits(todo, <<alg.name>> \o text, n + 1)
      BY <1>3, <1>5, <3>1, <3>4, TokenWritten
    <3> HIDE DEF made
    <3>6. Unfinished(made(rest, alg.name)) /\ made(rest, alg.name).kind = kind
      BY <1>3, <1>4, <3>4, <3>5
    <3> QED
      BY <1>1, <2>2, <3>2, <3>3, <3>6
  <2> QED
    BY <2>3, <2>4 DEF generateAlg
<1>6. CASE x \notin Types
  <2>1. arg' = [arg EXCEPT !.name = Append(@, Head(arg.todo)), !.todo = Tail(@)]
    BY <1>1, <1>6 DEF ExpandName, x
  <2>2. arg' = made(rest, x)
    BY <1>1, <2>1 DEF x, rest
  <2>3. x \in Tokens
    BY <1>3, <1>6 DEF Items
  <2>4. \A n \in Nat : \A text \in Seq(Tokens) :
            Fits(rest, text, n) => Fits(todo, <<x>> \o text, n + 1)
    BY <1>3, <1>6, <2>3, TokenWritten
  <2> HIDE DEF made
  <2>5. Unfinished(made(rest, x)) /\ made(rest, x).kind = kind
    BY <1>3, <1>4, <2>3, <2>4
  <2> QED
    BY <1>1, <2>2, <2>5
<1> QED
  BY <1>5, <1>6

LEMMA NotAName ==
    /\ \A c : IsCall(c) => c.kind \notin DOMAIN NameTypes
    /\ \A kind \in UsbTypes \cup TimeTypes \cup TableKinds \cup {"ebt_replace"} :
           kind \notin DOMAIN NameTypes
<1>1. \A c : IsCall(c) => c.kind \notin DOMAIN NameTypes
  BY DEF IsCall, NameTypes
<1> QED
  BY <1>1 DEF NameTypes, UsbTypes, TimeTypes, TableKinds

LEMMA NameInductive ==
    ASSUME TargetInv, SpecialInv, NameInv, [Next]_vars
    PROVE  NameInv'
<1>0. arg'.kind \notin DOMAIN NameTypes => NameInv'
  BY DEF NameInv
<1>1. ASSUME NEW arch \in Arches, InitTarget(arch) PROVE NameInv'
  BY <1>1 DEF InitTarget, NameInv
<1>2. CASE GenerateCall
  <2>1. IsCall(arg')
    BY <1>2, RawCallsAssumption DEF GenerateCall
  <2> QED
    BY <1>0, <2>1, NotAName
<1>3. CASE GenerateSpecialArg \/ MutateArg
  <2>1. arg' \in Raws
    BY <1>3 DEF GenerateSpecialArg, MutateArg
  <2> QED
    BY <1>0, <2>1, RawKinds
<1>4. CASE FixTable
  <2>1. arg'.kind \in TableKinds
    BY <1>4 DEF FixTable, generateNetfilterTable, TableKinds
  <2> QED
    BY <1>0, <2>1, NotAName
<1>5. CASE FixEbtables
  <2>1. arg'.kind = "ebt_replace"
    BY <1>5, EbtablesBuilt DEF FixEbtables, IsEbtables
  <2> QED
    BY <1>0, <2>1, NotAName
<1>6. CASE FixUsb
  <2>1. \A record, n : \A d \in Descriptors(record, n) : d.kind = "usb_device_descriptor"
    BY DEF Descriptors
  <2>2. arg'.kind = "usb_device_descriptor"
    BY <1>6, <2>1 DEF FixUsb, generateUsbDeviceDescriptor
  <2> QED
    BY <1>0, <2>2, NotAName DEF UsbTypes
<1>7. CASE FixHid
  <2>1. arg'.kind = "usb_device_descriptor_hid"
    BY <1>7 DEF FixHid, generateUsbHidDeviceDescriptor
  <2> QED
    BY <1>0, <2>1, NotAName DEF UsbTypes
<1>8. ASSUME NEW kind \in TimeTypes, GenerateTime(kind) PROVE NameInv'
  <2>1. arg'.kind = kind
    BY <1>8, TimesOfKind DEF GenerateTime
  <2> QED
    BY <1>0, <2>1, NotAName
<1>9. ASSUME NEW kind \in DOMAIN NameTypes, StartName(kind) PROVE NameInv'
  <2>1. PICK type \in NameTypes[kind] :
            arg' = [kind |-> kind, type |-> type, todo |-> <<type>>, name |-> <<>>]
    BY <1>9 DEF StartName
  <2>2. type \in Types
    BY NameTypesAreTypes
  <2>3. Continued(type, <<type>>, <<>>)
    BY <2>2, NothingWritten
  <2>4. <<type>> \in Seq(Items) /\ <<>> \in Seq(Tokens)
    BY <2>2 DEF Items
  <2>5. Unfinished(arg') /\ stage' = "raw"
    BY <1>9, <2>1, <2>3, <2>4 DEF Unfinished, StartName
  <2> QED
    BY <2>5 DEF NameInv
<1>10. CASE ExpandName
  <2>1. Unfinished(arg) /\ arg.kind \in DOMAIN NameTypes /\ stage' = "raw" /\ arg.todo # <<>>
    BY <1>10 DEF ExpandName, Naming, NameInv
  <2>2. Unfinished(arg')
    BY <1>10, <2>1, ItemExpanded
  <2> QED
    BY <2>1, <2>2 DEF NameInv
<1>11. CASE FinishName
  <2>1. Unfinished(arg) /\ arg.todo = <<>> /\ stage' = "built"
    BY <1>11 DEF FinishName, Naming, NameInv
  <2>7. PICK kind \in DOMAIN NameTypes :
            \E type \in NameTypes[kind], todo \in Seq(Items), name \in Seq(Tokens) :
                /\ arg = [kind |-> kind, type |-> type, todo |-> todo, name |-> name]
                /\ Continued(type, todo, name)
    BY <2>1 DEF Unfinished
  <2>2. PICK type \in NameTypes[kind], todo \in Seq(Items), name \in Seq(Tokens) :
            /\ arg = [kind |-> kind, type |-> type, todo |-> todo, name |-> name]
            /\ Continued(type, todo, name)
    BY <2>7
  <2>3. IsName(type, name)
    BY <2>1, <2>2, AllWritten, NameTypesAreTypes
  <2>4. arg' = [kind |-> kind, type |-> type, name |-> name,
                field |-> fixedSizeData(name, NameSize)]
    BY <1>11, <2>2 DEF FinishName
  <2>5. /\ Len(fixedSizeData(name, NameSize)) = NameSize
        /\ \A i \in 1 .. NameSize :
               fixedSizeData(name, NameSize)[i] = IF i <= Len(name) THEN name[i] ELSE "NUL"
    BY TargetAssumption DEF fixedSizeData
  <2>6. Finished(arg')
    BY <2>3, <2>4, <2>5 DEF Finished
  <2> QED
    BY <2>1, <2>6 DEF NameInv
<1>12. CASE Neutralized
  <2>1. arg'.kind = arg.kind /\ stage = "built" /\ stage' = "neutral"
    BY <1>12, BuildableNeutral DEF Neutralized, TargetInv, NeutralArg
  <2>2. arg.kind \in DOMAIN NameTypes => arg' = arg
    BY <1>12 DEF Neutralized, neutralize, neutralizeCall, NameTypes
  <2> QED
    BY <2>1, <2>2 DEF NameInv, Finished
<1>13. CASE NeutralizeFails
  BY <1>13 DEF NeutralizeFails, NameInv
<1>14. CASE NextArgument
  BY <1>14 DEF NextArgument, NameInv
<1>15. CASE UNCHANGED vars
  BY <1>15 DEF vars, NameInv
<1> QED
  BY <1>1, <1>2, <1>3, <1>4, <1>5, <1>6, <1>7, <1>8, <1>9, <1>10, <1>11, <1>12, <1>13, <1>14,
     <1>15 DEF Next

(* However deep templates nest and whatever tables the types are drawn from, a name *)
(* that is finished parses as a name of the type asked for, and its field holds it  *)
(* from the start, cut or followed by zeros (init_alg.go:22-103).                   *)
THEOREM NamesInGrammar == Spec => []NameWellFormed
<1>1. Init => NameInv
  BY DEF Init, NameInv
<1>2. TargetInv /\ SpecialInv /\ NameInv /\ [Next]_vars => NameInv'
  BY NameInductive
<1>3. NameInv => NameWellFormed
  BY DEF NameInv, NameWellFormed, Finished
<1> QED
  BY <1>1, <1>2, <1>3, TargetAndSpecial, PTL DEF Spec
=============================================================================

----------------------------- MODULE LinuxTarget -----------------------------
(* The Linux target that the fuzzer is built with (InitTarget of               *)
(* sys-linux-specifications/init.go): one call or one special argument at a    *)
(* time is generated or mutated by the prog library, fixed up by the function  *)
(* registered for its type, and neutralized before it is executed.             *)
EXTENDS Neutralize, AlgNames, NetfilterTables, UsbDescriptors

CONSTANTS
    Arches,         \* the architectures a target may be asked for
    RawCalls,       \* calls as they come from the generator or from a seed
    MaxTemplates,   \* the templates of a name are cut at this number
    NameSize        \* tokens of a name that fit into its field

ASSUME TargetAssumption == MaxTemplates \in Nat /\ NameSize \in Nat
ASSUME RawCallsAssumption == \A call \in RawCalls : IsCall(call)

VARIABLES
    target,     \* the target: "none", an architecture, or "panic"
    stage,      \* how far the argument is: idle, raw, built, neutral or rejected
    arg         \* the call or the special argument in hand

vars == <<target, stage, arg>>

Nothing == [kind |-> "nothing"]
Supported == {"amd64", "riscv64", "386", "arm64", "arm", "ppc64le", "mips64le", "s390x"}

(* target.SpecialTypes: the types with a function of their own.                *)
TimeTypes == {"timespec", "timeval"}
NameTypes ==
    [sockaddr_alg |-> allTypes, alg_name |-> allTypes, alg_aead_name |-> {"aead"},
     alg_hash_name |-> {"hash"}, alg_skcipher_name |-> {"skcipher"}]
UsbTypes == {"usb_device_descriptor", "usb_device_descriptor_hid"}
Tables == DOMAIN UsedHooks      \* ipt_replace, ip6t_replace and arpt_replace
Ebtables == DOMAIN ValidHooks   \* ebt_replace

Raws ==
    (UNION {RawTables(t) : t \in Tables}) \cup (UNION {RawEbtables(t) : t \in Ebtables})
    \cup (UNION {RawDescriptors(k) : k \in UsbTypes})

(* generateTimespec: now or the past, a few milliseconds after now, the far     *)
(* future, or a few milliseconds after what a clock_gettime call put before     *)
(* returns. The time is sec and (nsec of the clock, or 0) div + add.           *)
Div(kind) == IF kind = "timeval" THEN 1000 ELSE 1     \* nanoseconds in a unit
Timeouts == {10, 60}
Nanos == 1000000            \* in a millisecond
FarFuture == 2000000000
Time(kind, sec, add, clock) ==
    [kind |-> kind, sec |-> sec, add |-> add, clock |-> clock,
     div |-> IF clock THEN Div(kind) ELSE 1]
\* A mutant: what is added is nanoseconds in a timeval as well.
MicrosForgotten(kind) == {Time(kind, 0, t * Nanos, FALSE) : t \in Timeouts}
generateTimespec(kind) ==
    {Time(kind, 0, 0, FALSE), Time(kind, FarFuture, 0, FALSE)} \cup
    {Time(kind, 0, (t * Nanos) \div Div(kind), FALSE) : t \in Timeouts} \cup
    {Time(kind, 0, t * (IF kind = "timeval" THEN 1000 ELSE Nanos), TRUE) : t \in Timeouts}

Init ==
    /\ target = "none"
    /\ stage = "idle"
    /\ arg = Nothing

InitTarget(arch) ==
    /\ target = "none"
    /\ target' = IF arch \in Supported THEN arch ELSE "panic"
    /\ UNCHANGED <<stage, arg>>

Ready == target \in Supported

(* The prog library makes a call, or a special argument for its function.      *)
GenerateCall ==
    /\ Ready /\ stage = "idle"
    /\ stage' = "built"
    /\ arg' \in RawCalls
    /\ UNCHANGED target

GenerateSpecialArg ==
    /\ Ready /\ stage = "idle"
    /\ stage' = "raw"
    /\ arg' \in Raws
    /\ UNCHANGED target

MutateArg ==
    /\ stage \in {"built", "neutral"}
    /\ stage' = "raw"
    /\ arg' \in {raw \in Raws : raw.kind = arg.kind}
    /\ UNCHANGED target

(* The function of the special type fixes the argument up.                     *)
FixTable ==
    /\ stage = "raw" /\ arg.kind \in {"ipt_replace", "arpt_replace"}
    /\ stage' = "built"
    /\ arg' \in generateNetfilterTable(arg)
    /\ UNCHANGED target

FixEbtables ==
    /\ stage = "raw" /\ arg.kind = "ebt_replace"
    /\ stage' = "built"
    /\ arg' = generateEbtables(arg)
    /\ UNCHANGED target

FixUsb ==
    /\ stage = "raw" /\ arg.kind = "usb_device_descriptor"
    /\ stage' = "built"
    /\ arg' \in generateUsbDeviceDescriptor(arg)
    /\ UNCHANGED target

FixHid ==
    /\ stage = "raw" /\ arg.kind = "usb_device_descriptor_hid"
    /\ stage' = "built"
    /\ arg' \in generateUsbHidDeviceDescriptor(arg)
    /\ UNCHANGED target

(* These functions build the argument anew, whatever it was.                   *)
Renewable(kind) == \/ stage = "idle"
                   \/ stage \in {"built", "neutral"} /\ arg.kind = kind
GenerateTime(kind) ==
    /\ Ready
    /\ Renewable(kind)
    /\ stage' = "built"
    /\ arg' \in generateTimespec(kind)
    /\ UNCHANGED target

StartName(kind) ==
    /\ Ready
    /\ Renewable(kind)
    /\ stage' = "raw"
    /\ \E type \in NameTypes[kind] :
           arg' = [kind |-> kind, type |-> type, todo |-> <<type>>, name |-> <<>>]
    /\ UNCHANGED target

Naming == stage = "raw" /\ arg.kind \in DOMAIN NameTypes
TemplatesIn(name) == Cardinality({i \in DOMAIN name : name[i] = "("})

ExpandName ==
    /\ Naming /\ arg.todo # <<>>
    /\ IF Head(arg.todo) \in Types
       THEN \E alg \in generateAlg(Head(arg.todo)) :
                /\ alg.args # <<>> => TemplatesIn(arg.name \o arg.todo) < MaxTemplates
                /\ arg' = [arg EXCEPT !.name = Append(@, alg.name),
                                      !.todo = generateAlgImpl(@, alg)]
       ELSE arg' = [arg EXCEPT !.name = Append(@, Head(arg.todo)), !.todo = Tail(@)]
    /\ UNCHANGED <<target, stage>>

FinishName ==
    /\ Naming /\ arg.todo = <<>>
    /\ stage' = "built"
    /\ arg' = [kind |-> arg.kind, type |-> arg.type, name |-> arg.name,
               field |-> fixedSizeData(arg.name, NameSize)]
    /\ UNCHANGED target

(* target.Neutralize on the call of the argument; the part common to the Unix   *)
(* targets, outside this code, may reject the call first.                      *)
neutralize(a) == IF a.kind = "ebt_replace" THEN neutralizeEbtables(a) ELSE neutralizeCall(a)
Neutralized ==
    /\ stage = "built"
    /\ stage' = "neutral"
    /\ arg' = neutralize(arg)
    /\ UNCHANGED target

NeutralizeFails ==
    /\ stage = "built"
    /\ stage' = "rejected"
    /\ UNCHANGED <<target, arg>>

NextArgument ==
    /\ stage \in {"neutral", "rejected"}
    /\ stage' = "idle"
    /\ arg' = Nothing
    /\ UNCHANGED target

Next ==
    \/ \E arch \in Arches : InitTarget(arch)
    \/ GenerateCall \/ GenerateSpecialArg \/ MutateArg
    \/ FixTable \/ FixEbtables \/ FixUsb \/ FixHid
    \/ \E kind \in TimeTypes : GenerateTime(kind)
    \/ \E kind \in DOMAIN NameTypes : StartName(kind)
    \/ ExpandName \/ FinishName
    \/ Neutralized \/ NeutralizeFails \/ NextArgument

Spec == Init /\ [][Next]_vars
-----------------------------------------------------------------------------
(* What the kernel reads of a call that is executed does no harm: the commands  *)
(* the neutralizer exists for never reach it, whatever bits a seed sets above    *)
(* the low half of an argument. A real-time policy is the exception: the code    *)
(* looks for it in a struct with no bit above and in the first piece of a        *)
(* squashed one that goes in, and it reaches the kernel from anywhere else.      *)
HarmlessCall(a) ==
    /\ a.kind = "mremap" => ("MREMAP_MAYMOVE" \in a.flags => "MREMAP_FIXED" \in a.flags)
    /\ a.kind = "syslog" => a.cmd.lo \in {"SIZE_UNREAD", "Other"}
    /\ a.kind = "ioctl" => a.cmd.lo \in {"FITHAW", "EXT4_IOC_MIGRATE", "TIOCGSERIAL", "Other"}
    /\ a.kind = "fanotify_mark" => a.mask \cap PermissionEvents = {}
    /\ a.kind = "ptrace" => a.req.lo # "PTRACE_TRACEME"
    /\ a.kind = "arch_prctl" => a.cmd.lo # "ARCH_SET_FS"
    /\ a.kind = "init_module" => a.size < ModuleLimit
    /\ a.kind = "syz_init_net_socket" =>
           /\ a.family.lo # "Other"
           /\ a.family.lo = "AF_NETLINK" => <<a.type, a.proto>> = <<"SOCK_RAW", "NETLINK_GENERIC">>
    /\ a.kind = "sched_setattr" =>
           \/ a.attr = "null"
           \/ a.policy.lo \notin {"SCHED_FIFO", "SCHED_RR"}
           \/ a.attr = "struct" /\ a.policy.hi = 1
           \/ a.attr = "squashed" /\ (a.head # "data" \/ a.dir = "out" \/ ~a.inHead)
ExecutedHarmless == stage = "neutral" => HarmlessCall(arg)

(* A program is neutralized when it is generated, after every mutation and when  *)
(* it is read back: doing it again must change nothing, or a saved program       *)
(* would not be the one that was executed.                                      *)
NeutralFixpoint == stage = "neutral" => neutralize(arg) = arg

(* A descriptor presents the device its driver asks for: the device and its     *)
(* first interface agree with the drawn record on everything the record matches, *)
(* the revision with the ends of its range, however often it was mutated.        *)
FitsDevice(record, d) ==
    /\ \A f \in DeviceFields : FlagOf[f] \in record.flags => d[f] = record[f]
    /\ "DEV_LO" \in record.flags => record.bcdLo <= d.bcdDevice
    /\ "DEV_HI" \in record.flags => d.bcdDevice <= record.bcdHi
FitsInterface(record, i) ==
    \A f \in InterfaceFields : FlagOf[f] \in record.flags => i[f] = record[f]
UsbProbed ==
    stage \in {"built", "neutral"} /\ arg.kind = "usb_device_descriptor" /\ ~arg.squashed =>
        FitsDevice(arg.id, arg.device) /\ FitsInterface(arg.id, arg.interfaces[1])

(* After any mutation of the entries every offset of a netfilter table is where  *)
(* the kernel, walking the entries by their sizes, finds one: hooks and jumps at *)
(* an entry or the underflow, underflows at the last, jumps else verdicts.       *)
EntryStart(sizes) ==
    LET walk[i \in 0 .. Len(sizes)] == IF i = 0 THEN 0 ELSE walk[i - 1] + sizes[i] IN walk
TableWalkable ==
    stage \in {"built", "neutral"} /\ arg.kind \in {"ipt_replace", "arpt_replace"} =>
        LET walk == EntryStart(arg.sizes)
            starts == {walk[i] : i \in DOMAIN walk}
        IN  /\ \A k \in Hooks(arg.table) :
                  IF k \in UsedHooks[arg.table]
                  THEN arg.hooks[k] \in starts /\ arg.underflows[k] = walk[Len(arg.sizes)]
                  ELSE arg.hooks[k] = Unused /\ arg.underflows[k] = Unused
            /\ \A i \in DOMAIN arg.jumps : arg.jumps[i] \in starts \cup Verdicts \cup {NoJump}

(* The chains of an ebtable share out its counters without gap or overlap, every *)
(* valid hook has the start of a chain of its own, and setsockopt is told the     *)
(* size of the table with its entries.                                          *)
Ranges(a) == [i \in DOMAIN a.chains |-> {a.counters[i] + n : n \in 0 .. a.chains[i] - 1}]
EbtablesConsistent ==
    stage \in {"built", "neutral"} /\ arg.kind = "ebt_replace" /\ arg.pointer = "chains" =>
        LET walk == EntryStart([i \in DOMAIN arg.chains |-> ChainSize(arg.chains[i])])
            valid == ValidHooks[arg.table]
        IN  /\ UNION {Ranges(arg)[i] : i \in DOMAIN arg.chains} = 0 .. arg.nentries - 1
            /\ \A i, j \in DOMAIN arg.chains :
                  i # j => Ranges(arg)[i] \cap Ranges(arg)[j] = {}
            /\ \A h \in EbtHooks \ valid : arg.hooks[h] = 0
            /\ \A h \in valid : \E i \in 1 .. Len(arg.chains) :
                  arg.hooks[h] = EntriesBase + walk[i - 1]
            /\ \A h, g \in valid : arg.hooks[h] = arg.hooks[g] => h = g
            /\ stage = "neutral" => arg.len = TableSize + walk[Len(arg.chains)]

(* A generated time is now, far away, or 10 or 60 ms after the clock's time in    *)
(* the unit of its own type, whether it counts micro- or nanoseconds.            *)
ClockMs == {0, 7, 999}
TimeAhead ==
    arg.kind \in TimeTypes =>
        \/ arg.sec = FarFuture /\ arg.add = 0
        \/ /\ arg.sec = 0
           /\ \A now \in IF arg.clock THEN ClockMs ELSE {0} :
                  (now * Nanos) \div arg.div + arg.add
                      \in {((now + ahead) * Nanos) \div Div(arg.kind) :
                               ahead \in Timeouts \cup {0}}

(* The names of each type in which templates nest less than n deep.  A template  *)
(* is followed by its arguments in parentheses with commas between them, each a   *)
(* name of its type: where a name is to be cut is told by the name itself.       *)
IsInstance(alg, name, names) ==
    LET marks == {i \in DOMAIN name : name[i] \in {"(", ",", ")"}}
        k == Len(alg.args)
    IN  /\ name # <<>> /\ name[1] = alg.name
        /\ \E cut \in [0 .. k -> marks] :
              /\ cut[0] = 2 /\ name[cut[0]] = "("
              /\ cut[k] = Len(name) /\ name[cut[k]] = ")"
              /\ \A i \in 1 .. k - 1 : name[cut[i]] = ","
              /\ \A i \in 1 .. k :
                    SubSeq(name, cut[i - 1] + 1, cut[i] - 1) \in names[alg.args[i]]
Tokens == {"(", ",", ")"} \cup {Complete[t] : t \in Types}
              \cup {alg.name : alg \in UNION {Templates[t] : t \in Types}}
NamesOver(names) ==
    [t \in Types |-> {name \in Seq(Tokens) :
        name = <<Complete[t]>> \/ \E alg \in Templates[t] : IsInstance(alg, name, names)}]
NamesWithin[n \in Nat] ==
    IF n = 0 THEN [t \in Types |-> {}] ELSE NamesOver(NamesWithin[n - 1])
\* A name nests less deep than it is long.
IsName(type, name) == name \in NamesWithin[Len(name)][type]

(* A finished name is a name of the type that was asked for, nested templates      *)
(* included, and its field holds it from the start, cut or followed by zeros.      *)
NameWellFormed ==
    stage \in {"built", "neutral"} /\ arg.kind \in DOMAIN NameTypes =>
        /\ arg.type \in NameTypes[arg.kind] /\ IsName(arg.type, arg.name)
        /\ Len(arg.field) = NameSize
        /\ \A i \in 1 .. NameSize :
               arg.field[i] = IF i <= Len(arg.name) THEN arg.name[i] ELSE "NUL"
=============================================================================

------------------------------- MODULE Probe --------------------------------
(***************************************************************************)
(* The detection of graphics cards when an agent starts                    *)
(* (internal/agent/utils/gpu.go): on each operating system a list of tools *)
(* is run one after the other, each may be missing, and their output is    *)
(* read line by line.  A name is the set of the keywords it contains, and  *)
(* a line names the card it is about.                                      *)
(***************************************************************************)
EXTENDS Naturals, Sequences, FiniteSets

CONSTANTS
    Cards,     \* the graphics cards there are
    Hosts,     \* the hosts an agent may start on
    Specs,     \* the entries of gpu_specs.json
    Similar,   \* <<name, key>>: equal up to marks and case, or the one
               \* contains the other and the key is longer than 5
    Generic,   \* the keys tried for an AMD chip no key resembles, in order
    AppleGPU,  \* the name given to the chip of an Apple processor
    None

Vendors == {"nvidia", "amd", "intel", "apple", "unknown", "printed", None}

Devices == [card : Nat, name : {c.name : c \in Cards} \cup {AppleGPU, None},
            words : {c.words : c \in Cards} \cup {{}}, type : {"gpu", "igpu"}, vendor : Vendors,
            mem : Nat, units : Nat, tops : Nat, said : Nat]

Places == [card : Nat, pos : Nat]  \* of lines: the card they are about, and which one it is

(* What is taken for granted of the tools: rocm-smi names each card, the   *)
(* display section of macOS has one chipset, and NVIDIA's name is on no    *)
(* other vendor's card.                                                    *)
ASSUME ProbeConstants ==
    /\ None \notin Specs \cup Devices \cup Places /\ AppleGPU # None
    /\ \A e \in Specs : e.units \in Nat /\ e.tops \in Nat /\ e.mem \in Nat
    /\ \A c \in Cards : c.name # None /\ c.mem \in Nat /\ ("nvidia" \in c.words => c.vendor = "nvidia")
    /\ \A h \in Hosts :
          /\ h.cards \in Seq(Cards) /\ h.rocm \in Seq(STRING) /\ h.section \in Seq(STRING)
          /\ h.os \in {"linux", "windows"} => \E i \in DOMAIN h.rocm : h.rocm[i] \in {"series", "model"}
          /\ \A i, j \in DOMAIN h.section : h.section[i] = "chipset" /\ h.section[j] = "chipset" => i = j

VARIABLES
    host,    \* operating system, working tools, cards (see Tools, Output)
    stage,   \* the tool to be run or being read
    lines,   \* the lines of its output still to be read; NotRun before it is run
    current, \* rocm-smi, system_profiler: the device being put together
    inDisplaySection,
    gpus,    \* the devices found so far
    done

probeVars == <<host, stage, lines, current, inDisplaySection, gpus, done>>

Tools == CASE host.os = "linux" -> <<"nvidia-smi", "rocm-smi", "lspci">>
           [] host.os = "windows" -> <<"nvidia-smi", "rocm-smi", "powershell">>
           [] host.os = "darwin" -> <<"system_profiler">>
           [] OTHER -> <<>>

Tool == Tools[stage]

(* What a tool prints about a card: a vendor's tool lists the vendor's     *)
(* cards, the others list every card.  Of lspci's other devices, of lines  *)
(* that are short or empty and of numbers in the place of names one stands *)
(* for all.                                                                *)
Kinds(h, t, k) ==
    CASE t = "nvidia-smi" -> IF h.cards[k].vendor = "nvidia" THEN <<"csv">> ELSE <<>>
      [] t = "rocm-smi" -> IF h.cards[k].vendor = "amd" THEN h.rocm ELSE <<>>
      [] t = "system_profiler" -> h.section
      [] OTHER -> <<"junk", "controller">>

(* The lines it prints, card by card. *)
Output(h, t) == UNION {[card : {k}, pos : DOMAIN Kinds(h, t, k)] : k \in DOMAIN h.cards}

NotRun == {None}

Before(l, m) == l.card < m.card \/ (l.card = m.card /\ l.pos < m.pos)
Line == IF lines = NotRun THEN {} ELSE {l \in lines : \A m \in lines : ~Before(m, l)}
Kind(l) == Kinds(host, Tool, l.card)[l.pos]

ProbeInit ==
    /\ host \in Hosts
    /\ stage = 1 /\ lines = NotRun /\ current = None /\ inDisplaySection = FALSE
    /\ gpus = <<>> /\ done = FALSE

-----------------------------------------------------------------------------
(* Names and the table of specifications.                                  *)

detectVendorFromName(words) ==
    IF words \cap {"nvidia", "geforce", "quadro", "tesla", "rtx", "gtx"} # {} THEN "nvidia"
    ELSE IF words \cap {"amd", "radeon", "firepro", "rx"} # {} THEN "amd"
    ELSE IF words \cap {"intel", "iris", "uhd", "hd_graphics"} # {} THEN "intel"
    ELSE IF "apple" \in words THEN "apple" ELSE "unknown"

isIntegratedGPU(words) ==
    words \cap {"intel", "iris", "uhd", "hd_graphics", "radeon_graphics", "vega", "integrated",
                "apple", "m1", "m2", "m3", "m4", "ryzen"} # {}

(* The table; without its file there are no entries. *)
loadGPUSpecs == IF host.specs THEN Specs ELSE {}

(* The entries lookupGPUSpec may return: the one with that very name, else *)
(* whichever of the similar ones the iteration over the map meets first,   *)
(* else a generic one for integrated AMD graphics.                         *)
lookupGPUSpec(table, vendor, name, words) ==
    LET entries == {e \in table : e.vendor = vendor}
        exact == {e \in entries : e.key = name}
        similar == {e \in entries : <<name, e.key>> \in Similar}
        generic == SelectSeq(Generic, LAMBDA k : \E e \in entries : e.key = k)
    IN  IF exact # {} THEN exact
        ELSE IF similar # {} THEN similar
        ELSE IF vendor = "amd" /\ {"radeon", "graphics"} \subseteq words /\ "rx" \notin words /\ generic # <<>>
        THEN {e \in entries : e.key = generic[1]} ELSE {None}

(* Mutation: the table's memory replaces what the tool says. *)
FillAnyway(d, e) ==
    IF e = None THEN d
    ELSE [d EXCEPT !.units = IF @ = 0 THEN e.units ELSE @, !.tops = IF @ = 0 THEN e.tops ELSE @,
                   !.mem = IF e.mem > 0 THEN e.mem ELSE @]

Fill(d, e) ==
    IF e = None THEN d
    ELSE [d EXCEPT !.units = IF @ = 0 THEN e.units ELSE @, !.tops = IF @ = 0 THEN e.tops ELSE @,
                   !.mem = IF @ < 100 /\ e.mem > 0 THEN e.mem ELSE @]

enhanceGPUWithSpecs(d) == {Fill(d, e) : e \in lookupGPUSpec(loadGPUSpecs, d.vendor, d.name, d.words)}

Device(k, type, vendor, mem) ==
    [card |-> k, name |-> host.cards[k].name, words |-> host.cards[k].words,
     type |-> type, vendor |-> vendor, mem |-> mem, units |-> 0, tops |-> 0,
     said |-> mem]  \* history: the memory the tool told

-----------------------------------------------------------------------------
(* Reading the tools.                                                      *)

(* Mutation: a tool that is missing ends the detection. *)
RunOrGiveUp ==
    /\ ~done /\ stage <= Len(Tools) /\ lines = NotRun
    /\ IF Tool \in host.tools
       THEN lines' = Output(host, Tool) /\ UNCHANGED stage
       ELSE stage' = Len(Tools) + 1 /\ UNCHANGED lines
    /\ UNCHANGED <<host, current, inDisplaySection, gpus, done>>

(* A tool that is missing or fails is left out. *)
RunTool ==
    /\ ~done /\ stage <= Len(Tools) /\ lines = NotRun
    /\ IF Tool \in host.tools
       THEN lines' = Output(host, Tool) /\ UNCHANGED stage
       ELSE stage' = stage + 1 /\ UNCHANGED lines
    /\ UNCHANGED <<host, current, inDisplaySection, gpus, done>>

Read(t, l) ==
    /\ l \in Line /\ Tool = t
    /\ lines' = lines \ {l} /\ UNCHANGED <<host, stage, done>>

Found(devices) == \E d \in devices : gpus' = Append(gpus, d)

(* nvidia-smi tells name and memory, the table the rest ... *)
detectNVIDIALinux(l) ==
    /\ host.os = "linux" /\ Read("nvidia-smi", l)
    /\ Found(enhanceGPUWithSpecs(Device(l.card, "gpu", "nvidia", host.cards[l.card].mem)))
    /\ UNCHANGED <<current, inDisplaySection>>

(* ... but not on Windows. *)
detectNVIDIAWindows(l) ==
    /\ host.os = "windows" /\ Read("nvidia-smi", l)
    /\ Found({Device(l.card, "gpu", "nvidia", host.cards[l.card].mem)})
    /\ UNCHANGED <<current, inDisplaySection>>

Flush(seq, d) == IF d = None THEN {seq} ELSE {Append(seq, e) : e \in enhanceGPUWithSpecs(d)}

(* "Card series:" and "Card model:" both begin a device, and complete the  *)
(* one before; memory is not read.                                         *)
RocmLine(l) ==
    /\ Read("rocm-smi", l)
    /\ IF Kind(l) \in {"series", "model"}
       THEN gpus' \in Flush(gpus, current) /\ current' = Device(l.card, "gpu", "amd", 0)
       ELSE UNCHANGED <<gpus, current>>
    /\ UNCHANGED inDisplaySection

detectAMDLinux(l) == host.os = "linux" /\ RocmLine(l)
detectAMDWindows(l) == host.os = "windows" /\ RocmLine(l)

(* A controller of the bus; lspci does not tell its memory. *)
Controller(k) ==
    LET words == host.cards[k].words
    IN  enhanceGPUWithSpecs(Device(k, IF isIntegratedGPU(words) THEN "igpu" ELSE "gpu",
            detectVendorFromName(words), IF Tool = "lspci" THEN 0 ELSE host.cards[k].mem))

(* Mutation: NVIDIA's cards are listed again. *)
SkippedAmdOnly(words) == words \cap {"amd", "radeon"} # {} /\ \E j \in DOMAIN gpus : gpus[j].vendor = "amd"

(* lspci's lines that are passed over: NVIDIA's, and AMD's once any device *)
(* of AMD is listed, by whichever tool.                                    *)
Skipped(words) ==
    \/ "nvidia" \in words
    \/ words \cap {"amd", "radeon"} # {} /\ \E j \in DOMAIN gpus : gpus[j].vendor = "amd"

detectOtherGPUsLinux(l) ==
    /\ Read("lspci", l)
    /\ IF Kind(l) = "junk" \/ Skipped(host.cards[l.card].words)
       THEN UNCHANGED gpus ELSE Found(Controller(l.card))
    /\ UNCHANGED <<current, inDisplaySection>>

(* On Windows only NVIDIA's are. *)
detectOtherGPUsWindows(l) ==
    /\ Read("powershell", l)
    /\ IF Kind(l) = "junk" \/ "nvidia" \in host.cards[l.card].words
       THEN UNCHANGED gpus ELSE Found(Controller(l.card))
    /\ UNCHANGED <<current, inDisplaySection>>

(* A line of a display section. *)
Property(d, kind, c) ==
    CASE kind = "vram" -> [d EXCEPT !.mem = c.mem, !.said = c.mem]
      [] kind = "vendor" -> [d EXCEPT !.vendor = IF @ = None THEN "printed" ELSE @]
      [] kind = "metal" /\ c.vendor = "apple" ->
            [d EXCEPT !.vendor = "apple", !.name = IF @ = None THEN AppleGPU ELSE @]
      [] OTHER -> d

(* "Chipset Model:" and "Device ID:" both begin a device; a device that    *)
(* another one follows is listed as it is.                                 *)
getGPUInfoDarwin(l) ==
    LET c == host.cards[l.card]
        begins == Kind(l) \in {"chipset", "device"}
    IN  /\ Read("system_profiler", l)
        /\ gpus' = IF begins /\ current # None THEN Append(gpus, current) ELSE gpus
        /\ inDisplaySection' = (begins \/ (inDisplaySection /\ Kind(l) # "blank"))
        /\ current' = CASE Kind(l) = "chipset" -> Device(l.card, "gpu", detectVendorFromName(c.words), 0)
                        [] Kind(l) = "device" -> [Device(l.card, "gpu", None, 0) EXCEPT !.name = None, !.words = {}]
                        [] OTHER -> IF inDisplaySection THEN Property(current, Kind(l), c) ELSE current

(* The output ends: the device being put together is listed; on macOS not  *)
(* if it has no name.                                                      *)
EndOfOutput ==
    /\ lines = {}
    /\ gpus' \in IF Tool = "system_profiler" /\ current # None /\ current.name = None
                 THEN {gpus} ELSE Flush(gpus, current)
    /\ current' = None /\ lines' = NotRun /\ stage' = stage + 1
    /\ UNCHANGED <<host, inDisplaySection, done>>

(* Nothing was found on a Mac with an Apple processor: it has a GPU. *)
AppleChip == host.os = "darwin" /\ gpus = <<>> /\ host.arm /\ "sysctl" \in host.tools

Finish ==
    /\ ~done /\ stage > Len(Tools)
    /\ IF AppleChip
       THEN \E e \in enhanceGPUWithSpecs([Device(1, "igpu", "apple", 0) EXCEPT !.name = AppleGPU, !.words = {}]) :
              gpus' = <<e>>
       ELSE UNCHANGED gpus
    /\ done' = TRUE
    /\ UNCHANGED <<host, stage, lines, current, inDisplaySection>>

ProbeNext ==
    \/ RunTool \/ EndOfOutput \/ Finish
    \/ \E l \in Line :
          \/ detectNVIDIALinux(l) \/ detectAMDLinux(l) \/ detectOtherGPUsLinux(l)
          \/ detectNVIDIAWindows(l) \/ detectAMDWindows(l) \/ detectOtherGPUsWindows(l)
          \/ getGPUInfoDarwin(l)

ProbeSpec == ProbeInit /\ [][ProbeNext]_probeVars

-----------------------------------------------------------------------------
(* Type invariant. *)
ProbeTypes ==
    /\ host \in Hosts /\ stage \in Nat \ {0}
    /\ gpus \in Seq(Devices) /\ current \in Devices \cup {None}
    /\ inDisplaySection \in BOOLEAN /\ done \in BOOLEAN
    /\ lines # NotRun => stage \in DOMAIN Tools /\ lines \subseteq Output(host, Tool)

HasDeviceIds == \E i \in DOMAIN host.section : host.section[i] = "device"

Reports(k) == {j \in DOMAIN gpus : gpus[j].card = k}

(* "Skip if already detected": no card is listed twice, unless it is AMD's *)
(* and rocm-smi says two lines about it or runs on Windows, where nothing  *)
(* compares, or its name does not say whose it is, or macOS prints its     *)
(* device id.                                                              *)
CardsOnce ==
    \A k \in DOMAIN host.cards :
        LET c == host.cards[k]
            rocm == c.vendor = "amd" /\ "rocm-smi" \in host.tools
        IN  \/ Cardinality(Reports(k)) <= 1
            \/ rocm /\ (host.os = "windows" \/ Len(host.rocm) > 1 \/ c.words \cap {"amd", "radeon"} = {})
            \/ c.vendor = "nvidia" /\ "nvidia-smi" \in host.tools /\ "nvidia" \notin c.words
            \/ host.os = "darwin" /\ HasDeviceIds

(* The tools that work and know the card. *)
Listing(k) == {t \in host.tools : (\E s \in DOMAIN Tools : Tools[s] = t) /\ \E l \in Output(host, t) : l.card = k}

(* A card some tool knows is listed, whatever other tools are missing and  *)
(* whatever other cards there are, but for three cases: an NVIDIA card     *)
(* without nvidia-smi; on Linux an AMD card that only lspci knows next to  *)
(* another one; and on macOS one without a chipset model.                  *)
CardsMissing ==
    done => \A k \in DOMAIN host.cards :
        LET words == host.cards[k].words
        IN  \/ Reports(k) # {}
            \/ Listing(k) = {}
            \/ "nvidia" \in words /\ "nvidia-smi" \notin host.tools
            \/ /\ host.os = "linux" /\ Listing(k) = {"lspci"} /\ words \cap {"amd", "radeon"} # {}
               /\ \E j \in DOMAIN gpus : gpus[j].vendor = "amd" /\ gpus[j].card # k
            \/ host.os = "darwin" /\ \A i \in DOMAIN host.section : host.section[i] # "chipset"

(* "Only fill in missing values (don't overwrite if already set)": what a  *)
(* device says is what its tool said, completed from a single entry of the *)
(* table (the one of its own name if there is one).  A card the table      *)
(* knows goes without only if nvidia-smi found it on Windows, or if on     *)
(* macOS another card or its own device id follows.                        *)
SpecsFit ==
    \A j \in DOMAIN gpus :
        LET d == gpus[j]
            known == lookupGPUSpec(loadGPUSpecs, d.vendor, d.name, d.words)
        IN  \/ /\ d.units = 0 /\ d.tops = 0 /\ d.mem = d.said
               /\ \/ known = {None}
                  \/ host.os = "windows" /\ d.vendor = "nvidia"
                  \/ host.os = "darwin" /\ (~done \/ j < Len(gpus) \/ HasDeviceIds)
            \/ \E e \in known \ {None} :
                  /\ d.units = e.units /\ d.tops = e.tops
                  /\ d.mem = IF d.said < 100 /\ e.mem > 0 THEN e.mem ELSE d.said
=============================================================================

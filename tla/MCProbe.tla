------------------------------ MODULE MCProbe -------------------------------
(* A small instance of the detection of graphics cards for TLC. *)
EXTENDS Probe, SequencesExt

CONSTANTS rtx, arc, rx, rxt, vega, radeonGraphics, old, m1, m1gpu, m1pro

Entry(vendor, key, units, mem) == [vendor |-> vendor, key |-> key, units |-> units, tops |-> units + 1, mem |-> mem]

(* Two entries for which "Apple M1" is good enough, an entry that gives no *)
(* memory, and the generic one.                                            *)
Table == {Entry("nvidia", rtx, 5, 24576), Entry("amd", rx, 6, 20480), Entry("amd", rxt, 7, 24576),
          Entry("amd", radeonGraphics, 1, 0), Entry("apple", m1gpu, 8, 0), Entry("apple", m1pro, 14, 0)}
Resembles == {<<m1, m1gpu>>, <<m1, m1pro>>, <<rxt, rx>>, <<arc, arc>>}

GenericKeys == <<radeonGraphics>>

Card(name, vendor, words, mem) == [name |-> name, vendor |-> vendor, words |-> words, mem |-> mem]

(* A card whose name does not say NVIDIA or AMD, integrated ones, one that *)
(* is not in the table, and one that reports next to no memory.            *)
PCCards == {Card(rtx, "nvidia", {"nvidia", "geforce", "rtx"}, 24000), Card(old, "nvidia", {"geforce"}, 64),
            Card(rxt, "amd", {"amd", "radeon", "rx"}, 64), Card(old, "amd", {"firepro"}, 4096),
            Card(vega, "amd", {"amd", "radeon", "graphics", "vega"}, 512), Card(arc, "intel", {"intel"}, 0)}
MacCards == {Card(m1, "apple", {"apple", "m1"}, 0), Card(rxt, "amd", {"amd", "radeon", "rx"}, 8192),
             Card(arc, "intel", {"intel"}, 1536)}
SomeCards == PCCards \cup MacCards

Host(os, tools, cards, rocm, section, arm, specs) ==
    [os |-> os, tools |-> tools, cards |-> cards, rocm |-> rocm, section |-> section, arm |-> arm, specs |-> specs]

PCs == {Host(os, tools, cards, rocm, <<>>, FALSE, specs) :
            os \in {"linux", "windows"}, tools \in SUBSET {"nvidia-smi", "rocm-smi", "lspci", "powershell"},
            cards \in BoundedSeq(PCCards, 2), rocm \in {<<"series", "vram">>, <<"series", "model", "vram">>},
            specs \in BOOLEAN}
Macs == {Host("darwin", tools, cards, <<>>, section, arm, specs) :
            tools \in SUBSET {"system_profiler", "sysctl"}, cards \in {s \in BoundedSeq(MacCards, 2) : s # <<>>},
            section \in {<<"chipset", "vram", "vendor", "metal", "blank">>,
                         <<"chipset", "vram", "vendor", "device", "metal", "blank">>,
                         <<"device", "vendor", "metal", "vram", "blank", "vram">>},
            arm \in BOOLEAN, specs \in BOOLEAN}

(* On Linux also three cards. *)
SomeHosts == PCs \cup Macs \cup {Host("freebsd", {}, <<>>, <<>>, <<>>, FALSE, TRUE)}
    \cup {Host("linux", tools, cards, <<"series">>, <<>>, FALSE, TRUE) :
            tools \in SUBSET {"nvidia-smi", "rocm-smi", "lspci"}, cards \in [1..3 -> PCCards]}
=============================================================================

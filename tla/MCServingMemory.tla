-------------------------- MODULE MCServingMemory --------------------------
(* A package of two layers, eight experts and slabs of two slots. *)
EXTENDS ServingMemory

SmallCost ==
    [embedding |-> 1, matrices |-> 3, auxiliary |-> 1, largest |-> 2, recurrent |-> 1, convolution |-> 1, token |-> 1, history |-> 1,
     slot |-> 6, projection |-> 2, table |-> 9,
     ready |-> 1, core |-> 1, allowance |-> 1, record |-> 20, group |-> 9,
     scratchRow |-> 2, dense |-> 1, scoreRow |-> 1, row |-> 1,
     readRows |-> 2, workers |-> 1, decodeCounts |-> 1, decodeHead |-> 2,
     demand |-> 1, positions |-> 1, schedule |-> 1, pairs |-> 1, embeddingRow |-> 1,
     pleRow |-> 1, head |-> 1, routes |-> 1]
SmallReserve == [os |-> 5, live |-> 3, metal |-> 1]

Host(free, wired) == [ram |-> 900, free |-> free, metal |-> 900, wired |-> wired]
Command(host, args) ==
    [host |-> host, args |-> <<<<"PACKAGE", 0>>>> \o args, env |-> "absolute", root |-> "ok"]
Ordinary(args) == Command(Host(539, 589), args)

(* Command lines that are refused before the package is read. *)
Wrong ==
    {<<<<"--port", 0>>>>, <<<<"--unknown", 0>>>>, <<<<"--thinking", "maybe">>>>,
     <<<<"--thinking", "on">>, <<"--thinking", "off">>>>, <<<<"PACKAGE", 0>>>>,
     <<<<"--expert-capacity", 4>>, <<"--max-memory-gb", 9>>>>, <<<<"--expert-capacity", 1>>>>,
     <<<<"--expert-capacity", 4>>, <<"--prompt-cache-gb", 1>>>>, <<<<"--max-context", 10>>>>,
     <<<<"--no-disk-cache", 0>>, <<"--disk-cache-mode", "full">>>>,
     <<<<"--expert-capacity", 4>>, <<"--disk-cache-gb", 9>>>>, <<<<"--disk-cache-dir", "">>>>,
     <<<<"--disk-cache-mode", "half">>>>, <<<<"--cache-routing", "on">>>>,
     <<<<"--disk-cache-gb", 1>>>>}

(* Free memory from too little to enough for full residency, and a wired   *)
(* or user limit that leaves more or less room to grow into; caches on and *)
(* off; more free memory than installed; fixed capacities; a cache root    *)
(* that is missing, not private or held by another process.                *)
SmallCommands ==
    {Command(Host(free, wired), <<<<"--prompt-cache-gb", retained>>>>) :
        free \in {439, 509, 539, 569}, wired \in {0, 529, 579, 589, 609},
        retained \in {0, 3}}
    \cup {Command(Host(free, 0), <<<<"--no-disk-cache", 0>>, <<"--max-context", context>>>>
                                   \o limit \o adaptive) :
            free \in {539, 669, 901}, context \in {2, 9},
            limit \in {<<>>, <<<<"--max-memory-gb", 519>>>>},
            adaptive \in {<<>>, <<<<"--no-adaptive-memory", 0>>>>}}
    \cup {Command(Host(free, 0), <<<<"--expert-capacity", slots>>>>) :
            free \in {439, 709}, slots \in {2, 5, 8}}
    \cup {[Ordinary(disk) EXCEPT !.root = root] :
            disk \in {<<<<"--max-context", 3>>, <<"--max-context", 9>>>>,
                      <<<<"--disk-cache-dir", "d">>, <<"--disk-cache-mode", "full">>>>},
            root \in {"unprepared", "unopened"}}
    \cup {[Ordinary(disk) EXCEPT !.env = env] :
            disk \in {<<<<"--port", 1>>, <<"--cache-routing", "off">>>>,
                      <<<<"--disk-cache-gb", 5>>>>},
            env \in {"none", "relative"}}
    \cup {Ordinary(args) : args \in Wrong} \cup {[Ordinary(<<>>) EXCEPT !.args = <<>>]}
=============================================================================

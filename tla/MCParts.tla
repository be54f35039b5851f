-------------------------------- MODULE MCParts --------------------------------
(***************************************************************************)
(* The parts that share no state with one another, in one run: a behaviour *)
(* is a behaviour of one of them, chosen at the start, and the variables   *)
(* of the others are off, or stay as they start.  Every property is that   *)
(* of its own module.                                                      *)
(***************************************************************************)
EXTENDS CflMemory, FatLog, IlDsl, SamdInterlock, JsonNode, Wire, NodeIo, Boot, WiredLine, ClientLoop

VARIABLE part
partVars == <<part, memVars, flVars, dsVars, siVars, jnVars, wireVars, ioVars, bootVars, wlVars, clVars>>

-----------------------------------------------------------------------------
(* Two KBs of three nodes and one; the first holds a local-arena node with *)
(* a waiting node below it.                                                *)
MCBootSizes == {<<5, 18>>, <<30, 174>>}
MCKbNodes   == [k \in 1..2 |-> IF k = 1 THEN {1, 2, 3} ELSE {4}]
MCKbSize    == [k \in 1..2 |-> IF k = 1 THEN 12 ELSE 8]
MCLocal     == [n \in {2} |-> {3}]
MCRecSize   == [n \in 1..4 |-> CASE n = 2 -> 3 [] n = 4 -> 7 [] OTHER -> 8]
MCAuxSize   == [n \in 1..4 |-> CASE n = 3 -> 4 [] n = 4 -> 14 [] OTHER -> 0]
(* Records of 8 bytes fit: what HeapSafety is proved for.                  *)
ASSUME HeapIsRoomy == Roomy(2)

(* The log: two files, and a name that differs in case only.              *)
CONSTANTS f1, f2, a1, A1, b2
MCFiles == {f1, f2}
MCNames == {a1, A1, b2}
MCSfn == [n \in MCNames |-> IF n = b2 THEN f2 ELSE f1]


(* The parser's items.                                                    *)
MCMod(m, n) == [mod |-> m, n |-> n]
MCCfg == {[pins |-> <<"p1">>, kind |-> "in", mods |-> <<MCMod("up", 0), MCMod("debounce", 2)>>],
          [pins |-> <<"p2">>, kind |-> "adc", mods |-> <<MCMod("hyst", 1)>>],
          [pins |-> <<"p3">>, kind |-> "out", mods |-> << >>],
          [pins |-> <<"p3", "p2">>, kind |-> "in", mods |-> << >>],
          [pins |-> <<"p1">>, kind |-> "oc", mods |-> <<MCMod("hyst", 1)>>]}


(* Programs that share the output q, disagree about it, or fault.         *)
SIn(p, m) == [pin |-> p, mode |-> m]
SOut(p, ok, err) == [pin |-> p, ok |-> ok, err |-> err]
MCPrograms == {[ins |-> <<SIn("p1", "in")>>, outs |-> <<SOut("q", 0, 1)>>, faults |-> FALSE],
               [ins |-> <<SIn("p2", "adc")>>, outs |-> <<SOut("q", 0, 1)>>, faults |-> FALSE],
               [ins |-> <<SIn("p2", "in")>>, outs |-> <<SOut("q", 1, 0)>>, faults |-> FALSE],
               [ins |-> <<SIn("p1", "in")>>, outs |-> << >>, faults |-> TRUE]}


(* Documents up to two levels deep below the root, and paths.             *)
JInt(n) == [type |-> "int32", v |-> n]
JKey == {<<"a">>, <<"b", "c">>}
JLeaves == {JInt(7), [type |-> "string", v |-> <<"a">>]}
JArr(S) == [type : {"array"}, v : {<< >>} \cup {<<x>> : x \in S} \cup {<<x, y>> : x \in S, y \in S}]
JMem(S) == [key : JKey, val : S]
JObj(S) == [type : {"object"}, v : {<< >>} \cup {<<x>> : x \in JMem(S)} \cup {<<x, y>> : x \in JMem(S), y \in JMem(S)}]
JSmall == JLeaves \cup JArr(JLeaves) \cup JObj({JInt(7)})
MCJnDocs == {[type |-> "object", v |-> <<[key |-> <<"a">>, val |-> x], [key |-> <<"b", "c">>, val |-> y]>>] : x \in JSmall, y \in JSmall}
            \cup {[type |-> "array", v |-> <<[type |-> "float32", v |-> -5], [type |-> "null", v |-> 0], [type |-> "bool", v |-> 1]>>]}
MCJnFirst == [type |-> "object", v |-> <<[key |-> <<"b", "c">>, val |-> JInt(3)]>>]
MCJnPaths == {<< >>, <<"a">>, <<"b", "c">>, <<"b", "c", ".", "a">>, <<"b", "c", "[", "1", "]">>, <<"a", "[", "0", "]">>,
              <<"[", "0", "]">>, <<"[", "2", "]">>, <<"b", "c", ".", "b", "c">>, <<"b", "c", "a">>}


(* Frames for this node, for another, and for all; bits to flip.          *)
MCWireFrames ==
  { [dest |-> 9, src |-> 0, type |-> 1, seq |-> 0, payload |-> <<>>],
    [dest |-> 9, src |-> 0, type |-> 3, seq |-> 1, payload |-> <<17, 0>>],
    [dest |-> 7, src |-> 0, type |-> 2, seq |-> 2, payload |-> <<9>>],
    [dest |-> 127, src |-> 0, type |-> 2, seq |-> 3, payload |-> <<255>>] }
MCWireMasks == {1, 8, 128, 255, 256, 264}

(* Versions of the configuration files, some broken or for other boards.  *)
F(k, x) == [key |-> k, bad |-> FALSE, n |-> x, xs |-> <<>>]
L(k, s) == [key |-> k, bad |-> FALSE, n |-> 0, xs |-> s]
Broken(k) == [key |-> k, bad |-> TRUE, n |-> 0, xs |-> <<>>]
Id(ch, vr, ad, id) == <<F("v", 1), F("ch", ch), F("vr", vr), F("ad", ad), F("id", id)>>
MCBootDocs ==
  [idnt |-> {Id(1, 266, 0, 77), Id(1, 20, 5, 77), Id(1, 10, 0, 78)},
   hwio |-> {<<F("v", 2), L("io", <<1, 9>>)>>, <<L("io", <<6, 6>>), F("m", 5), F("v", 1)>>,
             <<F("v", 2), L("io", <<7>>), Broken("m")>>},
   slvr |-> {<<F("v", 1), L("s", <<1, 2, 3>>)>>, <<L("s", <<1>>), F("v", 3)>>},
   neti |-> {<<F("v", 1), L("aps", <<-1>>), F("ss", 4)>>, <<L("aps", <<0, 4>>), F("pw", 1), F("v", 2)>>}]

-----------------------------------------------------------------------------
MemOff == fault = "oom" /\ MemInit
FlOff == /\ flCard = 0 /\ flFs = 0 /\ flPend = 0 /\ flOp = 0 /\ flName = 0
         /\ flAcked = 0 /\ flBudget = 0
DsOff == /\ dsInst = 0 /\ dsSt = 0 /\ dsSeen = 0 /\ dsGroup = 0
         /\ dsText = 0 /\ dsRun = 0 /\ dsHist = 0 /\ dsLeft = 0
SiOff == SiInit
JnOff == /\ jnDoc = 0 /\ jnRecords = 0 /\ jnControl = 0 /\ jnCtx = 0
         /\ jnOut = 0 /\ jnUp = 0
WireOff == /\ promiscuous = 0 /\ line = 0 /\ ring = 0 /\ acc = 0 /\ outs = 0
           /\ wireSent = 0 /\ whole = 0 /\ wireFaults = 0
IoOff == work = "i2c" /\ IoInit
BootOff == BootInit
WlOff == wlNode = [n \in WlNodes |-> Booted(FALSE)] /\ WlInit
ClOff == clSlot = [s \in ClIds |-> Nothing] /\ ClInit

PartsInit ==
    \/ part = "heap" /\ MemInit /\ FlOff /\ DsOff /\ SiOff /\ JnOff /\ WireOff /\ IoOff /\ BootOff /\ WlOff /\ ClOff
    \/ part = "log" /\ FlInit /\ MemOff /\ DsOff /\ SiOff /\ JnOff /\ WireOff /\ IoOff /\ BootOff /\ WlOff /\ ClOff
    \/ part = "parser" /\ DsInit /\ MemOff /\ FlOff /\ SiOff /\ JnOff /\ WireOff /\ IoOff /\ BootOff /\ WlOff /\ ClOff
    \/ part = "client" /\ SiInit /\ MemOff /\ FlOff /\ DsOff /\ JnOff /\ WireOff /\ IoOff /\ BootOff /\ WlOff /\ ClOff
    \/ part = "json" /\ JnInit /\ MemOff /\ FlOff /\ DsOff /\ SiOff /\ WireOff /\ IoOff /\ BootOff /\ WlOff /\ ClOff
    \/ part = "wire" /\ WireInit /\ MemOff /\ FlOff /\ DsOff /\ SiOff /\ JnOff /\ IoOff /\ BootOff /\ WlOff /\ ClOff
    \/ part = "io" /\ IoInit /\ MemOff /\ FlOff /\ DsOff /\ SiOff /\ JnOff /\ WireOff /\ BootOff /\ WlOff /\ ClOff
    \/ part = "boot" /\ BootInit /\ MemOff /\ FlOff /\ DsOff /\ SiOff /\ JnOff /\ WireOff /\ IoOff /\ WlOff /\ ClOff
    \/ part = "chain" /\ WlInit /\ MemOff /\ FlOff /\ DsOff /\ SiOff /\ JnOff /\ WireOff /\ IoOff /\ BootOff /\ ClOff
    \/ part = "loop" /\ ClInit /\ MemOff /\ FlOff /\ DsOff /\ SiOff /\ JnOff /\ WireOff /\ IoOff /\ BootOff /\ WlOff

PartsNext ==
    /\ UNCHANGED part
    /\ \/ part = "heap" /\ MemNext /\ UNCHANGED <<flVars, dsVars, siVars, jnVars, wireVars, ioVars, bootVars, wlVars, clVars>>
       \/ part = "log" /\ FlNext /\ UNCHANGED <<memVars, dsVars, siVars, jnVars, wireVars, ioVars, bootVars, wlVars, clVars>>
       \/ part = "parser" /\ DsNext /\ UNCHANGED <<memVars, flVars, siVars, jnVars, wireVars, ioVars, bootVars, wlVars, clVars>>
       \/ part = "client" /\ SiNext /\ UNCHANGED <<memVars, flVars, dsVars, jnVars, wireVars, ioVars, bootVars, wlVars, clVars>>
       \/ part = "json" /\ JnNext /\ UNCHANGED <<memVars, flVars, dsVars, siVars, wireVars, ioVars, bootVars, wlVars, clVars>>
       \/ part = "wire" /\ WireNext /\ UNCHANGED <<memVars, flVars, dsVars, siVars, jnVars, ioVars, bootVars, wlVars, clVars>>
       \/ part = "io" /\ IoNext /\ UNCHANGED <<memVars, flVars, dsVars, siVars, jnVars, wireVars, bootVars, wlVars, clVars>>
       \/ part = "boot" /\ BootNext /\ UNCHANGED <<memVars, flVars, dsVars, siVars, jnVars, wireVars, ioVars, wlVars, clVars>>
       \/ part = "chain" /\ WlNext /\ UNCHANGED <<memVars, flVars, dsVars, siVars, jnVars, wireVars, ioVars, bootVars, clVars>>
       \/ part = "loop" /\ ClNext /\ UNCHANGED <<memVars, flVars, dsVars, siVars, jnVars, wireVars, ioVars, bootVars, wlVars>>

-----------------------------------------------------------------------------
(* The FAT log, with the power failing before any sector write: no cluster *)
(* is shared, a line answered with OK stays on the card until its file is  *)
(* deleted, and CMD_LOG_READ finds it.                                     *)
LogSound == part = "log" => FlTypeOK /\ NoCrossLink /\ AckedDurable /\ ReadsBack

(* interlock_dsl.c and eval_slot: an accepted text can be armed and can    *)
(* trip, and the slot is TRUE at a tick exactly when the text says so.     *)
ParserSound == part = "parser" => DsTypeOK /\ AcceptedIsSound /\ MeansText

(* The JSON decoder's count of a subtree is the compiler's, and what it    *)
(* reads at a path is what the document has there.                         *)
JsonExact == part = "json" => RegionIsSubtree /\ ReadsDocument

(* The reassembler hands up every frame that reached it undamaged and, for *)
(* any single disturbance, no other.                                       *)
WireExact == part = "wire" => NoPhantom /\ IntactDelivered
=============================================================================

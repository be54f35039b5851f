----------------------------- MODULE MCChainTree -----------------------------
EXTENDS ChainTree

Column(p, kids) == [Node(p, kids, "COLUMN", "COLUMN_INIT", "none", "none", NoArg) EXCEPT !.auto = TRUE]
Leaf(p, main)   == Node(p, <<>>, main, "none", "none", "none", NoArg)
Do(p, f, arg)   == Node(p, <<>>, "DISABLE", f, "none", "none", arg)
Auto(nd)        == [nd EXCEPT !.auto = TRUE]
UntilUser(p)    == Node(p, <<>>, "WAIT", "WAIT_INIT", "none", "USER",
                        [timeout |-> 0, tevent |-> "none", reset |-> FALSE])
OneKb(depth, nodes) ==
    [kbs |-> <<[start |-> 0, count |-> Len(nodes), depth |-> depth]>>, node |-> NodeTable(nodes)]

(* A state machine switched from inside its states and from a second       *)
(* column, without sync events.                                            *)
SmImage(sync) == OneKb(3, <<
    Gate(<<1, 10>>),
    Auto(Node(0, <<2, 6>>, "STATE_MACHINE", "SM_INIT", "SM_TERM", "SM_EVENT_SYNC",
              [names |-> <<"s0", "s1">>, initial |-> 0])),
    Column(1, <<3, 4, 5>>), UntilUser(2),
        Do(2, "CHANGE_STATE", [sm |-> 1, state |-> "s1", sync |-> sync]), Leaf(2, "HALT"),
    Column(1, <<7, 8, 9>>), UntilUser(6),
        Do(6, "CHANGE_STATE", [sm |-> 1, state |-> "s0", sync |-> "none"]), Leaf(6, "HALT"),
    Column(0, <<11, 12, 13, 14, 15>>), UntilUser(10),
        Do(10, "CHANGE_STATE", [sm |-> 1, state |-> "s1", sync |-> sync]), UntilUser(10),
        Do(10, "RESET_SM", [sm |-> 1]), Leaf(10, "RESET")>>)

LoopImage == OneKb(4, <<
    Gate(<<1, 6>>),
    Column(0, <<2, 5>>),
        Node(1, <<3>>, "FOR", "FOR_INIT", "none", "none", [times |-> 2]),
            Column(2, <<4>>), Node(3, <<>>, "WAIT_TIME", "WAIT_TIME_INIT", "none", "USER", [delay |-> 1]),
        Node(1, <<>>, "JOIN", "JOIN_INIT", "none", "none", [of |-> 2]),
    Column(0, <<7, 10>>),
        Node(6, <<8>>, "WHILE", "WHILE_INIT", "none", "USER", NoArg),
            Column(7, <<9>>), Node(8, <<>>, "WAIT", "WAIT_INIT", "none", "WAIT_FOR_EVENT",
                 [event |-> "SECOND", count |-> 1, timeout |-> 2, tevent |-> "TIMER",
                  reset |-> FALSE]),
        Leaf(6, "RESET")>>)

MaskImage == OneKb(3, <<
    Gate(<<1, 5, 11, 15>>),
    Auto(Node(0, <<2>>, "DF_MASK", "DF_MASK_INIT", "none", "none", [required |-> {1}, excluded |-> {}])),
        Column(1, <<3, 4>>),
            Node(2, <<>>, "VERIFY", "VERIFY_INIT", "none", "VERIFY_BITMASK",
                 [required |-> {1}, excluded |-> {2}, reset |-> TRUE]),
            Leaf(2, "HALT"),
    Column(0, <<6, 7, 8, 9, 10>>),
        Do(5, "SET_BITMASK", [mask |-> {1}]), UntilUser(5), Do(5, "CLEAR_BITMASK", [mask |-> {1}]),
        UntilUser(5), Leaf(5, "RESET"),
    Column(0, <<12, 13, 14>>),
        Node(11, <<>>, "WATCH_DOG", "WATCH_DOG_INIT", "none", "none",
             [time |-> 2, reset |-> TRUE]),
        Do(11, "ENABLE_WATCH_DOG", [of |-> 12]), Leaf(11, "HALT"),
    Column(0, <<16, 17>>),
        Node(15, <<>>, "VERIFY", "VERIFY_INIT", "none", "VERIFY_TIME_OUT",
             [time |-> 1, reset |-> TRUE]), Leaf(15, "HALT")>>)

SeqImage == OneKb(3, <<
    Gate(<<1, 6>>),
    Auto(Node(0, <<2, 4>>, "SEQUENCE_PASS", "SEQUENCE_INIT", "none", "none", NoArg)),
        Column(1, <<3>>), Do(2, "MARK_SEQUENCE", [seq |-> 1, result |-> FALSE]),
        Column(1, <<5>>), Do(4, "MARK_SEQUENCE", [seq |-> 1, result |-> TRUE]),
    Auto(Node(0, <<7>>, "LOCAL_ARENA", "LOCAL_ARENA_INIT", "LOCAL_ARENA_TERM", "none", NoArg)),
        Node(6, <<>>, "WAIT", "WAIT_INIT", "none", "WAIT_FOR_EVENT",
             [event |-> "SECOND", count |-> 2, timeout |-> 0, tevent |-> "none",
              reset |-> FALSE])>>)

TestsImage ==
    [kbs |-> <<[start |-> 0, count |-> 5, depth |-> 2], [start |-> 5, count |-> 4, depth |-> 2]>>,
     node |-> NodeTable(<<
        Gate(<<1>>), Column(0, <<2, 3, 4>>), UntilUser(1),
            Do(1, "START_STOP_TESTS", [stop |-> <<2>>, start |-> <<2>>]), Leaf(1, "RESET"),
        Gate(<<6>>),
          Auto(Node(5, <<7, 8>>, "LOCAL_ARENA", "LOCAL_ARENA_INIT", "LOCAL_ARENA_TERM", "none", NoArg)),
            Node(6, <<>>, "WAIT", "WAIT_INIT", "none", "WAIT_FOR_EVENT",
                 [event |-> "SECOND", count |-> 2, timeout |-> 0, tevent |-> "none",
                  reset |-> FALSE]),
            UntilUser(6)>>)]

(* Nodes switched on and off from a second column, a named event, a watch  *)
(* dog that is patted, and a last column that ends the system.             *)
CtlImage == OneKb(2, <<
    Gate(<<1, 6, 9, 14>>),
    Column(0, <<2, 3, 4, 5>>),
        UntilUser(1), Do(1, "DISABLE_NODES", [nodes |-> <<6>>]), UntilUser(1),
        Do(1, "ENABLE_NODES", [nodes |-> <<6>>]),
    Column(0, <<7, 8>>),
        Node(6, <<>>, "WAIT", "WAIT_INIT", "none", "WAIT_FOR_EVENT",
             [event |-> "GO", count |-> 1, timeout |-> 0, tevent |-> "none", reset |-> FALSE]),
        Leaf(6, "TERMINATE"),
    Column(0, <<10, 11, 12, 13>>),
        UntilUser(9), Do(9, "SEND_NAMED_EVENT", [to |-> 0, event |-> "GO"]),
        UntilUser(9), Do(9, "SEND_NAMED_EVENT", [to |-> 0, event |-> "TERMINATE_SYSTEM"]),
    Column(0, <<15, 16, 17, 18, 19>>),
        Node(14, <<>>, "WATCH_DOG", "WATCH_DOG_INIT", "none", "none", [time |-> 2, reset |-> FALSE]),
        Do(14, "ENABLE_WATCH_DOG", [of |-> 15]), UntilUser(14),
        Do(14, "PAT_WATCH_DOG", [of |-> 15]), Leaf(14, "TERMINATE_SYSTEM")>>)

(* The elements of a fail sequence, and waits on the bitmask and on KBs.   *)
FailImage ==
    [kbs |-> <<[start |-> 0, count |-> 11, depth |-> 3], [start |-> 11, count |-> 3, depth |-> 2]>>,
     node |-> NodeTable(<<
        Gate(<<1, 6>>),
        Auto(Node(0, <<2, 4>>, "SEQUENCE_FAIL", "SEQUENCE_INIT", "none", "USER", NoArg)),
            Column(1, <<3>>), Do(2, "MARK_SEQUENCE", [seq |-> 1, result |-> TRUE]),
            Column(1, <<5>>), Do(4, "MARK_SEQUENCE", [seq |-> 1, result |-> FALSE]),
        Column(0, <<7, 8, 9, 10>>),
            Node(6, <<>>, "VERIFY", "VERIFY_INIT", "none", "VERIFY_TESTS",
                 [tests |-> {2}, reset |-> FALSE]),
            Node(6, <<>>, "WAIT", "WAIT_INIT", "none", "WAIT_FOR_BITMASK",
                 [required |-> {1}, excluded |-> {}, timeout |-> 2, tevent |-> "TIMER",
                  reset |-> TRUE]),
            Do(6, "CLEAR_BITMASK", [mask |-> {1}]), Leaf(6, "RESET"),
        Gate(<<12>>), Column(11, <<13>>), Do(12, "SET_BITMASK", [mask |-> {1}])>>)]

AllImages == [firmware |-> FirmwareImage(2), sm |-> SmImage("none"), loop |-> LoopImage,
              mask |-> MaskImage, seq |-> SeqImage, tests |-> TestsImage,
              ctl |-> CtlImage, fail |-> FailImage]
MCImages == [i \in {"firmware", "sm", "loop", "mask", "seq", "tests", "ctl", "fail"} |->
                AllImages[i]]
=============================================================================

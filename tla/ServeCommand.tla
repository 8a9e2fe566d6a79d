---------------------------- MODULE ServeCommand ----------------------------
(***************************************************************************)
(* The command line of "moespresso serve" and the options resolved from it *)
(* before anything is loaded (main.rs, disk_config.rs and the option       *)
(* checks of server.rs).  A command line is a sequence of <<flag, value>>  *)
(* pairs; flags that take no value carry 0; sizes are abstract units.      *)
(***************************************************************************)
EXTENDS Admission, Sequences

CONSTANTS
    PackageContext,        \* context limit of the package
    DefaultContext,        \* 131072
    DefaultRetained,       \* 1 GiB of prompt cache
    DefaultPayload,        \* 8 GiB of disk cache
    IoBuffer,              \* IO_BUFFER_BYTES
    FileOverhead           \* header and trailer of a checkpoint file

-----------------------------------------------------------------------------
(* Parsing.                                                                *)

Bare == {"--no-disk-cache", "--no-adaptive-memory"}
Numbers == {"--port", "--expert-capacity", "--max-memory-gb", "--max-context",
            "--disk-cache-gb"}
Words == [thinking |-> {"on", "off"}, routing |-> {"off", "prefer-resident"},
          mode |-> {"prefix", "full"}]

(* The value a flag takes: positive numbers, a prompt cache of zero or     *)
(* more, one of a few words, a nonempty path.                              *)
ValueHolds(flag, value) ==
    CASE flag \in Bare -> TRUE
      [] flag \in Numbers -> value > 0
      [] flag = "--prompt-cache-gb" -> value >= 0
      [] flag = "--thinking" -> value \in Words.thinking
      [] flag = "--cache-routing" -> value \in Words.routing
      [] flag = "--disk-cache-mode" -> value \in Words.mode
      [] flag = "--disk-cache-dir" -> value # ""
      [] flag = "PACKAGE" -> TRUE
      [] OTHER -> FALSE

Places(args, flag) == {i \in DOMAIN args : args[i][1] = flag}
Set(args, flag) == Places(args, flag) # {}
(* The last one counts where a flag may be repeated.                       *)
Value(args, flag, default) ==
    IF Set(args, flag) THEN args[Max(Places(args, flag))][2] ELSE default

Repeatable == {"--port", "--max-context", "--cache-routing"}
NotRepeated(args) ==
    \A i, j \in DOMAIN args :
        args[i][1] = args[j][1] /\ args[i][1] \notin Repeatable => i = j

DiskOptions(args) ==
    \E flag \in {"--disk-cache-dir", "--disk-cache-gb", "--disk-cache-mode"} : Set(args, flag)
DiskOff(args) == Set(args, "--no-disk-cache") \/ Set(args, "--expert-capacity")

ParseServeArgs(args) ==
    /\ \A i \in DOMAIN args : ValueHolds(args[i][1], args[i][2])
    /\ NotRepeated(args)
    /\ Set(args, "PACKAGE")
    /\ ~ (Set(args, "--expert-capacity") /\ Set(args, "--max-memory-gb"))
    /\ Set(args, "--expert-capacity") => Value(args, "--expert-capacity", 0) \in MinSlots..FullSlots
    /\ DiskOptions(args) => ~DiskOff(args)

-----------------------------------------------------------------------------
(* Resolution.                                                             *)

(* A fixed capacity leaves no room that a prompt cache could be charged to.*)
CacheHolds(args) ==
    Set(args, "--expert-capacity") => Value(args, "--prompt-cache-gb", 0) = 0
ServeCacheBytes(args) ==
    IF Set(args, "--expert-capacity") THEN 0
    ELSE Value(args, "--prompt-cache-gb", DefaultRetained)

ServeContext(args) ==
    Value(args, "--max-context", Min({PackageContext, DefaultContext}))

(* Where the disk cache goes: an explicit directory, or the user's cache   *)
(* directory when the environment names one.                               *)
DiskRoot(args, env) ==
    IF Set(args, "--disk-cache-dir") THEN "explicit"
    ELSE IF env = "absolute" THEN "managed" ELSE "none"
ResolveDisk(args, env) ==
    IF DiskOff(args) THEN [root |-> "off"]
    ELSE IF DiskRoot(args, env) # "none"
    THEN [root |-> DiskRoot(args, env), required |-> DiskOptions(args),
          payload |-> Value(args, "--disk-cache-gb", DefaultPayload)]
    ELSE IF DiskOptions(args) THEN Refused ELSE [root |-> "off"]

(* validate_cache_options: the limits must leave room for one file.        *)
LimitsHold(disk) == disk.root = "off" \/ disk.payload > FileOverhead

(* run_serve up to resolve_capacity.                                       *)
Options(command) ==
    LET args == command.args
        disk == ResolveDisk(args, command.env)
    IN  IF \/ ~ParseServeArgs(args) \/ ~CacheHolds(args)
           \/ IsRefused(disk) \/ ServeContext(args) > PackageContext
        THEN Refused
        ELSE [host |-> command.host,
              context |-> ServeContext(args),
              limit |-> Value(args, "--max-memory-gb", 0),
              retained |-> ServeCacheBytes(args),
              snapshot |-> IF disk.root = "off" THEN 0 ELSE IoBuffer,
              adaptive |-> ~Set(args, "--no-adaptive-memory") /\ ~Set(args, "--expert-capacity"),
              fixed |-> Value(args, "--expert-capacity", 0),
              disk |-> disk,
              root |-> command.root]

DiskIo(options) == IF options.disk.root = "off" THEN 0 ELSE IoBuffer

(* The disk cache is given up when it was not asked for by name, and the   *)
(* server refuses to start otherwise.                                      *)
WithoutDisk(options) ==
    IF options.disk.required THEN Refused ELSE [options EXCEPT !.disk = [root |-> "off"]]

(* prepare_root creates a private directory or finds one; open_store locks *)
(* it and reads its index.                                                 *)
PrepareRoot(options) ==
    IF options.disk.root # "off" /\ options.root = "unprepared"
    THEN WithoutDisk(options) ELSE options
OpenStore(options) ==
    IF options.disk.root # "off" /\ options.root = "unopened"
    THEN WithoutDisk(options) ELSE options
=============================================================================

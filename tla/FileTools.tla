----------------------------- MODULE FileTools -----------------------------
(***************************************************************************)
(* The tools that move a file: upload_file, upload_url, upload_data and    *)
(* download_file.  One call at a time: the handler picks the mechanism of  *)
(* the transport, opens the source, checks its size and hands the bytes to *)
(* an executor, while the file may grow, the connection break and the      *)
(* caller give up.  Sizes are small numbers, names are left out; the       *)
(* executors and the coordinator of presigned links are external.          *)
(***************************************************************************)
EXTENDS Naturals, Sequences, Functions

CONSTANTS FileServers,   \* the servers: transport, features, coordinator wired
          FileSources,   \* what a caller may point at
          SizeCap        \* max_mcp_upload_size

VARIABLES fileServer, fileCall, source, fileStage, ctx, reply,
          excuse    \* history: what happened to the call from outside

fileVars == <<fileServer, fileCall, source, fileStage, ctx, reply, excuse>>

Modes    == {"file", "path", "mint", "url", "data"}
NoCall   == [tool |-> "none"]
Uploads  == [tool : {"upload_file"}, mode : Modes, archive : {"unset", "convert", "preserve"},
             wrap : BOOLEAN]
Relays   == [tool : {"upload_url", "upload_data"}, wrap : BOOLEAN]
Fetches  == [tool : {"download_file"}, sink : {"local", "drop"}]

NoSource == [kind |-> "none"]

(* A tree can only be named by a path.  The bytes of a PUT are there; any   *)
(* other source may turn out to be missing.                                 *)
PointsAt(call, src) ==
  /\ call.tool = "download_file" => src.kind \in {"file", "missing"}
  /\ call.tool = "upload_file" =>
       /\ call.mode = "mint" => src.kind \in {"file", "archive"}
       /\ call.mode # "path" => src.kind # "dir"
  /\ call \in Relays => src.kind # "dir"

Pending  == [kind |-> "none"]
Refused(why)        == [kind |-> "refused", why |-> why]
Stored(shape, size) == [kind |-> "stored", shape |-> shape, size |-> size]

Total(src) == SumFunction(src.entries)

-----------------------------------------------------------------------------
(* What a server says it accepts. *)

Has(feature) == feature \in fileServer.features
Transport    == fileServer.transport

SourceModes(transport) ==
  CASE transport = "stdio"  -> {"path"}
    [] transport = "http"   -> {"mint"}
    [] transport = "openai" -> {"url", "data"}

(* The transport that a set of features selects. *)
TransportOf(features) ==
  IF "source_path" \in features THEN "stdio"
  ELSE IF "source_mint" \in features THEN "http" ELSE "openai"

(* The modes that upload_file's schema lists: the transport's, whatever     *)
(* else the host can do.                                                    *)
SchemaModes ==
  SourceModes(TransportOf(fileServer.features)) \cup
  (IF Has("file_host_input") THEN {"file"} ELSE {})

SinkDropReachable == fileServer.presigned /\ Transport # "openai"

Sinks == {"local"} \cup (IF SinkDropReachable THEN {"drop"} ELSE {})

(* The relay tools are registered for the hosts that have the feature, and  *)
(* upload_file when its transport has a mechanism.                          *)
Registered(tool) ==
  CASE tool = "upload_file"   -> Transport # "http" \/ fileServer.presigned
    [] tool = "upload_url"    -> Has("source_url")
    [] tool = "upload_data"   -> Has("source_data")
    [] tool = "download_file" -> TRUE

(* The report of the capabilities tool, on a server without the vault tools. *)
ReportedModes ==
  IF ~Registered("upload_file") THEN {}
  ELSE SourceModes(Transport) \cup (IF Has("file_host_input") THEN {"file"} ELSE {})

-----------------------------------------------------------------------------
FileInit ==
  /\ fileServer \in FileServers
  /\ fileCall = NoCall /\ source = NoSource
  /\ fileStage = "idle" /\ ctx = "live" /\ reply = Pending /\ excuse = {}

CallTool(call) ==
  /\ fileStage = "idle" /\ Registered(call.tool)
  /\ fileCall' = call /\ source' \in {src \in FileSources : PointsAt(call, src)}
  /\ fileStage' = "called"
  /\ UNCHANGED <<fileServer, ctx, reply, excuse>>

Reply(answer) ==
  /\ reply' = answer /\ fileStage' = "answered" /\ ctx' = "closed"
  /\ UNCHANGED <<fileServer, fileCall, source, excuse>>

Proceed(stage) ==
  /\ fileStage' = stage
  /\ UNCHANGED <<fileServer, fileCall, source, ctx, reply, excuse>>

(* A mode that is not the transport's is refused before anything is opened. *)
RefuseMode ==
  /\ fileStage = "called"
  /\ \/ /\ fileCall.tool = "upload_file"
        /\ fileCall.mode \notin SourceModes(Transport) \cup {"file"}
     \/ fileCall.tool = "download_file" /\ fileCall.sink \notin Sinks
  /\ Reply(Refused("unavailable"))

ByRelay ==
  \/ fileCall.tool \in {"upload_url", "upload_data"}
  \/ fileCall.tool = "upload_file" /\ fileCall.mode \in {"file", "url", "data"}
ByPath == fileCall.tool = "upload_file" /\ fileCall.mode = "path"
ByMint == fileCall.tool = "upload_file" /\ fileCall.mode = "mint"

Inline ==
  \/ fileCall.tool = "upload_data"
  \/ fileCall.tool = "upload_file" /\ fileCall.mode = "data"

(* How an archive is treated; left out, every way but the presigned PUT     *)
(* converts.  The single-file tools have no such argument.                  *)
ParseArchiveMode(mode) == IF mode = "preserve" THEN "preserve" ELSE "convert"
MintMode(mode)         == IF mode = "unset" THEN "preserve" ELSE mode
ModeOfCall ==
  IF fileCall.tool # "upload_file" THEN "preserve"
  ELSE ParseArchiveMode(IF ByMint THEN MintMode(fileCall.archive) ELSE fileCall.archive)

(* The executor of a stream: it buffers the bytes, extracts an archive when *)
(* told to and uploads what it has.  An archive that does not open stays a  *)
(* file.                                                                    *)
AsTree(mode) == mode = "convert" /\ source.kind = "archive" /\ source.opens
Single       == IF fileCall.wrap THEN "wrapped" ELSE "file"
Execute(mode) ==
  IF AsTree(mode)
  THEN IF Total(source) > SizeCap THEN Refused("too_large") ELSE Stored("tree", Total(source))
  ELSE IF source.size > SizeCap THEN Refused("too_large") ELSE Stored(Single, source.size)

-----------------------------------------------------------------------------
(* A relayed source is opened for as long as its body is read. *)

CanRelay(c) ==
  /\ fileStage = "called" /\ ByRelay
  /\ fileCall.tool = "upload_file" => fileCall.mode \in SourceModes(Transport) \cup {"file"}
  /\ ctx' = c

(* Refused up front: no length, a length over the cap, a declared size that *)
(* is not the payload's.                                                    *)
OpenFails ==
  /\ CanRelay("closed") /\ reply' \in {Refused("unknown_size"), Refused("too_large"),
                                       Refused("mismatch"), Refused("missing")}
  /\ \/ reply'.why = "unknown_size" /\ ~Inline /\ source.declared = "none"
     \/ reply'.why = "too_large" /\ source.size > SizeCap
     \/ reply'.why = "mismatch" /\ Inline /\ source.declared = "wrong"
     \/ reply'.why = "missing" /\ source.kind = "missing"
  /\ fileStage' = "answered"
  /\ UNCHANGED <<fileServer, fileCall, source, excuse>>

Opens == /\ source.kind # "missing" /\ source.size <= SizeCap
         /\ IF Inline THEN source.declared # "wrong" ELSE source.declared # "none"

(* A mutant cancels the request when the opening function returns. *)
OpenRelayCancelled ==
  /\ CanRelay("cancelled") /\ Opens /\ fileStage' = "opened"
  /\ UNCHANGED <<fileServer, fileCall, source, reply, excuse>>
OpenRelay ==
  /\ CanRelay("live") /\ Opens /\ fileStage' = "opened"
  /\ UNCHANGED <<fileServer, fileCall, source, reply, excuse>>

(* The executor reads the body: to its end while the request lives.         *)
ReadBody ==
  /\ fileStage = "opened"
  /\ IF ctx = "live" THEN Reply(Execute(ModeOfCall)) ELSE Reply(Refused("interrupted"))

-----------------------------------------------------------------------------
(* A path on the server's own disk. *)

StatPath ==
  /\ fileStage = "called" /\ ByPath /\ Transport = "stdio"
  /\ IF source.kind = "missing" THEN Reply(Refused("missing"))
     ELSE Proceed("statted")

(* The cap is checked before a byte is transferred: the sum of a tree's     *)
(* entries, or the size that the file had when it was looked up.            *)
TreeFits(src) == Total(src) <= SizeCap
StattedSize   == IF "grew" \in excuse THEN source.size - 1 ELSE source.size

CheckPath ==
  /\ fileStage = "statted"
  /\ IF IF source.kind = "dir" \/ AsTree(ModeOfCall) THEN TreeFits(source)
        ELSE StattedSize <= SizeCap
     THEN Proceed("checked")
     ELSE Reply(Refused("too_large"))

UploadPath ==
  /\ fileStage = "checked"
  /\ Reply(IF source.kind = "dir" \/ AsTree(ModeOfCall) THEN Stored("tree", Total(source))
           ELSE Stored(Single, source.size))

(* The file at the path is written to while the call works. *)
Grown(src) == [src EXCEPT !.size = @ + 1, !.entries = <<@[1] + 1>> \o Tail(@)]
Grow ==
  /\ fileStage \in {"statted", "checked"} /\ "grew" \notin excuse
  /\ source' = Grown(source)
  /\ excuse' = excuse \cup {"grew"}
  /\ UNCHANGED <<fileServer, fileCall, fileStage, ctx, reply>>

-----------------------------------------------------------------------------
(* A presigned link: the mode is recorded when the link is minted, and      *)
(* applied when the bytes arrive.                                           *)

Prepare ==
  /\ fileStage = "called" /\ ByMint /\ Transport = "http"
  /\ \/ Proceed("minted")
     \/ Reply(Refused("prepare"))

Fulfill ==
  /\ fileStage = "minted"
  /\ Reply(Execute(ModeOfCall))

(* A download goes to a file of the server, or to a link to pull it from.   *)
Deliver ==
  /\ fileStage = "called" /\ fileCall.tool = "download_file" /\ fileCall.sink \in Sinks
  /\ Reply(IF source.kind = "missing" THEN Refused("missing")
           ELSE IF source.size > SizeCap THEN Refused("too_large")
           ELSE Stored(fileCall.sink, source.size))

(* The connection breaks, the request times out, or the caller gives up.    *)
Interrupt ==
  /\ fileStage = "opened" /\ ctx = "live"
  /\ ctx' = "cancelled" /\ excuse' = excuse \cup {"interrupted"}
  /\ UNCHANGED <<fileServer, fileCall, source, fileStage, reply>>

NextCall ==
  /\ fileStage \in {"answered", "minted"}
  /\ fileStage' = "idle" /\ fileCall' = NoCall /\ reply' = Pending /\ ctx' = "live"
  /\ excuse' = {} /\ source' = NoSource
  /\ UNCHANGED fileServer

FileNext ==
  \/ \E c \in Uploads \cup Relays \cup Fetches : CallTool(c)
  \/ RefuseMode \/ OpenFails \/ OpenRelay \/ ReadBody
  \/ StatPath \/ CheckPath \/ UploadPath \/ Grow
  \/ Prepare \/ Fulfill \/ Deliver \/ Interrupt \/ NextCall

-----------------------------------------------------------------------------
(* Shape of the state. *)
FileTypeOK ==
  /\ fileServer \in FileServers /\ fileCall \in Uploads \cup Relays \cup Fetches \cup {NoCall}
  /\ fileStage \in {"idle", "called", "opened", "statted", "checked", "minted", "answered"}
  /\ ctx \in {"live", "cancelled", "closed"} /\ excuse \subseteq {"grew", "interrupted"}
  /\ reply.kind \in {"none", "refused", "stored"}

(* What the tool's documentation says of an archive: a host file, a path    *)
(* and a relayed source convert unless told to preserve, the presigned PUT  *)
(* preserves unless told to convert, the single-file tools always preserve. *)
ToldToConvert ==
  /\ fileCall.tool = "upload_file"
  /\ IF fileCall.mode = "mint" THEN fileCall.archive = "convert" ELSE fileCall.archive # "preserve"

WholeContent ==
  IF source.kind = "dir" \/ (source.kind = "archive" /\ source.opens /\ ToldToConvert)
  THEN [shape |-> "tree", size |-> Total(source)]
  ELSE [shape |-> Single, size |-> source.size]

(* upload_file.go, file_relay.go, tree_size.go, root.go: what is stored is  *)
(* the whole source, in the shape the call asked for and within the cap     *)
(* unless the file grew behind the check; a source within the cap is        *)
(* refused for a reason of its own, and a transfer is interrupted only by   *)
(* something outside the call.                                              *)
WholeOrRefused ==
  fileStage = "answered" =>
    IF reply.kind = "stored"
    THEN /\ fileCall.tool # "download_file" =>
              [shape |-> reply.shape, size |-> reply.size] = WholeContent
         /\ reply.size <= SizeCap \/ "grew" \in excuse
    ELSE /\ reply.why = "too_large" => source.size > SizeCap \/ Total(source) > SizeCap
         /\ reply.why = "interrupted" => "interrupted" \in excuse

(* capabilities.go:156-158: a mode or sink that the schema or the report    *)
(* names is not refused as unavailable, and both name the same modes.       *)
AdvertisedModesWork ==
  /\ Registered("upload_file") => SchemaModes = ReportedModes
  /\ reply = Refused("unavailable") =>
       IF fileCall.tool = "download_file" THEN fileCall.sink \notin Sinks
       ELSE fileCall.mode \notin SchemaModes
=============================================================================

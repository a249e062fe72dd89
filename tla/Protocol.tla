------------------------------ MODULE Protocol ------------------------------
(***************************************************************************)
(* The JSON messages of the control plane as each end declares them: the   *)
(* phone's data classes (Protocol.kt, with ProtoJson's settings) and the   *)
(* PC's enums (protocol.rs, with serde's attributes).  Nothing generates   *)
(* one from the other; the four tables below are the two files.            *)
(*                                                                         *)
(* A message is its name (the tag "type") and a function from the names of *)
(* the fields present to what they hold: the name of a type, or "null".    *)
(* "client", "server" and "audio" are objects of texts and numbers.        *)
(* Numbers are told apart from texts, not among themselves: ids and counts *)
(* start at 1 and stay far below 2^31, where Int and u32 differ.           *)
(***************************************************************************)
Field(type, null, lack) == [type |-> type, null |-> null, lack |-> lack]

\* A field without a default, one with a default (serde's default, Kotlin's
\* "= value"), one that may be null or lacking (Option, "T? = null").
Need(type)  == Field(type, FALSE, FALSE)
Given(type) == Field(type, FALSE, TRUE)
Maybe(type) == Field(type, TRUE, TRUE)

NoField == [f \in {} |-> Need("text")]

\* The fields of two tables.
Both(some, more) ==
    [f \in DOMAIN some \union DOMAIN more |->
        IF f \in DOMAIN some THEN some[f] ELSE more[f]]

IdAnd(name) == Both([id |-> Need("number")], [f \in {name} |-> Need("text")])

-----------------------------------------------------------------------------
(* Phone to PC *)

\* The phone's ClientMsg.
PhoneSays == [
    hello          |-> [v |-> Given("number"), c |-> Need("text"),
                        nonce |-> Need("text"), client |-> Need("client")],
    trusted_hello  |-> [v |-> Given("number"), device_id |-> Need("text"),
                        token |-> Need("text"), client |-> Need("client")],
    ping           |-> [ts |-> Need("number")],
    stream_request |-> [codec |-> Given("text"), max_bitrate_kbps |-> Maybe("number"),
                        max_fps |-> Maybe("number"),
                        prefer_keyframe_interval_ms |-> Maybe("number")],
    stream_stop    |-> [stream_id |-> Maybe("text")],
    keyframe_request |-> [stream_id |-> Maybe("text")],
    mouse_move     |-> [x |-> Need("number"), y |-> Need("number")],
    mouse_button   |-> [button |-> Need("button"), down |-> Need("flag")],
    mouse_scroll   |-> [dx |-> Given("number"), dy |-> Given("number")],
    key_text       |-> [text |-> Need("text")],
    key_event      |-> [vk |-> Need("number"), down |-> Need("flag")],
    clipboard_set  |-> [text |-> Need("text")],
    clipboard_get  |-> NoField,
    file_transfer_begin |-> Both(IdAnd("name"), [size |-> Need("number")]),
    file_transfer_abort |-> [id |-> Need("number"), reason |-> Given("text")],
    file_send_accepted  |-> IdAnd("dest_path"),
    file_send_complete  |-> IdAnd("dest_path"),
    file_send_failed    |-> IdAnd("reason") ]

\* The PC's ClientMsg.
PcTakes == [
    hello          |-> [v |-> Need("number"), c |-> Need("text"),
                        nonce |-> Need("text"), client |-> Given("client")],
    trusted_hello  |-> [v |-> Need("number"), device_id |-> Need("text"),
                        token |-> Need("text"), client |-> Given("client")],
    ping           |-> [ts |-> Given("number")],
    stream_request |-> [codec |-> Given("text"), max_bitrate_kbps |-> Maybe("number"),
                        max_fps |-> Maybe("number"),
                        prefer_keyframe_interval_ms |-> Maybe("number")],
    stream_stop    |-> [stream_id |-> Maybe("text")],
    keyframe_request |-> [stream_id |-> Maybe("text")],
    mouse_move     |-> [x |-> Need("number"), y |-> Need("number")],
    mouse_button   |-> [button |-> Need("button"), down |-> Need("flag")],
    mouse_scroll   |-> [dx |-> Given("number"), dy |-> Given("number")],
    key_text       |-> [text |-> Need("text")],
    key_event      |-> [vk |-> Need("number"), down |-> Need("flag")],
    clipboard_set  |-> [text |-> Need("text")],
    clipboard_get  |-> NoField,
    file_transfer_begin |-> Both(IdAnd("name"), [size |-> Need("number")]),
    file_transfer_abort |-> [id |-> Need("number"), reason |-> Given("text")],
    file_send_accepted  |-> IdAnd("dest_path"),
    file_send_complete  |-> IdAnd("dest_path"),
    file_send_failed    |-> IdAnd("reason") ]

-----------------------------------------------------------------------------
(* PC to phone *)

Described(names) == [f \in names |-> Need("text")]
Counted(names)   == [f \in names |-> Need("number")]

\* The PC's ServerMsg; Maybe is skip_serializing_if = "Option::is_none".
PcSays == [
    welcome        |-> Both(Described({"session", "hmac"}), [server |-> Need("server"),
                        trust_token |-> Maybe("text"), device_id |-> Maybe("text")]),
    error          |-> Described({"code", "msg"}),
    pong           |-> Counted({"ts"}),
    stream_started |-> Both([audio |-> Maybe("audio")], Both(
                        Described({"stream_id", "codec", "profile", "level", "pixel_format"}),
                        Counted({"width", "height", "fps", "bitrate_kbps",
                                 "keyframe_interval_frames", "started_at_unix_ms"}))),
    stream_stopped |-> Described({"stream_id", "reason", "msg"}),
    clipboard_text |-> Described({"text"}),
    file_transfer_accepted |-> IdAnd("dest_path"),
    file_transfer_complete |-> IdAnd("dest_path"),
    file_transfer_failed   |-> IdAnd("reason"),
    file_send_begin        |-> Both(IdAnd("name"), Counted({"size"})) ]

\* The phone's ServerMsg.
PhoneTakes == [
    welcome        |-> Both(Described({"session", "hmac"}), [server |-> Need("server"),
                        trust_token |-> Maybe("text"), device_id |-> Maybe("text")]),
    error          |-> Described({"code", "msg"}),
    pong           |-> Counted({"ts"}),
    stream_started |-> Both([audio |-> Maybe("audio")], Both(
                        Described({"stream_id", "codec", "profile", "level", "pixel_format"}),
                        Counted({"width", "height", "fps", "bitrate_kbps",
                                 "keyframe_interval_frames", "started_at_unix_ms"}))),
    stream_stopped |-> Both(Described({"stream_id", "reason"}), [msg |-> Given("text")]),
    clipboard_text |-> Described({"text"}),
    file_transfer_accepted |-> IdAnd("dest_path"),
    file_transfer_complete |-> IdAnd("dest_path"),
    file_transfer_failed   |-> IdAnd("reason"),
    file_send_begin        |-> Both(IdAnd("name"), Counted({"size"})) ]

-----------------------------------------------------------------------------
(* Writing and reading *)

Optional(fields) == {f \in DOMAIN fields : fields[f].null}

\* The phone writes every field, those without a value as null
\* (encodeDefaults).  Mutated: it leaves out what has its default.
LeavesOut(fields) ==
    {[f \in DOMAIN fields \ N |-> fields[f].type] :
        N \in SUBSET {f \in DOMAIN fields : fields[f].lack}}
PhoneWrites(fields) ==
    {[f \in DOMAIN fields |-> IF f \in N THEN "null" ELSE fields[f].type] :
        N \in SUBSET Optional(fields)}

\* The PC leaves out what it has no value for.
PcWrites(fields) ==
    {[f \in DOMAIN fields \ N |-> fields[f].type] : N \in SUBSET Optional(fields)}

\* Both ends ignore fields they do not know (serde by default, the phone by
\* ignoreUnknownKeys).
Reads(fields, body) ==
    \A f \in DOMAIN fields :
        IF f \in DOMAIN body
        THEN body[f] = fields[f].type \/ (body[f] = "null" /\ fields[f].null)
        ELSE fields[f].lack
=============================================================================

# n3ds-remote-play: specifications and proofs

TLA+ modules for n3ds-remote-play: a server on a PC captures the screen,
encodes it and streams it over UDP to a Nintendo 3DS; a client on the 3DS shows
it and sends the state of its buttons and sticks back, which the server turns
into a virtual gamepad. TLC checks the models on small instances; TLAPS proves
every safety and action property that the passing runs check, for every value of
the constants or under the hypotheses named below. Liveness stays with TLC.

    tlc -workers 2 -config decoder.cfg MCRtpMpegDecoder
    tlapm RtpMpegDecoderProofs.tla

`PROJECT.json` names the module and the cfg of every run, the source lines of
every definition, and for every property a mutant of the code that breaks it.

## The system

| Part | State it keeps | Operations | Talks to |
| --- | --- | --- | --- |
| RTP reassembler, `common/src/rtp_mpeg.rs` | `in_flight`, `latest_seq`, `latest_completed_seq` | `decode` | called by the receive task's FramedRead |
| Capture, `server/src/video_capture.rs` | watch channel with the newest frame | capture thread `send`s | stream task |
| Stream task, `server/src/video_stream.rs` | `stopped_receiving_frames`, `sequence_number`, encoder | select loop, `send_mpeg_rtp_packet` | UDP socket, token of its connection |
| Input mapper, `server/src/input_mapper.rs` | `input_map`, a bounded and an unbounded queue | `register_input`, `remove_input`, `handle_packet`, guard drop | connections by queues, oneshot and watch |
| Connection task, `server/src/connection_task.rs` | its device, guard, receiver, stream handle | set-up, biased select, shutdown, drops | mapper, stream task, TCP |
| Server main, `server/src/main.rs` | task tracker, token | accept, Ctrl-C, wait | all tasks |
| Linux device, `virtual_device/linux.rs` | last input, C-stick range | `emit_input` | uinput |
| Windows device, `virtual_device/windows.rs` | C-stick range | `emit_input` | ViGEm |
| Receive task, `client/src/system_thread.rs`, `udp_async_reader.rs` | FramedRead's buffer, reassembler | read, decode, `try_send` | bounded channel to the main thread |
| Input sender, `client/src/system_thread.rs` | watch receiver | `send_inputs` | UDP |
| Client main loop, `client/src/client.rs` | TCP socket, channels, token | disconnect check, input scan, one packet per turn, join | both tasks |
| Input handler, `client/src/input_handler.rs` | last Circle Pad Pro report | scan, set-up of the Circle Pad Pro | watch channel |
| ffmpeg wrappers, start-up, thread spawning, CI | no control state of their own | | |

What is hard in it: UDP loses, repeats and reorders the fragments of packets
that are numbered modulo 2^16; two threads share the frame watch and its lock;
a biased select is not atomic, so other threads act between two of its polls;
cleanup depends on the order in which locals drop; a client may come back from
the same address while its former connection is being cleaned up; shutdown waits
for every task; and the two stick and D-pad conversions keep state between
inputs. `PROJECT.json` lists each hazard at its line with the properties that
would catch it.

What makes each part correct:

* reassembler: bounded memory, exact bookkeeping, only whole packets, in order;
* stream: no frame twice, stale or empty, fragments that tile, one number per
  packet, a new frame is not left waiting, cancellation ends it;
* video path: what is shown is an increasing subsequence of what was encoded;
* mapper: an address is leased to one connection, from registration to the drop
  of its guard, and a removal never hits a later registration;
* server: a stream only runs while its address is leased, everything acquired is
  released, a closed connection is cleaned up, and Ctrl-C ends it all;
* devices: what is written to them is what is held, and a stick keeps its direction.

## The modules

| Module | Models | Builds on |
| --- | --- | --- |
| `RtpSequence` | the sequence numbers of both ends | |
| `RtpMpegDecoder` | the reassembler; one action per way `decode` returns | `RtpSequence` |
| `RtpMpegDecoderProofs` | its theorems | `RtpMpegDecoder` |
| `VideoStream` | capture thread and stream task | `RtpSequence` |
| `VideoStreamProofs` | its theorems | `VideoStream` |
| `LossyStream` | abstract: packets shown in order, at most once, some missing | |
| `VideoPipeline` | stream task, network, FramedRead, reassembler, channel, main loop | extends `VideoStream` and `RtpMpegDecoder`, implements `LossyStream` |
| `VideoPipelineProofs` | its theorems | `VideoPipeline`, the theorems of both |
| `AddressLease` | abstract: each address leased to at most one connection | |
| `InputMapper` | the mapper task, poll by poll, and its interface | implements `AddressLease` |
| `InputMapperProofs` | its theorems | `InputMapper` |
| `RemotePlayServer` | main, connections, stream handles, clients | extends `InputMapper` and shows that it is used as it promises |
| `RemotePlayServerProofs` | its theorems | `RemotePlayServer`, `InputMapperProofs` |
| `Gamepad` | input states, scaling and calibration | |
| `UInputDevice`, `ViGEmDevice` | the two devices | `Gamepad` |
| `UInputDeviceProofs` | scaling a stick; theorems of the Linux device | `UInputDevice` |
| `VirtualDevices` | the device of the platform | both devices |
| `VirtualDevicesProofs` | theorems of both | `VirtualDevices`, `UInputDeviceProofs` |
| `Client` | the client's main thread, from the prompts to the join, and the tasks of its system thread | `Gamepad` |
| `InputPath` | the player's input, from the console through client, network and server to the device | `Client`, `UInputDevice` |
| `InputPathProofs` | its theorems | `InputPath`, `UInputDeviceProofs` |
| `MC...` | constants for TLC | |

How state and actions correspond to the code:

* **RtpMpegDecoder.** `in_flight`, `latest_seq` and `latest_completed_seq` are
  the fields; `decoded` is what the last call returned. The `Vec`s
  `frag_received` and `fragment_ranges` are sets of indices and of half-open
  ranges. u16 addition wraps (`AddWindow`), or panics where `OverflowChecks` is
  set, as in a debug build. A byte never written is `Zeroed`.
* **VideoStream.** `frame` and `unseen` are the watch channel; `pc` is where
  `run` stands between its awaits. `EncodeFrame` is the code from `has_changed`
  to the first send. The watch's read guard lives to the end of the loop body, so
  `CaptureFrame` is disabled while a frame is being sent. The encoder may return
  any few packets, empty ones included.
* **VideoPipeline.** `wire` is the network with the client's socket buffer.
  `ReceiveDatagram` is one `poll_read`, the `decode` it leads to, and the
  `try_send`. `spare` is the room left in FramedRead's buffer: `decode` splits
  off what was read with its capacity, and FramedRead reserves again only when
  nothing is left. Stream task and decoder are the modules themselves, so that
  what is proved of each is proved of it here; `PayloadAssumption` says that the
  bytes the stream sends are among those the decoder's datagrams may carry.
* **InputMapper.** `mapper` names the branch that `select!` polls next; each poll
  is an action, so that other threads act in between. A connection stands for its
  watch channel. `removals` is the unbounded queue that `Drop` fills.
* **RemotePlayServer.** `stage` is the point a connection's task has reached.
  The exits of its biased select (token, stream, TCP) are polled in one action,
  the events (input, timeout) in another. At the end of the task the guard, the
  receiver, the device and the socket go in the reverse order of their binding.
* **Client.** `main` is where the main thread stands: the prompts of `main.rs`
  and `client.rs`, the loops that set up the Circle Pad Pro (CPP), the main loop,
  the cancellation, the join. `send_task` is the branch that the select of
  `send_inputs` polls next; `input` and `input_changed` are the watch channel
  between the two threads. `Turn` is one turn of the main loop: the checks, the
  scan, the send; the turn's video packet is `Present` in `VideoPipeline`, with
  which it shares nothing but the thread. `cpp_packet` is the one packet that the
  ir:USER buffer holds, with its event. `wire` is a set of states, as datagrams
  carry neither number nor time. What the player does after the loop has stopped
  (`Watched`) is not read by anything.
* **InputPath.** The server's tasks are behind `conn`: they are those of
  `RemotePlayServer`. Each way it treats a datagram differently has one
  counterpart: delivered to the device, or lost, be it in the network, for want
  of a registration, or because the watch channel kept a later one. When the
  connection ends the device goes, and whatever was pressed on it is released.
* **Devices.** `pressed` and `axis` are the values last written to the uinput
  device. A game sees the axes through the kernel's filter, which smooths changes
  within `fuzz` (250, `linux.rs:60`); that is not modelled. `gamepad` is the last
  ViGEm report. f32 scaling is an exact quotient, truncated.

Definitions named `X_<mistake>` are mutants of `X`: plausible mistakes each of
which breaks the property it is listed with.

## The runs

| Run | Shows | Bounds |
| --- | --- | --- |
| `decoder` | type, window, bookkeeping, no hole in a completed packet, nothing finished stays, completion in order | numbers modulo 5, window 2 as in the code, packets of 1 or 3 bytes in 1 or 3 fragments, every fragment of them (overlapping, out of bounds, contradicting) and every malformed header |
| `video_stream` | the properties of the stream task, liveness included | 2 frames of up to 2 packets, lengths below, at and above multiples of the payload, 0 and too large, any send may fail |
| `pipeline_faults` | `ImplementsLossyStream` over a network that loses, duplicates and reorders; `OnlySuperseded`: honest packets are only given up for later ones | 3 packets of 1 or 2 fragments, 3 datagrams in the network |
| `pipeline_lossless` | without faults every packet sent is decoded (`LosslessDelivery`), and in the end shown, or dropped for a full channel (`SentIsShownOrDropped`) | same packets, 2 datagrams, cancellation at any moment |
| `pipeline_buffer` | truncated datagrams, a failing reader and a debug panic lose packets, none is damaged | buffer of 13 bytes, fragments of 4 or 5, so that a read may have room for part of a payload, none of it, or less than the RTP header (which ends the task) |
| `server` | mapper: lease, guard, no leak, no stale removal, every request answered, every registration ends; server: `UsesMapper`, stream within lease, clean exit, cleanup, shutdown | 2 connections from one address, queue of 1 |
| `input_path` | `HeldStateArrives`: what the player keeps holding (buttons and circle pad) comes to be shown and stays; `ExitChordNotPlayed`; `ClientExits`: a loop that has stopped for any reason, and one whose application, connection or send task is gone, leads to the end of the client | 3 states of the console (one holds A, which accepts the CPP and is then played; one B, which declines it, and the circle pad; one the exit chord), a CPP with one button and its stick at rest, 2 datagrams in the network |
| `virtual_devices` | buttons and circle pad add up from differences, no direction sticks, both sticks keep their direction through calibration | all sets of D-pad keys; C-stick at 0, below, inside and above the initial range |
| `seq_wrap`, `buffer_runs_out`, `dpad_reversal`, `no_circle_pad_pro` | the disagreements below | as above |

Why the bounds are enough. The window is 2, so three numbers reach every relation
of two packets (same, neighbour, evicted); numbers modulo 5 add the wrap of the
window sum. A byte is only ever copied, so one value of `Byte` suffices where
`Zeroed` is the other, and in the pipeline a byte is its packet and offset. Two
connections from one address show every overlap of an old and a new one; any
number of connections and addresses, and any bound of the queue, is what the
proofs cover. In `input_path` two datagrams are enough to overtake each other, and
a third state pushed out of the bound is one that the network has lost. The ranges of
the calibration have three parts on each axis, and the inputs visit each.

Deadlock is not checked (`CHECK_DEADLOCK FALSE`): every one of these systems
stops. A panicked reassembler is gone, the frames of a run are limited
(`MaxFrames`), a cancelled task, an exited mapper and a server that has shut down
do nothing more, a failed device is dropped. That nothing stops too early is what
the liveness properties say.

### Fairness

* `StreamSpec`, `PipelineSpec`: the stream task, the receive task and the main
  loop keep running: the timer of the select always fires again, UDP sends
  complete, the 1 ms interval polls the socket, the main loop turns once per
  vblank. Nothing is assumed of the screen, the network or the token.
* `MapperSpec`: the mapper is polled whenever it is woken.
* `ServerSpec`: the same for every task, and a cancelled stream ends, which
  `video_stream` shows (`StreamEnds`). Nothing is assumed of clients, of timeouts
  or of Ctrl-C.
* `PathSpec`: the client's main loop and the system thread run; a cancelled
  receive task ends, as `poll_read` wakes every millisecond and its select polls the
  token first; a CPP that was asked reports; the server notices a client that is
  gone. The network is fair but lossy: of the datagrams a client sends for ever,
  some reach the device (`SF` of `Reaches`, strong as the network may be empty in
  between). Nothing is assumed of the player, of the prompts or of the server's
  closing, and an application that is closed is noticed when `apt.main_loop`
  returns.

## What the runs found

1. **Sequence numbers wrap** (`seq_wrap`). The server counts modulo 2^16, the
   reassembler compares plain integers: it ignores every number at or below the
   last completed one, and for the last two numbers the window sum wraps as well.
   At 20 frames a second the picture freezes after about 55 minutes; a debug
   build panics.
2. **The read buffer runs out** (`buffer_runs_out`). About once per megabyte a
   datagram is read into less room than it needs and truncated.
   `pipeline_buffer` shows what it costs: a packet, never a damaged one; or the
   video, when what is left is shorter than an RTP header.
3. **D-pad reversal** (`dpad_reversal`). When DOWN is released and UP pressed
   between two states, the Linux hat is left at rest while UP is held.
4. **No Circle Pad Pro** (`no_circle_pad_pro`). The Windows device takes the
   (0, 0) of a client without a C-stick for a position in the corner.

One more is part of a property, not of a run of its own: after a failed send the
number of the packet given up is used again (`video_stream.rs:201-205`). Two
packets *sent whole* never share a number, which is what `OneNumberPerPacket`
says, and which does not speak of the packets given up. With `MaySendFail = TRUE`
in `pipeline_buffer.cfg` TLC violates `PacketsIntact`: the fragments of the two
meet in the reassembler, and packets of the same length are mixed.

## What is proved

### The reassembler

`RtpMpegDecoderProofs` proves, for every modulus, every window below it, both
kinds of build and every set of datagrams (`DecoderAssumption`), that the
reassembler keeps its invariants: `TypeCorrect`, `InWindow`, `Bounded`,
`AccountsExact`, `CompletedWhole`, `NoneLingers`, and the action property
`OrderedCompletion`.

None of these but the first is inductive alone. The inductive invariant `DecoderIInv`
joins them and adds what each needs of the others:

* the window of `in_flight` needs `TailNeverAssembled`: numbers whose window sum
  would wrap are never admitted, so the eviction compares true sums;
* that a completed packet has no hole follows by counting. Ranges accepted are
  disjoint and inside the buffer, so `received_bytes` is the number of bytes
  written (`CopyKeepsAccount`); when it equals `total_len` the written offsets are
  a subset of `0 .. total_len - 1` of the same size, hence all of it
  (`FullPacketHasNoHole`);
* completion in order needs that everything in `in_flight` is above the last
  completed number.

`DecoderNextIInv` has one step per outcome of `decode`; `AdmittedOK` and
`AssemblyStep` are what the outcomes past admission share.

### The stream task

`VideoStreamProofs` proves, for every size of a payload, every set of lengths and
every number of frames and packets, with sends that may fail: `StreamWellFormed`;
that the placeholder the watch channel starts with is never encoded
(`NoEmptyFrame`) and frames are encoded in the order of their capture
(`FramesMoveOn`); that the fragments of a packet sent whole tile it
(`PacketsTiled`); and, until the numbers wrap, that a number is one packet's
(`NumbersIdentify`). After the wrap it is not, and should not be.

`StreamInv` has three parts. `FrameFresh`: a frame that counts as new is a captured
one that has not been encoded, which takes both what `has_changed` reads and what
`borrow_and_update` marks. `Numbering`: packets are numbered on, so that the one
under way has an identity no datagram had before its first fragment. `Labelled`
and `Tiled`: a datagram is a fragment of a packet sent whole, of the one under way
or of one given up, and every fragment of a packet sent whole is out, once.

### The video path

`VideoPipelineProofs` composes the two. All its theorems assume `~MaySendFail`
(after a failed send the number of a packet given up is used again, see above)
and speak of states in which the numbers have not wrapped (`NumbersFresh`; after
that the path is what `seq_wrap` shows):

* `DecodedIntact`: what the decoder returns is byte for byte a packet that was
  sent, over a network that loses, repeats, reorders and, by way of the read
  buffer, cuts datagrams;
* `StreamImplemented`: the path implements `LossyStream`; every step maps to a
  step of it or to a stutter;
* `FragmentsNotWasted`: a packet under assembly is given up only for a later one.
  This needs datagrams that are read whole (`BufferFits`): a truncated fragment
  covers a range that its successor does not continue, which `buffer_runs_out`
  shows to happen;
* `EverythingDelivered`: where moreover the network does nothing to the datagrams
  (`Lossless`), every packet sent is decoded, as long as a whole window of numbers is
  left (`NumbersSpare`: the last numbers before the wrap are refused).

`PipelineInv` joins the invariants of the two ends by `EntryHonest`: whatever is
under assembly for a number holds bytes of the one packet that was sent under it,
where that packet has them, from fragments that were sent. A completed packet has no
hole (`CompletedWhole`), so it is that packet. `InOrder` adds that what leaves the
decoder and the channel keeps the order of production. `RoomInv` (the ranges under
assembly are those of the fragments received) and `LosslessInv` (the wire is a
chain of successive fragments that begins with the one the decoder waits for) are
what the last two theorems need besides.

### The input mapper

`InputMapperProofs` proves, for any connections, addresses and bound of the queue
(`MapperAssumption`), `TypeCorrect`, `GuardsHold`, `NothingLeaks` and
`NoRemovalIsStale`, and that the mapper implements `AddressLease`
(`Implementation`). The three invariants need each other and four facts more:

* `Requests`: a request waits once and is answered once;
* `Entries`: an entry belongs to a registered connection of its address;
* `RemovalsFirst`, the reason why the biased select is safe although other
  threads act between two of its polls: after the poll of the removals has found
  none and before that of the registrations, a guard may drop and queue a removal.
  It does so for an entry that is still there, so a registration for the same
  address is refused, and the removal cannot hit a later one;
* `NothingLeft`: a mapper that has returned keeps nothing.

For the lease, `LeaseStep` maps every step to taking, ending or closing leases, or
to a stutter.

### The server

`RemotePlayServerProofs` proves that every step of the server is a step of the
mapper's contract or leaves the mapper alone (`MapperUsedAsPromised`; what takes an
argument is that a task drops its guard before its receiver), so that what
is proved of the mapper holds in the server (`ServerKeepsMapper`,
`ServerLeases`); that video runs only while its address is leased and its socket
open (`StreamWithinLease`); and that nothing is left after the shutdown
(`ExitIsClean`). `SInv` adds to the mapper's invariant what a connection holds at
each stage of its task: `Holdings` (request, guard, receiver), `Streams` (a stream
runs from its spawn to its join, on a socket that is open) and `Finished` (`main` is
done when all tasks are).

### The devices

`UInputDeviceProofs` proves, for every set of keys, every size of the axes and every
sequence of input states, also across writes that fail, that the differences add up
(`DifferencesAddUp`), that no direction sticks (`DirectionsReleased`), that the right
stick stays between the limits the device declares (`DeviceWellFormed`) and that it
never moves against the C-stick, not even in the step that recalibrates
(`RightStickFollows`). `VirtualDevicesProofs` carries this over to the device a
server picks (`LinuxDeviceSafe`) and proves the last of the Windows device, too
(`ThumbFollows`).

For the sticks the invariant says that the axis shows the last position on the
*present* scale (`StickInv`, `ThumbInv`) and that the calibrated range never gets
smaller than the first guess, so that nothing divides by zero and no `u16`
subtraction wraps. A value inside the range keeps its scale, and scaling keeps the
order (`StickKeepsOrder`); one outside widens the range and is shown at the limit,
which no position exceeds (`StickOnAxis`, `StickEnds`). The products and quotients
are not linear arithmetic: `Quotient` to `Numerators` are the facts about them.

### The input path

`InputPathProofs` proves the safety that `input_path` checks: the client's tasks
live from the start of its loop to the join (`ClientTypeCorrect`), and the chord
that ends the client is never played (`ChordStaysOnConsole`). For the second,
`OnTheWay` says that neither the watch channel nor a datagram nor the device ever
has a state with the chord: `Turn` sends none, the CPP has neither of the two keys
(`CombinedPlayable`), and the device shows the last state it was given.

### Only model-checked

Liveness under fairness, which is out of the prover's reach, as is ENABLED:
`FrameEventuallyEncoded`, `StreamEnds`, `SentIsShownOrDropped`, `RequestsAnswered`,
`RegistrationEnds`, `ClosedIsCleanedUp`, `ShutdownCompletes`, `HeldStateArrives` and
`ClientExits`. No module uses RECURSIVE.

## Not modelled

* ffmpeg's encoder and decoder (`mpeg_encoder.rs`, `mpeg_decoder.rs`): external
  transformations. Of the encoder there is what its caller depends on: a frame
  yields any few packets, or an error.
* `thread_spawning.rs`, the services that the client's `main.rs` starts, build
  scripts: calls of the platform.
* Time: timeouts and ticks are choices that may be taken whenever the code is
  waiting for them. That a player who takes longer than 30 s over the CPP's prompt
  is disconnected is visible (`ServerCloses` before the loop begins, after which
  the client ends: `ClientExits`); how two streams share the one worker is not.
* A CPP that falls silent: the client goes on sending its last report, so that a
  button held on it stays held. The code has nothing against it; `Held` is defined
  accordingly.
* Key presses that answer a prompt are still held when the main loop begins and
  are sent like any other. No document says otherwise, and no property does.

## Plan

1. Done: the models of every part; proofs of every safety and action property of the
   passing runs.
2. Open: what holds of the video path after a failed send (which packets can be
   mixed) and past the wrap of the numbers; the ways of the client that lie behind
   the liveness properties, as invariants (what holds while a task waits).

# A verification project for hkontroller

hkontroller is a Go library with which an application controls HomeKit
accessories: it discovers them by mDNS, pairs with them (pair-setup), opens an
encrypted session (pair-verify) and then reads, writes and subscribes to
characteristics over HTTP.  This directory holds TLA+ models of the library,
the TLC runs that check them and TLAPS proofs about them.  All paths below are
relative to `src/`.

## 1. The system

| Component | State | Operations | Interacts with |
|---|---|---|---|
| Request exchange (`device.go`, `conn.go`) | the `roundTripper` mutex; per connection the channels `response` and `resError`, `wantResponse`, `inBackground`, `closed`, `backgroundStop` | `doRequest`/`doPost`/`doGet`, `RoundTrip`, `conn.Write`, `conn.Read`, `conn.loop` | the accessory over one TCP stream; `Device.close` |
| Device life cycle (`device.go`, `controller-pair-setup.go`, `controller-pair-verify.go`) | `discovered`, `paired`, `verified`, `cc`, `httpc`, `closeReason`, none of them under a lock | `connect`, `close`, `PairSetup`, `PairVerify`, `startBackgroundRead` | application goroutines, the mDNS goroutine, one background goroutine per session |
| Encrypted transport (`session.go`, `conn.go`) | two frame counters, `readBuf`, `bufReader` | `Encrypt`, `Decrypt`, `conn.Read`, `conn.Write` | the loop and the callers |
| Event transformer (`conn.go`) | what it has read and replaced | `Read` | `conn.loop` |
| Controller registry (`controller.go`) | `devices` by name under `mu`, the store, discovery | `StartDiscovery`, `putDevice` and its three handlers, `LoadPairings`, the queries | mDNS, `Device` events, the store |
| Handshakes (`controller-pair-setup.go`, `controller-pair-verify.go`, `pair-setup-client-session.go`) | SRP and key material | M1 to M6, M1 to M4 | the accessory |
| Pairing management (`controller-pair-add.go`, `-list.go`, `-remove.go`) | none | `PairAdd`, `ListPairings`, `PairRemove`, `Unpair` | the accessory, the registry's handlers |
| Accessory access, subscriptions (`device.go`) | `accs`, the event emitter's listeners | `GetAccessories`, `GetCharacteristic`, `PutCharacteristic`, `Subscribe*`, `Unsubscribe*`, `onEvent` | the request exchange |
| Pairing store (`store.go`, `fs.go`, `mem_store.go`) | files or a map | `Set`, `Get`, `Delete`, `KeysWithSuffix` | the file system |
| TLV8 codec (`tlv8/`) | none | `Marshal`, `Unmarshal` | the handshakes |
| Dialling (`conn.go`) | none | `dialServiceInstance` | the network |

The behaviours that are hard to test, each at its line, are the `hazards` of
`PROJECT.json`.  They are of three kinds: goroutines that share the fields of a
`Device` and of a `conn` without a lock (timeouts, background reads, closes that
run late), boundaries of the encoded stream (frames of exactly 1024 bytes,
buffers that are filled exactly, integers of eight bytes), and partial failures
(a pairing that only one side stores, a file half written).

What makes each component correct:

- *Request exchange*: a call returns the response to its own request, or an
  error; no call waits for ever; the program does not crash.
- *Device life cycle*: the flags tell the truth about the connection; one reader
  per connection; no socket is leaked; a lost connection is noticed.
- *Encrypted transport*: both sides use each nonce once and in order; the bytes
  read are a prefix of the bytes sent, and all of them are delivered.
- *Registry and store*: the saved pairings are those of the paired devices, and
  the registry holds every device that is discovered or paired.
- *Codec and store operations*: what is written is what is read back.

## 2. The modules

| Module | What it is |
|---|---|
| `RoundTrip` | the request exchange over one connection, with `Device.close` |
| `Device` | the life of a device over successive connections |
| `Handshake` | pair-setup and pair-verify, message by message, with symbolic keys |
| `ByteStream` | what `conn` promises to the HTTP layer: a stream of bytes |
| `Session` | one direction of an encrypted connection, which implements it |
| `Reader` | how the loop takes events and responses out of that stream |
| `Events` | accessories, characteristics, subscriptions and the listeners |
| `Controller` | the registry of devices and the saved pairings, over restarts |
| `KeyValue` | what a store of pairings promises |
| `FileStore` | `fsStore`, file by file, which implements it |
| `Storer` | what the controller does with its store (extends `FileStore`) |
| `TlvItems` | the items of TLV8: how a value is written as items, how they are read |
| `Tlv8` | the TLV8 codec of structs, as operators (extends `TlvItems`) |
| `Listing` | the list of pairings: how it is written, and `ListPairings` item by item |
| `Messages` | what the other side makes of a struct, beside lists of pairings |
| `RoundTripProofs`, `DeviceProofs`, `PairingProofs`, `SessionProofs`, `ReaderProofs`, `EventsProofs`, `ControllerProofs`, `StoreProofs` | the theorems about each (`StoreProofs`: about `FileStore` and `Storer`; `PairingProofs`: about `Handshake` and `Listing`) |
| `MCRoundTrip`, `MCDevice`, `MCHandshake`, `MCSession`, `MCReader`, `MCEvents`, `MCController`, `MCStorer`, `MCMessages` | their instances for TLC |

The modules meet where one takes the outcome of another for a step: `Device` takes
an exchange (`RoundTrip`) and a handshake (`Handshake`) as outcomes, `Reader` reads
the chunks that `Session` delivers, `Events` takes the exchange as one step that
owns the mutex and the messages as `Reader` hands them over, `Controller` takes a
handshake as an outcome and a call of the store as one step, and `Storer` makes those
calls step by step.

### RoundTrip

The model begins when `Device.connect` returns.  A request is its serial number
on the stream and a response is the number of the request it answers; the
counters `sent`, `answered` and `taken` stand for the stream.  `pc[c]` is the
place of caller `c` in `doRequest` and `RoundTrip`, `loop` that of the
background goroutine in `conn.loop`, `closer[k]` that of a goroutine in
`Device.close` (`"app"`, or `"bg"` after the loop).  Statements are one step when
no other goroutine can tell: the test of `wantResponse` and the send on the
channel are therefore two steps (`LoopCheck`, `LoopOffer`), `wantResponse = false`
and the closing of the channels are two (`Leave`, `Shut`), and the four statements
of `Device.close` are four.  A dereference of a nil `d.cc` and a send on a closed
channel are outcomes (`panic`) after which nothing moves.

`close(r.d.cc.response)` as the deferred call evaluates its argument when it is
deferred, `r.d.cc.wantResponse = false` when the function returns: `Leave` is the
step that can meet a nil connection.

The environment may break the connection at any time, lose responses that were
not read, leave half a response on the stream, send events, and answer late.
Time is abstract: a deadline may expire whenever its caller waits.

Abstractions: `conn.Read` of an encrypted connection returns one message per
call, so that no bytes of the next message are left in a reader that is thrown
away; a caller that reads the connection itself reads the body with the head;
PairVerify ends (`Upgrade`) while no request is on its way, because the only calls
an application has before are those of the handshake itself
(`GetAccessories` refuses to run earlier).

### Device

One application goroutine runs `PairSetup`, `PairVerify` and `Close`, the mDNS
goroutine runs the callbacks of `StartDiscoveryWithContext`, and each completed
PairVerify spawns a background goroutine (`Loops`).  Every one of them may be
inside `Device.close`, in the steps `shut`, `await`, `wait`, `drop`, `clear`; `own[t]` is the
connection it began with, and `overran` records that a goroutine acted on another
one.  A request is one exchange with an outcome, served or not
(`RoundTrip` models its inside, and `Handshake` what the messages say); the accessory
keeps whether it is paired, and drops its connections when it forgets.

Each evaluation of a field that another goroutine may clear is a step of its own.
`connect` tests `d.dnssdBrowseEntry` (`Dial`) and evaluates it again for the dial
(`Lookup`); `rmvFn` clears `discovered` and then the entry (`Lost`, `SetDnssdEntry`).
PairVerify ends in three steps: `Upgrade` is `d.cc.UpgradeEnc`, `VerifyDone` is
`d.verified = true`, `StartBackgroundRead` spawns the goroutine.  A close from mDNS, or
from the background goroutine of an earlier connection, may run between any two of them.

History variables: `established` (the last PairVerify returned nil on a connection
that was alive, and since then neither side, nor mDNS, nor the application has ended
it), `undone` (`d.cc` was nil when PairVerify last set `verified`).

### Session and ByteStream

One direction of the connection.  The sender is `conn.Write`: `Write` takes the bytes
and cuts them in packets, `Seal` and `Count` are the two halves of a turn of `Encrypt`'s
loop (a packet is sealed under `encryptCount`, then it is counted), `Send` is the write to
the socket.  Nothing locks the counter or the socket.  What keeps callers apart is
the mutex of their roundTripper, held from `Lock` to `Unlock`, for a request of one or
more Writes; `Of[w]` is the roundTripper of `w`.  `connect` makes a new one for each
connection (device.go:273), and a caller that waits for the mutex of an old one writes,
when it gets it, to the `d.cc` of the day.  So there are several mutexes, and `crossed`
records that Writes under two of them have overlapped.

The receiver is `conn.Read` with `Decrypt` inside: `StartRead`, one `OpenFrame` for each
frame, `EndOfStream` or `ReadError`, and `Take`, the copy into the caller's buffer with the
`io.EOF` that `bytes.Buffer` reports only once it is empty.  After a copy that filled the
caller's buffer with the last bytes, `readBuf` is empty and not nil, and the next Read says
`io.EOF` in the middle of the stream (`filled`).

The answer to PairVerify's M3 is read through a `bufio.Reader` of its own
(device.go:99), which may swallow what comes behind it: an event that the accessory
sends at once is lost with its number.  `missed` of `Early` frames are lost so; only
whole frames, because half a frame would end the session with its first Read.

The accessory is the other end of either direction, with the same framing.  A byte
is its position in the stream and encryption is symbolic: a frame opens under its own
nonce.  The stream ends in two ways: `Break` (the other end or the network) loses any
suffix of the frames on their way, the first lost one perhaps halfway; `Close`
(here) leaves what `bufReader` already holds, which can still be opened.

`ByteStream` is the promise: what is read is a prefix of what was written, each
byte once and in order, until the numbering is spoiled.  `Implements` says that `Session`
keeps it, packets, buffers, errors and breaks included; `written` and `read` are the
mapping, and `spoiled` is `Spoiled`, that is, `crossed` or frames missed.

### Controller

`putDevice` starts three goroutines for each `Device` object; `saver[d]`,
`deleter[d]` and `remover[d]` are their places between taking an event and
waiting for the next one.  `Emitted` is `Device.emit`: the event goes to the
goroutine if it waits for one, is discarded after `emitTimeout` if it does not, and
goes nowhere once `offAllTopics` has run; `missed` records the last two.  `FoundGet`
to `FoundMark` are `addFn`, which looks into `c.devices` three times, `LostGet` to
`LostClose` are `rmvFn`.  `c.mu` is held across steps only by the unpaired handler,
which closes the device under it (`locked`); elsewhere the access is one step.

The store is the set of pairings in it (`saved`), `held` is the accessory's side,
and `Restart` forgets everything else.  A device's own handshake and connection
are reduced to outcomes: `PairSetup` begins on a discovered device and ends, well or
not, whenever it likes; `verified` stands for the connection that `PairRemove`
needs.  A pairing with a device whose `pairing` was wiped before it was saved is
`"blank"`: it is stored under its own key and loaded as a device of its own.

History variables name the causes: `failed` (the application was told, or stopped
the program in an operation), `hurried` (an operation began before the goroutines
of the one before had finished), `missed`, `replaced` (a second object for a device).
Each property excludes exactly the causes that break it.

### TlvItems, Tlv8, Listing and Messages

`TlvItems` and `Tlv8` are the codec down to the byte: `WriteBytes` cuts a value in items
of `MaxItem` bytes, `Scan` takes a message apart, `Add` collects the items by tag,
`Decode` takes the values out again, field by field.  Of `binary.Read` the model keeps
the difference between `io.EOF` (nothing was there) and `io.ErrUnexpectedEOF`, because
`decode` takes the first for a field that is missing (`Missing`).  Structs are described
by their fields (tag, kind, value), so that a struct is its own target type; reflection
is left out, and so are slices at the top level, which the library never
marshals.  The `RECURSIVE` operators of `Tlv8` follow the nesting of structs; nothing is
proved about that module, and what the proofs need is in `TlvItems`.

`ListPairings` does not use the codec: it has a loop of its own over the body of the
answer, with the same `binary.Read`.  In `Listing` one pass of the loop is one action:
`Separator`, `ReadItem`, and the two ways out, `EndOfList` and `TornItem`; `ReceiveList` is
what comes before the loop.  `at` is how far the body has been read, `pp` and `result`
are the variables of the function.  The accessory is external: it writes its state,
then a pairing at a time, or refuses (`Refuse`), and the answer may end anywhere
(`CutOff`): an accessory that stops short of its list is not told from one that has
less to say.

In `Messages` a struct is written, its fields in any order, perhaps cut off, and read;
the lists of `Listing` are the other kind of message.  `Lossless` names what the format
does not keep; each of its cases has been found necessary by dropping it.

### Handshake

One `Device` and its accessory, and several goroutines of the application in
`PairSetup` and `PairVerify`.  `pc[u]` is the message a caller is about to send
(`setup1`, `setup3`, `setup5`, `verify1`, `verify3`), `dial` when it has to connect, and
`setupDone`, `verifyDone` and `verifyFlag` for what is left to do after the last answer.  A request
with its answer is one step, because the mutex of the roundTripper keeps requests
apart: `Exchange` when the answer comes, `AnswerLost` when the accessory has acted
and the connection ends first, `Refused` for another status, `RefusedUnseen` for one
that `PairVerify` does not notice, and `Unreached` when the two ends do not encrypt
alike.  `d.pairing` is set before `d.paired`; after M4 come `UpgradeEnc` and then
`verified` (`VerifyDone`).  Each is a step, and another goroutine can come between any
two.  `Device.close` is one step here; `Device` has its steps, and closes that run late.

Cryptography is symbolic.  SRP and Curve25519 keys are fresh for each call, so that
the number of the call (`run`) stands for them; the accessory remembers the call
whose M1 it answered last (`setup`, `verify`), and a proof is right if it is made in
the same call, with the right pin.  The accessory's long-term key is `identity`,
which a reset changes.  `Unpair` is part of `Controller`.

History variables name the exceptions: `lost` (an answer to M5), `silent` (M3
refused on this connection without a TLV error; `PairVerify` does not look at the
status), `crowded` (two calls at a time since the connection was made), `undone` (a
close came between `UpgradeEnc` and `verified`).

### Reader

The loop peeks five bytes of `rd`; a response is read from there, an event from a
second `bufio.Reader`, `rb`, over the `eventTransformer`, which replaces `EVENT` by
`HTTP` and afterwards takes from `rd`.  A message is a sequence of pieces (first line,
other headers, body); a chunk is what one `Decrypt` returns, wherever the accessory
cuts the stream; `Size` is what a buffer holds.  `Transform` is `eventTransformer.Read`:
the second and every later call returns four bytes that nobody has written (`Junk`)
before what it copies.  `Fill` is `conn.Read`, which returns one chunk at most, into the
buffer of a `bufio.Reader` or, for the body of a response, into the slice of `io.ReadAll`
behind it (`Rooms`).  If a chunk fills that to the last piece, `readBuf` stays, empty and
not nil (`filled`), and the next `conn.Read` says `io.EOF`.  `Misled` is what becomes of
that: the loop returns from `Peek`, drops the line or the response that it is reading,
or takes an event for shorter than it is.

`clean` says that every event came in a chunk of its own that fits in the buffer, and
that no `conn.Read` has said such an `io.EOF`.  Without the first, `rb` is dropped with
bytes of the next message in it, or an event is spoiled by `Junk`; `PeekOther` is
`http.ReadResponse` on what remains.  `Content-Length`
is there and right; chunked bodies are left out.

### Events

Users are goroutines of the application.  Each is in one call at a time (`place`,
`job`): the request (`Ask`), the answer (`Deliver`), what the call does with it (`End`).
A user has at most one event channel, of a `topic`, and reads it while it is in no
call.  `OnEvent` stores the value and sets `left`, the listeners that the loop waits
for; a listener that is in a call is waited for until `emitTimeout` (`Discard`).
`Payload` is `getEventPutPayloadForAccessory` with what it finds in `d.accs`, for an
unsubscription the characteristics of *all* accessories (device.go:683).

History variables: `cut` (unsubscriptions and closes since a subscription was sure
of its events), `deaf` (a channel was opened across one, or for accessories that
`d.accs` does not hold), `late` (a call has timed out: answers are shifted, which is
`RoundTrip`'s subject), `told` (the last values in an event, or in a list that a
`GetAccessories` got) and `overtaken` for the cache.  A list that comes when nobody waits,
or that another call gets, and the values that `GetCharacteristic` reads never reach
`d.accs` (device.go:385-404), and `told` leaves them out.

Abstractions: a request and what the accessory does with it are one step, the
response comes later; the test of `Listeners` and the `Off` of one channel are one
step; a user that is in no call reads its channel at once; the requests of
Subscribe and Unsubscribe carry no deadline, as in the code; `Close` is one step
(`RoundTrip` has the steps of an exchange, `Device` those of a close); the emitter's own
mutex is external; what `GetCharacteristic` returns is not followed; an error of
`Unsubscribe` is ignored, as the code ignores its status.

A call that waits when its connection ends is `gone`: it stays in `select` until its
deadline, if it has one, and then its deferred assignment clears `wantResponse` of the
connection that `d.cc` is by then (`Return`), so that the response of whoever waits there
finds nobody.  Without a connection the assignment is a nil dereference, which is
`RoundTrip`'s (`NilDeref`); `Return` waits for the next one.

### KeyValue, FileStore and Storer

`KeyValue` is what `store.go` lets one expect of `Set`, `Get` and `Delete` as far as
`fsStore` keeps it: each key is a safe register.  A call that no other change of its
key crosses takes effect at once, between its beginning and its return; a `Get` that is
crossed may return anything; a `Set` that is crossed, or that is shorter than what was
there, may leave an entry that nobody can read.  Calls on other keys never disturb.

`FileStore` is `fsStore` one call of the operating system at a time: `SetOpen` creates
the file but does not truncate it, `SetWrite` writes over it, `GetOpen` and `GetRead`
read it 32 bytes at a time, `DeleteFile` unlinks it while others may have it open
(`data` is by inode).  A value is a sequence of pieces of 32 bytes; `Decode` is
`json.Unmarshal`.  Any call may fail (`Fault`), a write halfway; the program may end
in any of them (`Crash`).  A write of the operating system is one step, and what a
power failure loses is not modelled.  `Implements` is the refinement: the entry of a key
is what a `Get` alone would return.

`Storer` runs the controller on top: `NewController` reads its key pair and, on *any*
error, makes another and saves it; the goroutines of `putDevice` save and delete
pairings beside `LoadPairings`, which lists the directory and reads file after file.
`known` is what the last change of a key has left there, `Broken` when it was
crossed, cut off or a shortening; `used` are the key pairs that controllers had.
Each of its steps is a step of `FileStore` or leaves its variables alone, which TLC
checks with `Implements` under `StorerSpec`.

## 3. The runs

| Run | Specification and bounds | Shows |
|---|---|---|
| `round_trip` | `FairSpec`; callers `a` (with a deadline) and `b` (without); 3 requests, 1 event | who gets which response, `PanicNeedsAbandon`, `CallReturns`, `CloseReturns` |
| `stale_response` | 3 requests, none before the session | a violation of conn.go:153 (see 5) |
| `device` | `Spec`; two operations, two background goroutines (symmetric), two appearances in mDNS | what the fields say between operations |
| `device_live` | `FairSpec`; one appearance | `LossNoticed` |
| `handshake` | `Spec`; 2 callers (symmetric), 5 calls, 2 resets, 3 faults | `Agreed`, `SameKey` |
| `session` | `FairSpec`; two writers on one roundTripper and one on another, packets of 2 bytes, Writes of 2 and 3, buffers of 1 and 3, 5 bytes, no frame or one missed | `NoncesAgree`, `EofWhenEnded`, `Implements`, `Delivered` |
| `reader` | `FairSpec`; 3 messages of 2 or 5 pieces, 10 pieces together, buffers of 3 | `NothingLost`, `ResponsesWhole`, `AllRead` |
| `events` | `FairSpec`; 2 users, 2 accessories of one characteristic, 3 calls, 1 change, 1 fault | `Served`, `CacheInOrder`, `WaitEnds` |
| `controller` | `Spec`; 2 objects, found twice, 3 operations, 1 restart, 5 of these together | what registry, store and accessory say of each other |
| `controller_listed` | 1 object, 1 operation | a violation of controller.go:202 |
| `store` | `StorerSpec`; 3 goroutines, the key pair and one pairing, two key pairs, a short and a long pairing; 2 starts, 2 saves or deletions, 1 listing, 1 error | `OneIdentity`, `LoadsKnown`, `Implements` |
| `messages` | `Spec`; bytes of 2 bits, items of 8 bytes; 412 structs and 81 lists | what comes back of a message, whole or cut off |

Why the bounds are enough:

- *Exchange.*  Two callers and three requests let one caller time out, the other
  take the stale response, and the first come back; a third caller would only
  stand in the queue of the mutex.
- *Device.*  Two operations give two connections and two background goroutines, the
  least with which a goroutine of the past meets a connection of the present; two
  appearances let mDNS lose a device and find it again while the close of the loss
  still runs.
- *Handshake.*  Five calls hold a setup and a verification, a reset, and the same
  again with a call of another goroutine in the middle; two resets make a pairing
  that is two identities old.
- *Session.*  A Write of 2 bytes is one full packet, one of 3 a full and a short one;
  five bytes are one Write of each, in either order and by any two writers, or two of
  the first.  Buffers of 1 and 3 are shorter than, as long as and longer than what is
  left.  Two writers of one roundTripper compete for its mutex, and the third is the
  least with which Writes overlap.
- *Reader.*  Messages shorter and longer than a buffer, cut into chunks everywhere;
  a body of three pieces behind two others is the least that `io.ReadAll` reads past a
  buffer, three messages are the least in which one lies between two others, and ten
  pieces let two be long, or all three short or one of them long.
- *Events.*  Two accessories are the least in which an unsubscription from one can
  disable the other; two users and three calls let a subscription, an
  unsubscription and a third call overlap.  One fault is a refusal, a timeout or a
  lost connection with a new PairVerify.
- *Controller.*  Two `Device` objects are the least with which a deletion by name meets
  the wrong object; three operations are a setup, an unpairing and a setup again,
  or the two and a load, while PairVerify is not counted.
- *Store.*  A pairing of one and one of two buffers are the least with which a file can
  be shortened and read in parts; two starts and two key pairs, that an identity
  can be lost.
- *Messages.*  Bytes of two bits keep all widths of integers within TLC's own; the
  values are those around each power of the base.  Items of eight bytes are the least
  that hold every integer, as 255 do; strings of 0, 7, 8, 9, 16 and 17 bytes take no
  item, part of one, one, two and three.  Slices of two and three elements are the
  least in which one is neither the first nor the last of its tag.

`CHECK_DEADLOCK FALSE` is used where the system may stop: all requests made, the
connection gone, or the program dead.

Properties that speak of `overran`, `abandoned`, `crowded`, `undone`, `crossed`, `cut`,
`missed` and the like name their exception: they say what goes wrong *only* through that
race, and do not catch the race.  `hazards` in `PROJECT.json` lists a property only where
it would catch the hazard, and has a note where a property exempts it.  That the
race itself is possible is shown by the run that expects a violation, where a
comment of the code says otherwise, and else told in section 5.

**Fairness.**  The Go scheduler runs every goroutine that can run, so each step
inside the library is weakly fair, timers included.  `sync.Mutex` hands itself to
a waiter that has starved for a millisecond, so `Acquire` is strongly fair.
In `Device` the background goroutines, the closes, and the last step of PairVerify
(`StartBackgroundRead`) run.  In `Session` the receiving goroutine keeps reading, as
`conn.loop` does, until it is told `io.EOF`, at which the loop returns (`ReadOn`), and a
writer in a Write goes on with it (`Seal`, `Count`, `Send`); in `Reader` the loop runs
(`Loop`).  In `Events` the loop (`Deliver`, `OnEvent`, `Close`) and the timer of the
emitter (`Discard`) run, and an application reads its channel when it is in no call
(`Take`); the answer of the accessory is already on the stream there, so nothing is
asked of it.  Nothing is asked of the accessory, of the network, of mDNS or of the
application elsewhere: they may stop at any time.

## 4. The proofs

All theorems hold for every value of the constants that satisfies the named
assumption of the module.

`RoundTripProofs` (from `CallersAssumption` and `BoundsAssumption`): `TypeOK`,
`FlagMeansOpen`, `Correlated`, `InOrder` and `PanicNeedsAbandon` are invariants.  None
of them is inductive alone.  `IndInv` adds:

- `MutexInv`: a caller is inside the exchange exactly when it holds `mu`;
- `FlagInv`: `FlagMeansOpen`, and where the holder is when the flag is down;
- `SerialInv`: `taken <= answered <= sent`, and the numbers of requests and
  responses lie within them;
- `HandInv`: the response the loop carries is the last one taken, and no caller
  has returned it;
- `OwnerInv`: the channel the loop is blocked on is that of the holder;
- `OrderInv`: until a caller gives up, every request before the holder's was
  answered to its caller, so that the next response is the holder's.

The proof has one lemma per part (`MutexStep`, `FlagStep`, ...) and in each one step
per action.

`SessionProofs` (from `SessionAssumption`): `TypeOK`, `NoncesAgree`, `EofWhenEnded`, that
a frame fails to open only if frames were missed at the start or Writes under two
mutexes have overlapped (`FailureExplained`), and that `Session` implements `ByteStream`
(`Refinement`).  session.go:115 wonders at a decryption that is off by one when
there are events; the theorem says that these two ways are all there are.  An event
behind the answer to M3 is the first of them.

`NoncesAgree` speaks of the frames on the wire.  Its invariant says that a mutex has
one holder (`MutexInv`), so that one goroutine at most is in a Write until two have
overlapped (`AloneInv`); that the frames it has sealed carry the last numbers
(`SealInv`); and that no number was skipped (`CountInv`: while nothing is lost,
`encryptCount` is `decryptCount` plus the frames missed and those between).  The refinement
needs to know of the bytes what these say of the numbers, unless they are spoiled
(`StreamInv`): a byte is its position, and what was read, what `Decrypt` and the buffer of
`conn` hold, the frames on the wire and those a writer has still to send are runs of
positions, each from where the one before it ends (`ReadInv`, `WireInv`, `PendInv`),
without a gap while the connection is up (`EndInv`).  A step of `Take` then reads the next
bytes of the abstract stream, and every other step but a Write is a stutter.
`EofWhenEnded` is an action property: Read says `io.EOF` when the stream has ended and all
is read, or after a Read that took the last bytes into a full buffer (`filled`); `EofInv`
says when a buffer may be empty and not nil.

`ReaderProofs` (from `ReaderAssumption`): `TypeOK`, `NothingLost` and `ResponsesWhole`, for
any lengths of messages, any cuts of them into chunks and any buffer.  Pieces on their
way are not put together into one sequence: each has a position in the stream
(`Offsets` gives the first of each message), and the invariant says of every buffer and
chunk that it holds the run of positions that begins where the one before it ends
(`Unread`), of what was handed over that it begins earlier, in order (`Taken`), and of
the message that is being read which part of it there is (`Responding`, `Receiving`).
That is enough for `ResponsesWhole`, whatever events do to each other.  For `NothingLost`
`InTurn` adds what holds while the history is `clean`, events tidy and no `io.EOF` before
the end: the chunks on their way are cut so that
an event is alone in its chunk (`Neat`), and every message before the one that is being
read was handed over (`Whole`).  Only at the end are the runs put together:
there is one run between two positions (`RunEqual`), and all that there is runs from the
first to the last position, as do the messages.

That `FlattenSeq` of runs is a run goes by induction.  The induction theorems of the
library take an operator as a parameter, which the provers cannot instantiate; the
lemma `Induction` of `ReaderProofs` takes a set of numbers, and follows from the
well-foundedness of `<` on them by the least counterexample.

`ControllerProofs` (from `BoundsAssumption`): `TypeOK`, `RegistryClean`, `StoreAgrees` and
`HeldIsSaved`, for any number of objects, reports, operations and restarts.
`RegistryClean` speaks of quiet states only; `CleanInv` says of every state who is still
to act for a listed device that is neither paired nor discovered: mDNS, which is about
to mark it or to report its loss, the lost handler or the unpaired handler.  It survives
because each handler looks at the flag that the other side clears first.  `OnInv` (an
object that loses its listeners has left the registry) says that the report of a loss
finds a handler, and `FreshInv` that nothing runs for an object before `newDevice`.

For the other two, `StoreInv` says of every state, quiet or not, which goroutine is still
to save or to delete a pairing: at most one is at work between two operations (`TaskOK`),
a pairing in the store is that of a paired device or about to be loaded (`SavedOK`), one
that the accessory holds is in the store or on its way there (`HeldOK`), and that of a
listed device too (`PairedOK`), each until the history names a cause.  The proof found a
cause that the run does not reach: a device that was deleted between `FoundMerge` and
`FoundMark` stays usable outside the registry; after a reset of the accessory a second
object is found and paired, and an unpairing of the first deletes the pairing of the
second, which goes by the name (six events, where the run has five).  `replaced` now
covers it: an unpairing of an object while another has its place in the registry.

`StoreProofs` is about `FileStore` (from `StoreAssumption`) and `Storer` (from
`StorerAssumption` as well).  `Refinement` says that `FileStore` implements `KeyValue` with
its steps, errors and crashes, and `StorerRefinement` that it still does with the
controllers as its users.  The invariant says which inode a call
has open: no two keys share a file (`OneKey`), a call has the file of its own key or
one that nobody can name (`OwnFile`), and if no other change of the key has crossed
it, the file is still the one under the key (`SameFile`) and what a `Get` has read is a
prefix of it (`SameRead`).  Then `Entry` changes exactly where `KeyValue` says: a `Set`
that nothing crossed and that is no shorter than what was there leaves its value,
because what is written over a shorter or equally long file is all of it; one lemma
per action shows its step, or a stutter.

Of `Storer` all that its run checks is proved: `StorerTypeOK`, `OneIdentity` and
`LoadsKnown`.  `CallInv` says which call of the store each goroutine is in
(`MainCalls`, `OtherCalls`); that only `NewController` touches the key pair's file, so that
its calls are not crossed (`Uncrossed`), and that the key pair in use is what the file
holds unless it was misread (`UsedPair`) is `PairInv`; `KnownInv` relates `known` to the
entries: what a listing has loaded of a steady key is its entry (`Loaded`), and a key with
a change under way is not known (`ChangedUnknown`).  `OneIdentity` needs that key pairs are
equally long, which `StorerAssumption` states: they are JSON of 32 and 64 bytes in
base64 (keypair.go:4).  Of two that are not, the shorter written in part over the longer
could leave a file that is read as neither.

`PairingProofs` is about `Handshake` (from `HandshakeAssumption`) and `Listing` (from
`ListsAssumption`).  Of `Handshake`: `TypeOK`, `Agreed` and `SameKey`.  `Agreed`
needs that keys of the accessory never return (`Born`) and that a call that is about
to set `paired` has set `pairing` (`Kept`).  `SameKey` needs that calls that are not
`crowded` are alone (`Solo`), that such a call runs over a connection that is not
encrypted (`Pending`: while a call dials or verifies, the device is not verified, or it
is `undone` and the call dials),
and that the accessory has switched to the key of the call that is about to switch
(`Upgraded`).

Of `Listing`: `Listed`, for any pairings, with values of any length, and any end of the
answer; the run has lists of up to three.  `Listed` only says what is returned.  `ListInv` says
of every pass of the loop what it rests on.  `Laid`: there are places `st[k]`, one for
each pairing that was written and one for the next, each the length of a pairing and of a
separator after the one before, and as far as the answer goes its bytes at these places
are the items of that pairing (`Here`), so that an answer that is cut off is laid out as
the whole one is.  `Spot`: the loop is at the place of item `j` of a pairing `k`, `result`
is the pairings before `k`, and `pp` has the first `j` items of `k` and is blank
otherwise.  A step of the loop finds there the item `j` and goes to `j + 1` (`ReadAt`), or
the separator and goes to the pairing `k + 1`, blank (`SeparatorInv`, where the mutant
that does not reset `pp` fails).  Of an answer that arrives in full the loop misses
nothing before the end of the last pairing (`NoneMissing`).  On the way are lemmas about
the bytes: what is appended to an answer leaves its items where they are
(`HereLonger`), and what is cut off leaves them as far as they go (`HerePart`).  `ListSpec`
is the part of `Messages` that is about lists.

`EventsProofs` (from `EventsAssumption`): `TypeOK`, `Served` and `CacheInOrder`.  `Served`
speaks of moments when nobody unsubscribes; in between, an unsubscription has
disabled events and not yet closed the channels they are for.  `Pending` names it,
`HearsInv` says that nothing else is missing, and `SureInv` the same of subscriptions
whose channel is not open yet.  Both need that the answer on the stream is that of the
caller that waits (`StreamInv`, until a call times out).  `CacheInOrder` needs to know
what a call that has a list of accessories in its hands will store (`StoringInv`).

`DeviceProofs` (from `LoopsAssumption` and `BoundsAssumption`): `TypeOK`,
`VerifiedIsServed`, `OneReader`, `OpenIsUsed` and `SessionKept`, all that the `device` run
checks, for any number of operations, reports of mDNS and background goroutines.  The
properties speak of quiet states; the invariant says of every state which goroutine
will make up for what is not true yet:

- `PlacesInv`, `DialledInv`, `AppInv`: where each goroutine may be, that connections
  which were not dialled are not known to anybody, and what a handshake knows (a new
  connection is dialled only when `d.cc` is nil);
- `AccessoryInv`: the accessory holds a pairing while it keeps up a session, so that
  PairSetup cannot complete over one that is in use;
- `SessionInv`, `ReaderInv`, `SocketInv`: until a close overran another connection, an
  open session is verified and no handshake goes on over it, a connection has one
  reader and its `backgroundStop` is open while it reads, and an open socket is the
  device's;
- `ServedInv`: a verified device has a session and a reader, or a goroutine is on its
  way to unverify it, unless `d.cc` was nil when the flag was set (`undone`);
- `KeptInv`: no goroutine is about to end a session that is established.

Only model-checked are:

- what must happen at last: `CallReturns`, `CloseReturns`, `LossNoticed`, `Delivered`,
  `AllRead` and `WaitEnds`, because liveness under fairness is outside the prover's reach;
- the codec of structs (`Returned`, `CutIsPart`): its operators are `RECURSIVE`, for
  structs are nested, and what they compute for every struct takes an induction over
  the struct, which the prover cannot do.

## 5. What the runs found

Two runs expect a violation of what a comment of the code says:

- `stale_response`: caller `a` times out; its response arrives when `b` waits, and
  `conn.loop` hands it to `b`, whose own response then goes to whoever comes next.
- `controller_listed`: the lost handler sees an unpaired device and waits for the
  mutex; PairSetup returns nil; the handler deletes the device and its listeners.
  The pairing is neither listed nor saved, and the accessory keeps it.

Other outcomes are part of the models and are named as the exceptions of
properties.  Without its exception TLC finds each of these properties violated (for
`late` in `Served`, a timeout and then a refusal, it takes `MaxFaults = 2`):

- The loop reads `wantResponse`, the deadline expires, the caller closes both
  channels, the loop sends: a panic (`PanicNeedsAbandon`).
- A close from mDNS runs between `UpgradeEnc` and `verified = true` of PairVerify: the
  device says that it is verified and has no connection, until the next close (`undone`
  in `VerifiedIsServed` and `SameKey`).
- `rmvFn` clears the entry between the two times `connect` looks at it: a nil
  dereference in the dial (`nilEntry` in `Lookup`).
- A caller that waits for the mutex of an old roundTripper writes to the new connection
  beside the callers of the new one: frames under one number, or out of order
  (`crossed` in `NoncesAgree`).  An event that comes with the answer to M3 is lost, and the
  next frame does not open (`missed`); either ends the session with the error that
  session.go:115 reports.
- A call whose deadline comes after its connection was replaced tells the new one that
  no response is wanted, and the call that waits there, if it has no deadline, waits
  for ever (`want` in `WaitEnds`).
- A Read whose buffer the last bytes fill exactly leaves `readBuf` empty and not nil, and
  the next one says `io.EOF` (conn.go:241): the loop ends, or drops the response that it
  is reading (`filled` in `EofWhenEnded`, `clean` in `NothingLost` and `AllRead`).
- PairVerify on a verified device closes it and dials again; the background goroutine
  of the first connection comes out of its loop and runs `Device.close`, which resets
  `verified` and `httpc` of the second (`overran` in `SessionKept`).
- `Decrypt` goes on after a frame of exactly 1024 bytes, and `Encrypt` ends a message
  of a multiple of 1024 bytes with one: the message waits for the next (`HeldBack` in
  `Delivered`).
- A request in flight when `d.cc` becomes nil ends the program (`NilDeref` in `Leave`); a
  close that starts before the background goroutine made `backgroundStop` waits for
  ever (`stuck`); `addFn` that finds its device deleted ends the program (`panic` in
  `FoundMerge`).
- An event that does not come in one chunk of its own spoils what follows (`clean` in
  `NothingLost`): bytes after it in the same chunk are dropped, and an event in two
  chunks gets four bytes that nobody wrote.  Responses survive both
  (`ResponsesWhole`), if they are read at all.
- Unsubscribing from one accessory disables the events of all; channels opened
  meanwhile never hear anything (`deaf` in `Served`).  `GetAccessories` stores a list
  that an event has overtaken (`overtaken` in `CacheInOrder`).
- A pair-setup whose answer to M5 is lost leaves the accessory with a pairing that no
  later PairSetup can replace (`lost` in `Agreed`).  A refusal of pair-verify's M3 that
  carries no TLV error, whatever its status, is taken for a success
  (`RefusedUnseen`), and two calls on one connection make sessions that cannot talk
  (`silent`, `crowded` in `SameKey`).
- A pairing saved over a longer one, or beside another change of it, may leave a
  file that nobody can read (`Unsafe` in `KeyValue`, `Broken` in `LoadsKnown`); an error of
  the operating system when the key pair is read gives the controller another identity
  (`misread` in `OneIdentity`), and one in a listing leaves a pairing out (fs.go:54; `faults`
  in `LoadsKnown`).
- An accessory may hold a pairing that is not saved after an operation that failed or
  was stopped (`failed`), one that began before the goroutines of the one before had
  finished (`hurried`) and one whose event nobody received (`missed` in `HeldIsSaved`).

The codec loses what `Lossless` excludes, and the tests of `tlv8/` do not notice: the
upper half of an `int64` (writer.go:86), every `float32` (writer.go:95; the test
looks at the original, not at what was read), and slice elements that take more
than one item, because `read` starts a new value only directly after a delimiter
(reader.go:218).  The structs of the library have only bytes and byte strings, and
`ListPairings`, which would need such slices, has its own reader; that one takes an
error answer (`Refuse`) for a list of one blank pairing.

## 6. Not modelled

- `memStore`: a Go map without a lock; two goroutines in it are a run-time failure,
  one is a map.
- `dialServiceInstance`: its outcome is a step of the modules; its race leaves no state
  but the winner.
- `PairAdd`: one encrypted request that leaves no state here.
- Chunked bodies, and headers that lie about the length of a body.
- `StopDiscovery` and the end of the discovery's channels; more than one accessory
  in `Controller`, where names do not interact.
- Top-level slices in the codec, which the library never marshals.
- The cryptographic wrappers, the tables of services and characteristics, logging,
  the look-up helpers and the example application, which have no state to check.

No model has real time: a deadline may expire whenever its caller waits.

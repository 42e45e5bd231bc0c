# A verification of fin-proto-cpp

`fin-proto-cpp` encodes and decodes the binary messages of four exchange
protocols (Shanghai, Shenzhen and Beijing trading gateways, an internal
risk-control link) and of one sample protocol.  This directory models the
library in TLA+, checks the models with TLC and proves the core of it with
TLAPS.  Paths below are relative to the repository; `X.hpp:n` means line `n` of
`include/X.hpp`.

## 1. Inventory

### The parts, their state and their operations

| Part | State | Operations | What makes it correct |
|---|---|---|---|
| byte buffer (`bytebuf.hpp`) | `buffer_`, `reader_index_`, `writer_index_` | `write_*`, `write_*_at`, `read_*`, `write_bytes`, `read_bytes`, `reset`, `readable_bytes`, `writer_index`, `data` | a queue of bytes: none lost, doubled or moved; a refused read takes nothing; cursors stay in the data; integers of every width and sign survive |
| codec functions (`codec.hpp`) | none of their own | `write_`/`read_` of strings, fixed strings, lists of these, of numbers and of objects | reading gives what was written, takes exactly its bytes, and is refused when any of them is missing |
| frames (the last struct of each protocol header) | members of the struct | `encode` (header, length field, body, patch, checksum), `decode` | the length and checksum land in their own frame and mean what they say |
| checksum services (`checksum.hpp:27-80`) | none | `calc` for CRC16, CRC32, SSE_BIN, SZSE_BIN | the value is that of the algorithm named, the receiver can recompute it, and damage shows |
| checksum context (`checksum.hpp:82-115`) | `services_`, `mu_` | `instance`, `registerService`, `get` | built-in services are always found, a name is given away once, no call hangs |
| message factory (`message_factory.hpp`) | `creators_`, one map per tag | `create`, `registerMessage`, `removeMessage`, the static initialisers of `REGISTER_MESSAGE` | every key a sender uses has the class the sender means, in whatever order units are initialised; what users register or remove stays so |
| protocol structs (`rc_`, `sse_`, `szse_`, `bjse_binary.hpp`, `root_packet.hpp`) | the members | `encode`, `decode`, `equals`, `toString` | `encode` and `decode` go through the same fields in the same order with the same types, padding and count widths |
| sender and receiver (`test/`, `readme.md`) | a buffer, the messages on both sides | encode into a buffer, decode from it | the receiver has the sender's messages, in order, or is told that one is incomplete |
| text output, build files | none | | not modelled |

### How they interact

A frame's `encode` writes its header, remembers `writer_index()`, writes a zero
length, has its body encode itself into the same `ByteBuf`, patches the length
with `write_u32_at`, and asks `ChecksumServiceContext::instance()` for a service
that sums `data()`.  A frame's `decode` reads its header, has the protocol's
factory create the class of the key just read, has that object decode itself,
and reads the checksum.  Some bodies repeat this with an application identifier
as the key.  All shared state is in two places: the buffer, which the caller
passes along, and the two singletons (checksum context, factories).

### What is hard

* *The two indices of the writer.*  `write_le` advances `writer_index_`,
  `write_u8`, `write_i8` and `write_bytes` do not, so the index lags behind the
  end of the buffer by the bytes of every string and octet.  A frame takes
  both the place of its length field and the length from it.
* *Long sequences of calls* on one object with two cursors: overwrites of bytes
  already read, reads that are refused, resets.
* *Incomplete input.*  Any prefix of a message may be all there is.  A `decode`
  that throws in the middle leaves the cursor there, and the object with some
  members of this message and some of an earlier one.
* *Static initialisation.*  Each translation unit that includes a protocol header
  registers its classes once more, in an order that the program does not choose,
  and headers of different protocols share names.
* *Boundaries*: counts that wrap, strings that are all padding, values at the
  ends of signed and unsigned types.
* *Threads* that call `instance()`, each re-registering four services in four
  critical sections before it gets to its own.

The complete list, each at its line, is under `hazards` in `PROJECT.json`.

## 2. Modules

```
ByteBuf ── BufferClient ── MCBufferClient          ByteQueue (abstract)
   │            └── BufferClientProofs
   ├── Frame, Checksum ── FramedBuffer ── MCFramedBuffer
   │            └── FramedBufferProofs
   ├── ChecksumServices ── MCChecksumServices
   │            └── ChecksumServicesProofs
   ├── WireTypes ── Samples
   │       ├── Layout ── Encoding, Decoding, Members, Receiver, Expected
   │       │                └── ReceiverProofs (on all five, MessageCodec and Checksum)
   │       ├── Wire (of Encoding and Decoding), Canonical (of Expected)
   │       ├── RcBinary, SseBinary, SzseBinary, BjseBinary, RootPacket (of Wire)
   │       │          └── Library
   │       └── MCReceiver (of Receiver, Wire and Members)
   └── MessageCodec ── Session ── Traffic ── MCTraffic   MessageQueue (abstract)
                          ├── MCCodec
                          └── SessionProofs (used by ReceiverProofs)
MessageFactory ── MCMessageFactory (with Library)
   └── MessageFactoryProofs
ChecksumContext ── MCChecksumContext               ServiceRegistry (abstract)
   └── ChecksumContextProofs
ByteBufProofs (of Frame): lemmas about bytes, integers, sequences and one frame
```

**ByteBuf** has the class as a record of its three members.  An operator takes
an object to the object a call leaves (`Write`, `WriteAt`, `ReadBytes`), so that
an action can be a whole handler of several calls.  The append calls are
factored through *chunks*: the bytes appended and how many of them
`writer_index_` counts.  Calls that may throw return a record with an outcome.
`Then` goes on with the next call unless the last one threw.
`Radix` is the number of values of a byte: 256 in the program, smaller in some
runs.  Every operation that `big_endian` could have changed is little-endian,
because no member function ever passes the parameter.

**BufferClient** is one object and a client that makes its calls in any order.
**ByteQueue** is what such an object promises, without cursors; `BufferClient`
implements it with the unread bytes as the queue.  Of bytes that have been read
the queue says nothing, but positions from `writer_index()` and the sums over
`data()` count them too: `DataKept` says that they stay, at their places.

**Frame** is the part of `encode` from the first header field to the patch, and
**Checksum** the services.  **FramedBuffer** encodes frames with arbitrary bodies
(any bytes, any number of them counted) into one buffer, with reads and resets
in between.

**ChecksumServices** has the four services bit by bit: a word is the set of the
positions of its ones, because TLC's integers have 31 bits.  A sender writes and
reads and asks a service, the bytes travel and may be damaged, the receiver reads
and asks again.  What each name promises is defined without the loops of the code,
as the remainder of a polynomial division.

**WireTypes** names the ways in which fields are written, and **Layout** is the table
of the structs with what all tables of the repository have in common
(`ClassesAssumption`): types the codec knows, members with different names, a key
in front of what it decides, and objects inside objects to a bounded depth only.
**Encoding** is `encode`: the chunk that an object appends.  **Decoding** is `decode`
from a buffer *into an object that exists*, field by field, stopping at the first
call that throws, with the members assigned so far kept as the code keeps them.
An object inside an object is written, made and read by a virtual call.  In these two
modules that call is a constant, so that neither is recursive and both can be
proved about; **Wire** instantiates the constants with the same operators again,
as `RECURSIVE` ones, and is what the protocols and TLC use.
The five protocol modules are data: the
layout of every struct, the factories, and the frame's `encode`.  `decode` and
`equals` of every struct in the repository use the same fields in the same order
as its `encode`, so one layout stands for the three.
**Library** puts the five together.  A struct's virtual `encode` and `decode` are
`Encode` and `Decode` there.

**Expected** says, independently of these, what a receiver should get for an
object (`CanonicalObject`): the object, with fixed strings cut to their size and without the
characters on the padded side that look like padding, which the format cannot
express.  It also says which objects the format can carry (`Sendable`): numbers are of
their types, strings and lists no longer than the count in front of them can say, and a
pointer points to an object of the class that its key names.  As in `Encoding`, an object
inside an object is a constant there, and **Canonical** makes it any object, by recursion.

**Session** is a sender and a receiver with a buffer between them, for any
encoding: `Send` is a whole `encode`, `Receive` a whole `decode` of a fresh
object, `Cut` a transport that delivers a prefix into a new buffer, `Reset`.
`sent`, `ends`, `whole` and `received` are history.  A receiver whose `decode`
threw in the middle of a message does not try again on the same buffer: the
library has no way back, so the model lets it reset.  **MessageQueue** is what a
session promises.  **Traffic** is the session of the five protocols;
**MCCodec** one of small invented classes whose objects can all be enumerated.

The encoding is a constant of **MessageCodec**, on which `Session` is built.
`CodecIsSelfContained` says there what an encoding has to be for a
session to be a queue: it appends bytes that depend on the message alone, and
decoding takes exactly these or is refused.

**Receiver** is one frame object into which a receiver decodes whatever comes.
Bytes arrive one at a time, any bytes, and after each the receiver decodes a copy
of what the datagram has so far, so the object meets whole frames, frames cut
anywhere, keys no factory knows, and bodies that are not of the class the key
names, in every order.  Members of a new object are indeterminate until assigned
(`RcBinary decoded;` has no initialisers), which the model has as a value of its
own.  `Receiver` takes the codec as constants.  **Members** says when an object has
the members of its layout, and where in it a pointer is null or a number unset;
**MCReceiver** ties it, `Receiver` and `Wire` together, again by recursion.

**MessageFactory** has the units of a program, the header each includes, and the
factories.  `Start` is the initialisation of a unit, which begins with all its
`REGISTER_MESSAGE`s; initialisers and, later, `main` may register, remove and
create.  Factories are named by their tags, as the template makes them: two
headers with one tag share a factory.

**ChecksumContext** has threads that run `instance()`, four registrations, and
then their own `get` or `registerService`; each operation is lock, look up, act
and unlock.  **ServiceRegistry** is what callers may rely on: no lock, no
`instance()`, the built-in services from the start, every call at one instant.
`ChecksumContext` implements it, with a thread's registrations of the built-in
services as stutters.

Operators whose comment begins with "Wrong variant" are plausible slips of the
same code.  No module uses them; they are there to show that a property notices.

## 3. Runs

`tlc -config X.cfg M` for the module and configuration of each row.

| Run | Module | Question | Bounds |
|---|---|---|---|
| `buffer_client` | MCBufferClient | Is a ByteBuf a byte queue under every order of calls, and does it keep the bytes that were read? Do its cursors stay in the data, do integers survive? | bytes of 1 bit, integers of 1 to 3 bytes with values on both sides of zero that also truncate, buffers up to 5 bytes, every position and count up to one beyond the data |
| `framed_buffer` | MCFramedBuffer | When is the position taken from `writer_index()` the right one? Is it, or a cursor, ever out of range? | up to 3 frames, bodies counted fully, in part and not at all, interleaved with reads |
| `codec` | MCCodec | Does every object survive, take exactly its bytes, get refused when cut anywhere? | all strings up to 3 characters (padding and other), fixed sizes 1 and 2, lists up to 2 or 3 elements, every cut |
| `catalogue` | MCTraffic | Do all structs and all factory keys of the five protocols survive, does the checksum verify, and is a buffer a queue of messages? Is a frame that patches nothing self-contained in every buffer that arises? | per class four objects: ordinary, least or empty, at or beyond the limit, looking like padding; up to 3 in one buffer from a batch of Beijing frames (no patch, strings and nested lists) or of Shanghai ones (patch and checksum, counted bodies); cuts every 120 bytes from the end, the last byte among them; every cut of every kind of field is in `codec` |
| `checksum_context` | MCChecksumContext | Do threads find the built-in services, keep what was accepted, see an atomic registry, and return? | 2 threads, one call each after `instance()`, every name and type |
| `checksum_services` | MCChecksumServices | Do the loops compute what their names promise, and does a receiver who checks notice damage? | up to 3 bytes of 8 bits; every damage inside a byte, of any two bits, of any run of up to 16 bits; reads before and after |
| `receiver` | MCReceiver | Does a used object decode like a new one, is whatever is accepted the encoding of what it gives, does a verdict stand when more bytes arrive, and when may one use the object after a refusal? | every sequence of up to 7 bytes of three values, in any order of datagrams; a frame with a string, a list, a nested struct, two body classes and two extensions |
| `factories` | MCMessageFactory | Does code get the classes of its header, and do users have the last word? | three units, two with one header; keys of both headers and one of none |
| `risk_batches` | MCTraffic | (violated) Do frames whose bodies have strings survive a second frame? | 2 frames |
| `body_lengths` | MCTraffic | (violated) Is the length field the length of the body? | 1 frame |
| `long_lists` | MCCodec | (violated) Do lists survive that are longer than their count can say? | a list of 4 with counts below 4 |
| `shared_factories` | MCMessageFactory | (violated) Does code get the classes of its header in a program with Shenzhen and Beijing units? | two units, key "010" |

**Why the bounds are enough.**  Nothing in the buffer depends on the value of a
byte, and every index is compared with a length only, so bytes of one or two bits
and buffers a few integers long meet every case: full, one short, overlapping
the cursor, before it and behind it.  The theorems of section 4 take the same properties
to all sizes.  The codec works field by field; the classes of `MCCodec` have each
kind of field, first, last and nested, so that a byte too few or too many shifts a
neighbour.  The samples of the catalogue add what differs between structs: widths,
signs, padding characters and keys.  Numbers of four and eight bytes stop at
2^31 - 1, the largest TLC has; `buffer_client` covers the top bit in small bytes.
Three values of a byte suffice for `receiver`: lengths, counts, keys and padding
are all among them, and known and unknown keys of frames and of extensions occur.
A frame with an empty string and list has five bytes, so whole ones with something
in either, ones with bytes too many and every cut arise.  Two units with one header and one with another show each order of two
registrations of a key with a user's call before, between and after them; the
theorems on `MessageFactory` have no bounds.  The loops of the CRCs treat every byte
alike, and what one byte leaves to the next is in the word; up to three bytes, with
ones at either end and in the middle, tell a wrong loop from a right one.
`Follows` bounds what is encoded after what: a message of the catalogue alone, or
several of one batch; other pairs would differ only in the bytes in front, which
`SessionProofs` shows not to matter for self-contained messages.
One call per thread suffices in `checksum_context` because the first call of each is
the critical one: afterwards all names are taken.

**Assumptions that TLC evaluates.**  Besides the assumptions on the constants,
`MessagesAreSendable` in `MCCodec` (every object of its classes is `Sendable`),
`TablesAssumption` in `MCTraffic` (the tables of the five protocols are of the form that
`Layout` and `Receiver` assume) and `FramesAssumption` there (the four frames that patch
their length have the form that the theorems on frames are about: what `encode` writes
first is what the layout says, then an integer for the length, the body and,
in three of them, a checksum).  They tie what is proved to what the code has.

**Mutants.**  For each property of each passing run `PROJECT.json` names a wrong
variant of a definition with which that run finds the property violated.

**Fairness.**  Only `ChecksumContext` has a liveness property.  It assumes weak
fairness of each thread inside a call: a thread that can take its next step
eventually does, as any scheduler gives it.  No fairness of the mutex is assumed:
with the number of calls bounded, a waiting thread can be overtaken only finitely
often.  With an unbounded number of calls `std::mutex` promises nothing of the
kind, so `CallsReturn` holds for programs whose other threads make finitely many.
The other components are sequential and nothing obliges their callers to call.

**Deadlock** is checked except where programs really end: `checksum_context`
(all threads have made their calls) and `checksum_services` (the receiver has its
verdict).

## 4. Proofs

`tlapm M.tla` checks each.  The theorems hold for every value of the constants
under the named assumptions of the modules (`RadixAssumption`,
`ClientAssumption`, `FramedAssumption`, `SessionAssumption`, `ContextAssumption`,
`FactoryAssumption`, `SignAssumption`, `BytesOfEightBits`, `ServicesAssumption`,
`SumFits`, and the ones of `Layout` and `Receiver` below): only that values are
integers, widths positive, byte sequences made of bytes, that a byte has an even
number of values (in `ChecksumServices` 256) so that half of the patterns are
negative, that each built-in service
has a type and "no thread" is not a thread, that the data is shorter than the eight
million bytes at which SZSE_BIN overflows, and that a body counts no more bytes
than it has, which is what the writers of `ByteBuf` guarantee.

* `BufferClientProofs!TypeCorrect`, `!CursorsStayInBounds`: type correctness and
  the bounds of both cursors, for all sequences of calls.  `reader_index_` is
  guarded by `check_read`; `writer_index_` grows by at most what is appended.
* `BufferClientProofs!DataIsKept`: until a reset `data()` only grows at its end or is
  overwritten in place, and no index goes back.  It follows action by action
  from the type invariant.
* `BufferClientProofs!BufferImplementsQueue`: each step maps to a step of the byte
  queue: appending extends the unread bytes, reading takes a prefix, overwriting
  at a position maps to overwriting at the position relative to the cursor
  (clipped when it reaches bytes already taken).
* `BufferClientProofs!IntegersAreInverse`: an integer that is written and read with
  the same width and signedness is the integer, cut to the width, for every width.
  `write_le` shifts out one byte per turn and `read_le` shifts and adds; the lemmas
  say that the i-th turn leaves `value \div Radix^i`, and that the value of the bytes
  is the value modulo `Radix^width`, by induction over the turns.
* `FramedBufferProofs!TypeCorrect`, `!EncodingNeverThrows`: both cursors and the
  patch position lie inside the buffer whatever was written before, and a read that
  is refused moves none.
* `FramedBufferProofs!TrackedFramesStayIntact`: frames stay as they were written
  while the bodies of all but the last were counted completely.  The property is not
  inductive by itself.  The invariant adds that the cursors and every frame lie
  inside the data and that, as long as all frames so far are tracked,
  `writer_index_` is the end of the data; a new frame's patch then lies behind
  every older frame.
* `FramedBufferProofs!ChecksumsStayValid`: as long as they are tracked, checksums
  are those of the bytes before them.  The invariant adds that the bytes a frame's
  checksum sums end where its trailer begins; a patch of a later frame lies behind
  both, and overwriting behind a prefix leaves the sum of the prefix.
* `SessionProofs!SessionTypeCorrect`, `!MessagesInOrder`, `!MessagesConsumed`,
  `!IncompleteRefused`, `!BytesForwarded`, `!SessionImplementsQueue`: for every
  codec, every set of messages and any number of them in the buffer, on the
  assumption `CodecIsSelfContained`.  The invariant says that some sequence of
  messages explains the histories and the bytes: message `i` was recorded and its
  bytes begin where those of message `i - 1` end; what is received are the first of
  them; and the cursor is where the next begins, unless a decode has been refused
  at the first that is incomplete.  That sequence is in no variable, so the
  invariant quantifies over it.  The refinement maps the undelivered messages,
  with a torn one at the end if some bytes were cut off, to the queue.
  The assumption is a real one: frames with a patched length or a
  checksum over the whole buffer do not satisfy it, and `risk_batches` shows that
  the conclusion fails for them.  For everything else in the library it is a theorem
  (`ObjectsAreSelfContained`, below).
* `ChecksumServicesProofs!AnswersCorrect`: each `calc` gives what its name promises,
  for data of any length.  For the CRCs the argument goes turn by turn: after `i`
  bytes and `j` shifts the register, reversed, is the top of what the long division
  has left after `8 * i + j` steps, before the bits of the message that have not
  been reached; a shift that drops a one adds the taps exactly where the division
  subtracts the divisor.  `CyclicIsCyclicCheck` says so for every width and divisor
  whose highest exponent is the width; the two in the code are instances.
* `ChecksumServicesProofs!DamageFound`: a receiver who asks again refuses damaged
  bytes, a sum when one byte is damaged, a CRC when the damaged bits lie within 16 in a row
  (`Bursts`), and accepts bytes that are as they were.  Two data
  with one CRC would differ by a multiple of the divisor; while only zeros follow
  each other nothing enters the register, the first damaged bit does, and fewer
  shifts than its width cannot clear it.  The invariant (`Inductive`) relates the
  bytes that arrived to those that were sent and the damage, and the verdict to
  both answers.  `Damages` in the run of TLC also has pairs of bits further apart; for
  these it depends on the polynomial, and they stay model-checked.
* `ChecksumServicesProofs!TypeCorrect`, `MessageFactoryProofs!TypeCorrect`: types.
* `ReceiverProofs`, first part: the six properties of `Receiver` (`TypeCorrect`,
  `UsedObjectIsAsNew`, `AcceptedBytesAreTheEncoding`, `CompletedObjectStaysUsable`,
  `KeyAndBodyAgree`, `MoreBytesChangeNothing`), for every table of classes, any
  radix and datagrams of any length.  Second part: what is sent comes back
  (`ObjectsAreSelfContained`, `ObjectsArriveInOrder`, `ObjectsAreQueued`,
  `PatchedFramesComeBack`, `FrameChecksumsVerify`).  See below.
* `MessageFactoryProofs!UsersHaveTheLastWord`, `!HeadersAnswer`: for any number of
  units, headers and keys and any order.  The first needs nothing but
  `FactoryAssumption`.  The second assumes `Separate`, that no factory is that of
  two headers, and `shared_factories` shows that it is needed.
  Both follow from an invariant that says of each key what its creator must be,
  given what was last said of it.
* `ChecksumContextProofs!TypeCorrect`, `!AcceptedServicesStay`,
  `!BuiltInsAlwaysAnswer`: the lock excludes, a registration is final, and a
  built-in service is always found, for any number of threads, names, types and
  calls.  Neither of the last two is inductive.  The invariant adds that what a thread
  found under the lock is still so until it unlocks, that the rest of `instance()` is
  what precedes the request of a thread inside a call, and that the built-in
  services behind it are registered under their own names: so a user's
  registration always comes after all four of them and cannot take a name of theirs.

* `ChecksumContextProofs!ContextImplementsRegistry`: for any number of threads and
  calls.  Each step maps to a step of the atomic registry or to a stutter: the call
  begins with `Begin` and takes effect in `RegisterService` or `GetService`,
  under the lock; locking, looking up and registering the built-in services once
  more change nothing a caller sees.  It uses the invariant of
  the others and one more on the requests that are pending.

### The receiver

*From what.*  `ClassesAssumption` (above), and `ReceiverAssumption`: the frame has
one body, behind members of fixed size, and
the value of an unset number is no integer.  `TablesAssumption` in `MCTraffic` has TLC
check that the tables of all five protocols, as they are, meet both; none has
objects more than four levels deep.  The theorems have one hypothesis more,
`SameCode`: what `Receiver` takes as the codec, and what `Encoding`, `Decoding` and
`Members` take for an object inside an object, is what these modules say of any
object of the table.  In the program this is what a virtual call does.  In the
runs it holds because `Wire` and `MCReceiver` define their recursive operators by
exactly these equations, and the recursion ends since objects nest to a bounded
depth.  `SameCode` speaks only of objects that have their members and of classes
that there are.

*Along which argument.*  The loops of the code, over members and over elements, are
functions of how far the loop has come, and lemmas say what one turn adds.  What holds of a
class when it holds of the classes inside it holds of every class: `DepthInduction`,
by induction over the depth that `ClassesAssumption` gives, with the predicate as a
set.  Two facts are proved of every class in this way.  `ObjectReads`: a decode
either throws, or has taken exactly the bytes that `encode` writes of the object it
made, and this object has its members.  It rests on the lemmas on each kind of
field: a number that is read is written as the same bytes, a trimmed
string is padded to what it was, a list's count is its length.  `ObjectSame`: two
decodes, into any two objects of a class, from buffers that hold the same bytes
as far as both go, do the same; what is accepted or refused for a key
in the shorter one is so in the longer one.

*The invariant* (`IInv`).  None of the properties is inductive: that a
used object decodes like a new one says nothing of the object the next decode
starts from.  What is inductive is where the state comes from (`LastDecode`): object,
outcome and cursor are those of a decode of the bytes that are there now into *some*
object of the frame's class.  Which one is in no variable, so the invariant
quantifies over it, over all objects, and TLC cannot evaluate it; the run checks its
consequences, which are the properties.  A second part says that an object that was
complete once has all its numbers set and its body made ever since, since a decode
only replaces numbers by numbers and a body by a body.  `VerdictStands` follows
from the invariant and `ObjectSame` with the longer datagram on the one side.

*What it does not say.*  `encode` here is the layout's: the members as they are.  A
frame's own `encode` computes its length and checksum instead of taking them from
the object (section 5), so `AcceptedBytesAreTheEncoding` is about all classes but
these members of the frames.

### What is sent comes back

The receiver's theorems start from bytes; these start from an object.

*Objects.*  `ObjectsAreSelfContained` is `CodecIsSelfContained` for the codec of the
layouts: what `encode` writes of a sendable object, `decode` takes to the byte,
wherever the bytes stand in a buffer and whatever comes behind them; it gives the
object up to padding and cut strings; and it is refused, by `std::out_of_range`, as
long as bytes are missing.  The receiver may decode into any object of the class, new,
used, or left behind by a refusal, and into another one for every buffer.
`ObjectsArriveInOrder` and `ObjectsAreQueued` put this into the theorems of
`SessionProofs` (as `Channel`): a session of such objects delivers them in order, takes
exactly their bytes, refuses the incomplete ones, forwards their bytes unchanged and
implements the queue, with no assumption on the codec left.  Frames that patch nothing,
the Beijing ones, are such objects, and so is every body and list element.

*From what.*  `SameCode`, as above; `SameReference`, which says the same of `Expected`: what
is said of an object inside an object is what is said of any, which `Canonical`
defines by exactly these equations; and `ObjectCodec`: the messages are sendable and not
empty, and encoded and decoded as `Encoding` and `Decoding` say.  The definitions of
`MCCodec` are of this form, and `MessagesAreSendable` has TLC evaluate the
first half for all its objects.  For the tables of the protocols TLC cannot evaluate
`Sendable`, which compares with 2^32.

*Along which argument.*  Of each kind of field: an integer of its type is written as
bytes that are read as this integer (the lemmas under `IntegersAreInverse`), a
padded string is trimmed to its canonical form, whatever padding it had itself, and
strings and lists are as long as their count because a sendable one fits it.  Then
along the loops: the bytes of the first i elements or members begin what the whole
writes, and the i-th turn finds its bytes where the last one stopped (`Has`).  A key is decoded
before the body it decides, and its canonical form is what the factory is asked
for.  `ObjectIsSent` follows for every class by `DepthInduction`.  A buffer that ends too
early is compared with one that has the missing bytes as well (`Completed`): there the
decode takes them all, so by `ObjectSame` it cannot have been accepted with fewer.

*Frames.*  A frame with a patched length is not self-contained, but in a buffer that
counted all bytes written before (`AllCounted`: its own buffer, or one after frames
without strings and octets) it is written as the layout says of the object *with the length and checksum that
`encode` computes in place of its own* (`PatchedFramesComeBack`).  So it comes back like any object, and
`encode` throws nothing.  `FrameChecksumsVerify` adds, for SSE_BIN and SZSE_BIN, that the receiver takes
all of the frame and that the checksum it finds is the sum of all bytes in front of
it, the patched length included.  `AllCounted` is needed: `risk_batches` shows a
frame after one with strings.  The lemma under both is `PatchedAppends`: when all is counted, the patch
position is where the length stands.

### Lemmas and limits

The lemmas about sequences, little-endian bytes, overwriting and a single frame are in
`ByteBufProofs`.  It begins with the induction rule that they and the loops of the
checksums need, with the predicate as a set: the rule of the library takes it as
an operator, which the provers cannot instantiate.

**Only model-checked**: the properties of the five protocols as such.  `Traffic` and
the protocol modules reach the recursive operators of `Wire`, which the prover cannot
have in a module it proves about, so no theorem names `ChecksumVerifies`,
`ForwardedUpToChecksum` or `BatchIsSelfContained`.  What they rest on is proved for every
table: `FrameChecksumsVerify` is the first for one frame behind any bytes,
`ObjectsAreSelfContained` the last for every object.  That the tables are those of
the structs is the map's claim, which no tool checks; that each class and key of them works is what
`catalogue` shows.  Not proved in any form: that a received *patched* frame is
encoded to the same bytes again, up to the checksum; the checksum of the sample protocol's frame after a
read; pairs of damaged bits that are far apart (they depend on the polynomial); and the liveness property `CallsReturn`,
which is out of the prover's reach.

## 5. What the checks found

1. *Frames in one buffer destroy each other* (`risk_batches`).  `rc_binary.hpp:402`
   takes the place of the length field from `writer_index()`, which lags by the
   bytes of the strings of earlier frames; the length of the second frame is
   written into the first.  `FramedBuffer` shows the exact condition under which
   this cannot happen.
2. *The length field is not the length of the body* (`body_lengths`).
   `rc_binary.hpp:407` subtracts two values of `writer_index()`.  The decoders of
   the library ignore the field, so no test notices.
3. *Counts wrap* (`long_lists`): `codec.hpp:149` and its siblings.
4. *Tags shared by headers* (`shared_factories`).  `szse_binary.hpp:1031` and
   `bjse_binary.hpp:469` both declare `NewOrderTag`, two more tags are shared as
   well; in one program their factories are one.

Some limits of what holds, which the properties state as they are:

* The checksum of a frame covers the whole buffer, earlier frames included
  (`checksum.hpp:62`).  `ChecksumVerifies` says which bytes have to be summed, and
  `ForwardedUpToChecksum` that a frame that was not the first in its buffer gets
  another checksum when it is forwarded, and no other byte changes.
* CRC32 takes the start from `data()` and the length from `readable_bytes()`
  (`checksum.hpp:51`): when bytes were read, it covers a prefix shorter by as many.
  `AnswersAsNamed` states that prefix and `DamageIsFound` what is noticed in it.
* After a refused decode an extension inside a body may be a null pointer, which
  `encode`, `equals` and `toString` follow unchecked (`StaysUsable` says exactly
  when), and key and body may disagree then (`KeyNamesBody`).
* Classes of different protocols have one name (`struct Logon` in three headers),
  outside any namespace: a program that includes two of these headers in different
  units breaks the one-definition rule, which has no outcome to model.

## 6. Not modelled

`write_be`, `write_be_at` and `read_be` are never instantiated by the library.
In the frames zlib's CRC32, which only the sample protocol uses, is a sum as good as
any other function of the bytes; `ChecksumServices` has the real one.  The sum of SZSE_BIN overflows its `int32_t` only beyond eight million bytes.
Two threads in one factory at the same time are a data race with undefined
behaviour.  `toString`, `operator<<` and `join_vector` format for people.
Allocation (`reserve` with a count from the wire) is not modelled: it changes no
state that the properties relate.  The build is not modelled.

## 7. Plan

Done: byte buffer, frames, sessions, factories, checksum services, the checksum
context, receivers of arbitrary bytes and senders of arbitrary objects, with their proofs; the protocols,
model-checked.

What would come next: forwarding of frames with a patched length, for every table
(that `encode` of the received object writes the same bytes again); and threads
that use a factory while others register in it, which is a data race today and
would need a lock in `message_factory.hpp` first.

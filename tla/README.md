# Verification of atmega328p-ip

The firmware in `src/` puts an atmega328p with an ENC28J60 Ethernet chip on the
network: it gets an IPv4 address by BOOTP, answers ARP and ping, and offers a
line oriented service on port 23, over TCP and UDP, whose commands read sensors,
drive a TWI bus and store calibrations in EEPROM. This directory holds TLA+
modules of the parts where order, loss and interleaving matter, the TLC
configurations that check them, and TLAPS proofs of what was found most worth
knowing for every value of the constants.

`tlc -config X.cfg M` runs a check; `tlapm M.tla` checks the proofs of a module.
`PROJECT.json` lists runs, mutants, theorems, findings and hazards, and maps
every definition to the lines it was translated from.

## 1. The system

Everything runs in one loop on one processor, with four interrupts that only
count. There is no heap, no thread and no timer in the network code: whatever
the code does about the network, it does in answer to a frame, with the one
exception of the BOOTP request.

| part | state it keeps | operations | hard behaviour | what makes it correct |
|---|---|---|---|---|
| `main.c` | `my_ipv4_address`, `my_mac_address`, one frame in each direction | sleep, arm the watchdog, `application_periodic`, BOOTP request, receive one frame, reply | asks every turn, receives at most one frame a turn | gets an address, keeps it, is then silent |
| `tcp4.c` | `state[0]`: state, remote address and port, `lseq`, `rseq` | `process_tcp4` | any segment, from anybody, in any state; repeated, reordered and stale ones; a restart | one socket at a time; both ends count alike; nothing is run twice or acknowledged without being run; the service becomes free again |
| `udp4.c` | `state[0]`: last remote port and address, never read | `process_udp4` | a BOOTP reply is a datagram like any other | dispatch |
| `bootp.c` | none of its own, writes `my_ipv4_address` | `bootp_create_request`, `bootp_process_reply` | replies are broadcast, repeated, late; xid comes from the MAC address | the address is the board's own |
| `ipv4.c`, `icmp4.c`, `arp.c`, `ethernet.c` | counters only | `process_ipv4`, `process_icmp4`, `process_arp`, `ethernet_process_frame` | what "no reply" means on the way up | what is dropped stays unanswered |
| `enc.c`, `spi.c` | `next_frame_pointer`, and the chip's registers and ring | `enc_init`, `enc_send_frame`, `enc_receive_frame` | ring pointers, full buffer, busy waits | frames come out as they went in |
| `application.c` | two LED timeouts | `application_content`, `application_periodic` | lines of any length and content; ticks that arrive meanwhile | arguments are the words of the line, replies stay within their size |
| `twi_master.c`, `application-twi.c` | `twi_address`, the TWI hardware | send, receive, recover | any status after any octet; a bus that is stuck | the bus is released on every way out, the error says what failed |
| `application-temperature.c`, `application-light.c` | the ADC, and the sensors' own registers | sensor and calibration commands | one of several TWI transactions fails, a sensor loses its power in between | what is reported was measured as asked for |
| `application-pwm.c` | `phase`, `delay`, the tick counter | TIMER1 interrupt, `application_periodic_pwm` | the interrupt races with the main loop | no tick is lost |
| `eeprom.c` | MAC address and calibrations | typed reads and writes | the power fails between two octets, or within one | what was acknowledged stays |
| `stats.c`, `stackmonitor.c`, `util.c`, `net.c`, `debug.c` | counters, painted stack | printing, waiting, byte order | none | |

Parts call each other directly, downwards from the main loop:
`main` -> `ethernet` -> `arp` | `ipv4` -> `icmp4` | `udp4` -> `bootp` | `application`,
and `ipv4` -> `tcp4` -> `application`. A reply is what the calls return, written
into one transmit buffer, and 0 stands for "no reply". Shared state is
`my_ipv4_address` (read by `arp`, `ipv4` and `main`, written by `bootp`) and the
counters the interrupts write. The chip shares its receive ring with `enc.c`.

`PROJECT.json` has one entry per part under `components`, and under `hazards` what
is hard to test in this code, each at its line, with the properties that would
notice.

## 2. Modules

| module | models | lines of code |
|---|---|---|
| `SingleClient` | what the TCP service promises: one socket is served, the others are refused | abstract |
| `Tcp4` | `process_tcp4`, against any segment at any time | `tcp4.c` |
| `Tcp4Proofs` | theorems about `Tcp4` | |
| `TcpSession` | `Tcp4` with RFC 793 clients, a lossy wire and restarts | composes `Tcp4` |
| `TcpSessionProofs` | theorems about `TcpSession` | |
| `Lan` | boards on a wire: the turn of the main loop and the frame path | `main.c`, `ethernet.c`, `arp.c`, `ipv4.c`, `icmp4.c`, `udp4.c`, `bootp.c` |
| `LanProofs` | theorems about `Lan` | |
| `MainLoop` | turns of the main loop, the timer, the watchdog, frames waiting | `main.c`, `application.c:168-197`, `application-pwm.c:9-13`, `util.c` |
| `MainLoopProofs` | theorems about `MainLoop` | |
| `RxQueue` | what the receive side promises: frames in order, each once | abstract |
| `Enc28j60` | the receive ring and the transmitter of the chip, `enc_receive_frame` and `enc_send_frame` access by access | `enc.c:183-340` |
| `Enc28j60Proofs` | theorems about `Enc28j60`, its refinement among them | |
| `TwiMaster` | transactions on the two-wire bus and the commands made of them | `twi_master.c`, `application-twi.c`, `application-temperature.c:121-159`, `application-light.c:21-183` |
| `TwiMasterProofs` | theorems about `TwiMaster` | |
| `TwiRecover` | `twi_master_recover` against a slave in the middle of an octet, pin by pin | `twi_master.c:142-182` |
| `Application` | a line and its arguments, the command table, calibrations in the EEPROM, replies of many lines | `application.c:199-344`, `eeprom.c`, `application-temperature.c:49-58, 180-200`, `application-light.c:185-205` |
| `ApplicationProofs` | theorems about `Application` | |
| `LineProofs` | theorems about its loops: the parser, and replies of many lines | |
| `MC...` | values of the constants for TLC | |

### Tcp4

`entry` is `state[0]` without its constant port; `tx` is the transmit buffer from
the return of `process_tcp4` until the main loop has sent it (`Transmit`). Each way
through `process_tcp4` is an action, named for the state and the kind of
segment: `ListenSyn`, `ConnectedData`, `CloseFin` and so on; their guards are the
conditions of the code in its order, so that they exclude each other, but for
what the application chooses to answer. Three helpers are those of the code:
`Listening` is `reset_state` (and the initialiser of the table), `Numbered` is
`init_segment` with an entry, and `Rst` is `empty_segment` without one.

Two details are easily lost and are kept. Replies are numbered *before* the
entry is counted on, at `tcp4.c:245-247`, `315-321` and `330-332`. And `state_close`
compares neither address nor port.

A segment is a record of host, port, local port, flags, numbers, payload and
whether its checksum is right. A payload is an abstract line: `Size` is how many
octets it has and `Answer` the set of values `application_content` may return for
it, -1 for quit. Window, options, PSH and the contents of a reply are left out.

### SingleClient

Its `owner` is the socket being served, its `phase` whether the service is free,
open or closing, and `said` the flags of the answer under way. The refinement
mapping takes the owner from the address and port in the entry,
`owner <- <<entry.src, entry.sport>>`, the phase from its state, and hides replies
about ports that are not served. It says openly what the code does not promise:
any reset ends the connection, and once the service has said goodbye the next
segment of anybody does.

### TcpSession

Every remote socket has a client that does what RFC 793 asks of it: it connects,
types one line after the other, closes, is killed (and then sends a reset),
repeats what is not acknowledged, and answers stray segments with a reset. A client may also send its last line together with its FIN (`TypeLast`), as one that reads from a file does. Which of the
clients are there is chosen at the start from `Callers`, and `MaxLoss` says how many segments are lost when there are
so many. The board is `process_tcp4` and `Transmit` of `Tcp4`, and `Reboot`, which is the watchdog:
the table is what its initialiser says, and the wire and the clients are as they
were. Clients and wire are not code of this repository and are marked external.

`ran` records the lines `application_content` was given. A line is typed at most
once (`typed`), so that a line that occurs twice in `ran` was run twice.

### Lan

For each board, `address` is `my_ipv4_address`, `turn` the place in the loop of
`main.c` (before line 112 or before line 118) and `inbox` the receive buffer of the
chip. `ReceiveFrame` is one call of `ethernet_process_frame` with all it calls; the
operators below it have the names of the functions they stand for, and give the
frame that goes out. What the code signals by returning 0 is a `Blank` frame:
`ethernet_process_frame` adds the size of its header to whatever it gets
(`ethernet.c:64`), so the main loop never sees 0 and sends a frame with nothing but
a header, which the chip pads with zeros to the minimum length (`enc.c:218`). A board that
receives such a frame finds no ARP or IPv4 packet in it, and answers likewise.

Around the boards, `Serve` is a BOOTP server that answers by broadcast, as the flag in the request
asks for, sooner or later; `waiting` counts the requests it remembers. `Stimulate` is a station that
sends one of the frames in `Stimuli`, to one board or to all. TCP frames have no
place in `Lan`: they are the matter of `Tcp4`.

### MainLoop

`pc` is where the loop is: `pause`, `asleep`, `arm` (`main.c:109`), `load` and `clear`
(`application_periodic` copies and clears the counter of ticks), `receive`, `handle`. The 16 bit
counter is two octets, copied and cleared in any order, and interrupts come in between; `Spend` does
the rest of `application_periodic`. A handler may call it too (`Periodic`), may light the command
LED (`Command`), and may never end (`Hang`: the command `reset`, and every wait for hardware that has
no limit). Time is counted in ticks of the timer. `Timeout` is the watchdog: with WDIE it interrupts and
clears WDIE, without it resets. `Busy` is how many ticks a turn takes at most unless it hangs; the longest command,
`tempr` of an ADC sensor, takes some 60 ms of the two seconds that the watchdog gives. The rest of the start, from `wdt_enable` on
(`main.c:97-104`, with the 100 ms that `enc_init` sleeps), takes some of them as well: `watchdog` and `busy` begin with any number of ticks up to
`Busy`.

`pending` is a queue, since a turn takes one frame (`main.c:118`), the oldest first. Of each frame it keeps how many others were there when it came
and how many ticks it has been in the chip since then (`behind`, `waited`). These, and `since`, `due`, `late` and `hung`, only measure.

### Enc28j60 and RxQueue

`memory` is the ring, a cell of which is a header or an octet; `ERXWRPT`, `ERXRDPT` and `EPKTCNT` are registers of
the chip, which writes (`Arrive`) or gives up (`Drop`) frames between any two accesses of the driver. The driver is
`Select`, `ReadHeader`, `Copy`, `Free` and `PktDec` in the order of `enc_receive_frame`, with its two ways to
shorten a frame. The refinement mapping follows the headers from `ERXRDPT` on for as many frames as
are counted, one less between `Free` and `PktDec`: the frame has left the queue when its room is given back.
`enc_send_frame` is `Send` to `Poll`, in its order; the chip sends (`Sent`), gives a frame up, or gives it up and hangs: it then keeps TXRTS, the
poll at `enc.c:289` does not end, and the reset at `enc.c:258`, which is for the next frame, is never
reached. Then, or at any other time, the board restarts (`enc_init`), and the queue is empty again (`Restart` of
`RxQueue`). `uncounted` is how many failures `eth_txerr` is behind. The bank of registers, the SPI octets and the rule that ERXRDPT be odd are left out, as is the
receive error: `enc.c:300` looks for it in a register where the bit, one of the bank, has just been cleared, so that it is never
seen; nothing but a counter depends on it.

### TwiMaster and TwiRecover

`pc` names the function that waits for the hardware. `Reports` is what the hardware may report then: what it
should, a refusal, a bus error, or that arbitration is lost when a slave keeps SDA low; and it may stay silent for ever. `script` holds the transactions of a
command; `tempr` has three and gives up at the first that fails. The slave
remembers which register was selected last (`pointer`), and `bytes` names each octet that was received by the register it came from.
An error is the octet that the code returns, step and state in one (`rv`); `reported` is the state that the hardware is in itself, for comparison. `receive_byte` accepts an
octet that was not acknowledged and stores 254 for it (`Unacknowledged`), and `send_nack` accepts one that was. The hardware, which reports what it was told to do, shows neither, so
`Reports` does not offer them; the branches are there nevertheless. `Replies` is what the user hears: for `twiw` and `twir` whether the transaction was ok, for `tempr`
always "ok temp", since what follows the `switch` writes a reading over the message of a transaction that failed (`application-temperature.c:168-171`).

The light sensor is switched on when the board starts (`application_init_light`, whose failure nobody
looks at), and is told with each `lightr` to be on and in one of its two ranges. It answers by an octet what it does (`Reaction`), and then with
samples of two channels. `Accepted` are the tests of these octets, `Evaluation` is what `adc2count` and `count2lux` make of the samples, the latter only
as far as its sign: a difference that is negative may be rounded to zero or refused. The sensor may lose its power
at any time (`LosePower`), and is off afterwards.

`TwiRecover` follows single statements, and what they do to SCL and SDA, against a slave that shifts out bits. In
`TwiMaster` recovery may succeed or not, as `TwiRecover` shows.

### Application

`Arguments` is the parser of `application_content`, its two nested loops and the one behind them. Each loop is a recursive function of how far
it has come: `src_current`, which counts modulo `IndexMod`, `src_length`, which tells what is left of the line, and what has been found (`Cursors`). `Call` looks a line up in `Table`, which has the 19 entries of the code with their order, the number of arguments
they require and the length of their names, but names them by one octet.

`eeprom` is an array of numbers, each of some octets; an octet is named by the number it belongs to, so that a number some octets of which
are of another is recognised (`Torn`). `bgw`, `tempw` and `lightw` compute what they write (`Writes`: a sensor that is
not there is not written), and `WriteOctet` does what `eeprom_update_block` does, until `Return` reads
the numbers again and replies. The power may fail at any time (`PowerCut`), and an octet that was being written is then `Broken`; a
reset by the watchdog lets the EEPROM finish it, and is a special case. `asked`, `acknowledged` and `held`
only record what clients have been told.

`Printed` is the pattern of `application.c:285-287`: an offset of 8 bits is taken from a size of 16. `Room` is the loop over
the lines of `dump` or `help`, and yields the last octet that any of them reaches. How the commands of the other modules answer is left to them.

## 3. Runs

| run | instance | distinct states | checks |
|---|---|---|---|
| `tcp4` | 2 hosts x 2 ports, 2 local ports, 3 lines, numbers modulo 3 | 3973 | `TypeOK`, `ListenIsBlank`, `Implements` |
| `session` | 1 client and 2 losses, or 2 clients and none; 2 lines, 1 restart | 144195 | `SessionTypeOK`, `InStep`, `RunOnce`, `AckMeansRun`, `Available`, `Decided`, `Answered` |
| `session_syn_ack` | 1 loss | | `SynAckAgain`, violated |
| `session_other_host` | 2 clients | | `OtherHostRefused`, violated |
| `lan` | 2 boards with the same xid, 1 stimulus | 207617 | `TypeOK`, `OwnAddress` |
| `lan_alone` | 1 board, 2 stimuli | 1339 | `Configured`, `Silent` |
| `lan_dropped` | 2 boards | | `Dropped`, violated |
| `mainloop` | octets below 7, watchdog of 6 ticks, turns of up to 2 | 1875915 | `TypeOK`, `Accounted`, `LedTimed`, `Prompt`, `HangEnds`, `OnlyHangsRestart`, `TurnsAgain` |
| `enc` | a ring of 11 cells, frames of 2 to 4, 2 frames to be sent | 126176 | `TypeOK`, `NoRoomLost`, `IsQueue`, `SentWhole`, `ErrorsCounted`, `Delivers` |
| `twi` | 3 addresses, 3 octets, 6 samples, sizes of the code | 762411 | `TypeOK`, `Released`, `OkMeansWhole`, `ErrorTells`, `TemperatureRead`, `LightRead`, `LightRefused`, `CommandEnds` |
| `twi_recover` | 3 octets | | `Recovers`, violated |
| `application` | sizes of the code, numbers of 2 octets, lines of up to 4 pieces, 1 failure of the power | 126943 | `TypeOK`, `Parsed`, `Durable`, `Prefix`, `Fits` |

What they show:

- **`Implements`**: at any time, whatever arrives, only the owner of the connection hears
  anything but a refusal, and a refusal changes nothing for the owner.
- **`ListenIsBlank`**: the first SYN/ACK of a connection takes its number from `lseq`, which is not
  set before; every one of the ways back to `state_listen` has to leave 0 there.
- **`InStep`**: whenever the connection is established and nothing is under way, `lseq` is what the client expects
  next and `rseq` what it will send next. This also holds across a restart and across the connections of two clients.
- **`RunOnce`**: without loss no line is run twice, although `process_tcp4` never
  compares the number of a segment with what it expects.
- **`AckMeansRun`**: a client that learns that its line was received, and goes on, can rely on it: the
  line was run, restarts and losses or not, unless it came with the client's own FIN. A line that is answered with a reset instead may or may not have been run.
- **`Available`**, **`Decided`**, **`Answered`**: the service becomes free again and again;
  an attempt to connect is answered one way or the other; a line is acknowledged or the connection known to be gone.
- **`OwnAddress`**: no board takes the address of another. `xid` cannot tell boards apart whose MAC addresses share
  their last four octets; `chaddr` does.
- **`Configured`**, **`Silent`**: a board gets its address and keeps it, with other
  frames between its requests and the replies; then the exchange comes to rest.
- **`Accounted`**: the counter of ticks is copied and cleared unprotected, but nothing worse happens than that one tick is
  lost, because its high octet stays 0: a turn comes before it is needed.
- **`Prompt`**: the chip interrupts only when it had no frame before, and may do so just before the loop
  goes to sleep; the tick of the timer makes up for both. It is a bound for each frame: the turn that is under way when it comes, and a tick and a turn for
  itself and for each frame that is there already, because no turn takes more than one. TLC finds the bound reached by the first and by the second frame in the
  chip: it is violated with one tick less.
- **`HangEnds`**, **`OnlyHangsRestart`**: setting WDIE with each turn keeps the watchdog from resetting a board that works
  (nothing ever calls `wdt_reset` in the loop), and lets it reset one that does not, with the second timeout.
- **`IsQueue`**, **`NoRoomLost`**: frames come out as they went in, each once, whatever the chip writes meanwhile
  and wherever the ring wraps; all room that is not free belongs to a frame that will be read.
- **`Delivers`**: and they do come out, unless the board is restarted. `IsQueue` is `Ordered` of `RxQueue`, which only says what may
  happen; `Delivers` is its `Delivery`, which says that it does.
- **`SentWhole`**, **`ErrorsCounted`**: what the chip is told to send is the frame of this call up to its last octet, and nothing of a longer one
  before it; each failure is counted once, although the flag is cleared in two places.
- **`Released`**, **`OkMeansWhole`**, **`ErrorTells`**: a transaction gives the bus back on each way out, returns ok only if the
  slave has taken all of it, and otherwise an octet that names the step that failed and the state that the hardware reported then. The step is compared with how far the bus, the slave and the octets
  received show that the transaction has come (`Reached`); how many octets the slave has taken before one that failed is not in it.
- **`TemperatureRead`**: what sensor 2 or 3 is asked for comes from the temperature register, whatever `twiw` has selected before.
- **`LightRead`**, **`LightRefused`**: `lightr` says ok only about one sample of each channel in the range that was asked for; that is why it has to hear from the sensor twice
  before it reads, and looks at the valid bit: a sensor that was switched off in between sends zeros. Two good samples are refused only if the second channel has more than the first.
- **`CommandEnds`**: each command ends, if only by a restart; the start, which talks to the light sensor itself, may have to be repeated as long as the bus hangs.
- **`Parsed`**: the arguments are the first four words of the line, the first seven octets of each. The reference definition finds words by
  where they begin and end, and knows of no loop.
- **`Durable`**: what a client was told is in the EEPROM is there until a command writes to the same place, through failures of the power while other places
  are written, and commands for sensors there are not change nothing.
- **`Prefix`**: what a command that was cut short leaves is new up to some octet and old from there on, so an offset is never newer than its factor.
- **`Fits`**: the lines of `dump` and `help` stay within the 302 octets that are left to a reply over TCP, where a header is taken off twice, the
  least of any of the ways a line may come, while the EEPROM holds no number that is torn or wider than `Widest`: the last line is cut, and the size that is left does not wrap. In the
  run numbers may be both, by a failure of the power or by 1e38, and then the size does wrap.

### What does not hold

Four runs end in a violation of what a comment in the code says.

- `SynAckAgain`: `tcp4.c:288` handles a repeated SYN, "our syn/ack got lost, try
  again". The answer acknowledges the number of the SYN itself (`tcp4.c:296`; the
  first one, at `tcp4.c:243`, counts it), and is numbered with an `lseq` that has been
  counted on. The client rejects it with a reset, which clears the entry; its next
  SYN starts anew. This is why `Decided` holds all the same.
- `OtherHostRefused`: `tcp4.c:282` says "refuse other host while connected", but
  a reset is obeyed before the sender is looked at (`tcp4.c:217-221`). In the
  counterexample no host does anything wrong: the first client is killed, and answers
  a segment that comes too late with a reset, when the second is being served.
- `Dropped`: `udp4.c:75` says "drop", but nothing is: see `Lan` above. Two boards that are told
  so by each other go on for ever.
- `Recovers`: `twi_master.c:166` says "try to resolve bus locked by slave" and line 171 "SDA -> HiZ", but the statement
  clears bit 6 of DDRC and SDA is bit 4 (`main.c:63`). Bit 4 is an output that is low (`main.c:79`), so that the board
  itself keeps SDA low as soon as the TWI hardware is off. The slave takes that for an acknowledgement after
  its eighth bit, and goes on with another octet. With bit 4 an input, the same module satisfies `Recovers`.

### Limits of what holds

- On a wire that loses segments `RunOnce` is not claimed and does not hold: a line
  whose acknowledgement was lost is sent again, and run again.
- `Available` is not claimed with loss: when the one reset of a client that was
  killed is lost, nothing ever clears the entry, because the code has no timer.
- `Answered` is checked for one client. With two, a second one may connect and close
  again and again so that the line of the first always arrives in
  `state_close`, which takes its ACK for that of the FIN/ACK and says nothing.
- `Decided` is checked with two clients on a wire that loses nothing, and with one client on a wire that does.
- A line that comes in the same segment as the client's FIN (`tcp4.c:300-305`) is not run, and not acknowledged by the FIN/ACK, which counts
  one octet; its repetition meets a board that says goodbye. `AckMeansRun` leaves such lines out.
- `InStep` and `RunOnce` are claimed until the first segment is lost, and for clients whose timeout is longer than the way to the board and back (`Retransmit` waits until nothing of the
  client is under way). One that repeats itself too early has its line run twice even on a wire that loses nothing, for the same reason.
- In bright light, from `chord` 5 and `step` 8 on, `stepval` wraps (`application-light.c:34`), and good samples may be taken for
  an error. `LightRefused` is claimed for samples below.
- Sensor 256 is sensor 0: the index has 8 bits (`application-temperature.c:187`). `Durable` takes a client to mean what it gets.
- Behind 256 octets a line is read as if it began anew (`application.c:206`), as `Parsed` says openly. A segment may hold
  such a line, since the board offers to take 322 octets (`tcp4.c:87, 190`).
- `Prefix` is what is left of a pair: the code has no way to write both of it or none. A number that was torn by a failure of the power, or
  given with an exponent, may need more room in `dump` than there is, and nothing in the code looks at it: after `tempw 0 1e38 1e38` `dump` is printed beyond its room in the run, too.
  `Fits` therefore is about an EEPROM without such numbers.
- That the message of a failed transaction reaches the user is not claimed for `tempr`, and is not so: after the `switch`,
  `application-temperature.c:171` writes "ok temp" over it, as `Replies` has it.
- `Configured` is for a board among stations that are not boards. Two boards that
  both lack an address add more to each other's buffers with a turn than a turn
  takes out (a request and a reply against one frame received), and the reply of the server may be dropped
  every time.

### Bounds

`MaxLoss`, `MaxReboots`, `MaxStimuli`, `MaxWaiting`, `BufferSize`, the initial numbers
`Iss` and the set of lines, each typed once, are the bounds; they appear in guards under
these names. Sequence numbers are modulo `SeqMod` instead of 2^32: 3 in `tcp4`, where
every number can occur and the code only adds; 16 in the session, where clients compare
numbers in a window of 8 and no connection uses more. Clients begin with 15, so that every
connection wraps. Two hosts are enough for an owner and a stranger, two ports for a
stranger on the owner's host. Two lines are enough for one that is answered and one that
is not or that ends the session. One restart and two losses include the loss of an
acknowledgement and of the answer to its repetition. Two boards with a shared xid are
the smallest wire on which a reply can be mistaken, and a buffer of two frames already drops some.

`MainLoop`: with turns of two ticks every place of the loop meets a tick, and a watchdog of six ticks is the
shortest that `MainLoopAssumption` allows, as are octets below seven; the proofs cover the real ones. `Enc28j60`: eleven cells hold
two or three frames, so that the ring is full, wraps within frames and headers, and drops; frames have the
length of the buffer, one more, and a damaged one; the frames to be sent are a short and a longer one, so that one may be left over behind the other. `TwiMaster` has the sizes of the code and three octets, two of which are registers;
its samples are none, the two that are not counts, and counts of two chords below and above the point where `stepval` wraps.
`TwiRecover`: octets of zeros, of ones, and mixed ones. `Application`: `MaxCuts` failures of the power; three values, the longest that an argument can
hold without an exponent, a short one and 1e38, for sensors that are there and sensors that are not; and all lines of up to four pieces, among which are words shorter, as long as and longer than
an argument, octets that are no letters, and enough blanks to make `src_current` wrap. To keep the run short these lines come only to a board that has just
started (`Nothing`), since taking a line apart depends on nothing else.

### Fairness

`TcpSession`: the main loop never stops, so the reply is sent (`WF` of `Deliver`). Frames are
received in the order of arrival, whoever sent them; with a queue per client this is `SF` of
`Receive`, because what one client sends may be passed over only finitely often. Clients read (`Hear`), repeat themselves
(`Retransmit`), close when they have nothing left to wait for (`Close`), and wait for the FIN of
the board only so long (`GiveUp`: the board's FIN/ACK is never repeated, and after
a quit it acknowledges a FIN without sending another). They are not obliged
to connect, to type or to be killed, and neither losses nor restarts are ever obliged to happen.
`Lan`: each step of the loop of each board, and the server. `MainLoop`: the processor goes on, time passes, and
a handler that is not one of those that hang ends (`SF` of `Handled`, which `Command` and `Periodic` put off). `Enc28j60`:
the main loop calls `enc_receive_frame` again and again (`SF`: it also sends), sending goes on, the chip comes to an end with a frame, and a board that hangs is restarted. `TwiMaster`: the hardware reports or stays silent for ever, and
a board that waits in vain is restarted, which is `HangEnds`.

Deadlock is checked in all runs but `twi_recover`, where the function returns: there is always somebody who may go on.

## 4. Proofs

| theorem | says |
|---|---|
| `Tcp4Proofs!TypeCorrect` | `Spec => []TypeOK` |
| `Tcp4Proofs!ListenBlank` | `Spec => []ListenIsBlank` |
| `Tcp4Proofs!Refinement` | `Spec => Implements`: `Tcp4` implements `SingleClient` |
| `LanProofs!TypeCorrect` | `Spec => []TypeOK` |
| `LanProofs!AddressIsOwn` | `Spec => []OwnAddress` |
| `MainLoopProofs!TypeCorrect` | `Spec => []TypeOK` |
| `MainLoopProofs!TicksAccounted` | `Spec => []Accounted` |
| `MainLoopProofs!LedIsTimed` | `Spec => []LedTimed` |
| `MainLoopProofs!FramesArePrompt` | `Spec => []Prompt` |
| `MainLoopProofs!HangsEnd` | `Spec => []HangEnds` |
| `MainLoopProofs!RestartsAreHangs` | `Spec => OnlyHangsRestart` |
| `TcpSessionProofs!SessionTypes` | `SessionSpec => []SessionTypeOK` |
| `TcpSessionProofs!LinesAreRun` | `SessionSpec => AckMeansRun`, an action property, whatever is lost |
| `TcpSessionProofs!LinesRunOnce` | `SessionSpec => []RunOnce` |
| `TcpSessionProofs!EndsAgree` | `SessionSpec => []InStep` |
| `Enc28j60Proofs!TypeCorrect` | `Spec => []TypeOK` |
| `Enc28j60Proofs!RoomIsKept` | `Spec => []NoRoomLost` |
| `Enc28j60Proofs!FramesAreQueued` | `Spec => IsQueue`: `Enc28j60` implements the safety of `RxQueue` |
| `Enc28j60Proofs!WholeIsSent` | `Spec => []SentWhole` |
| `Enc28j60Proofs!FailuresAreCounted` | `Spec => []ErrorsCounted` |
| `TwiMasterProofs!TypeCorrect` | `Spec => []TypeOK` |
| `TwiMasterProofs!BusReleased` | `Spec => []Released` |
| `TwiMasterProofs!WholeIfOk` | `Spec => []OkMeansWhole` |
| `TwiMasterProofs!ErrorIsTold` | `Spec => []ErrorTells` |
| `TwiMasterProofs!TemperatureIsRead` | `Spec => []TemperatureRead` |
| `TwiMasterProofs!LightIsRead` | `Spec => []LightRead` |
| `TwiMasterProofs!LightIsRefused` | `Spec => []LightRefused` |
| `ApplicationProofs!TypeCorrect` | `Spec => []TypeOK` |
| `ApplicationProofs!CalibrationsLast` | `Spec => []Durable` |
| `ApplicationProofs!OrderIsKept` | `Spec => []Prefix` |
| `LineProofs!ArgumentsAreWords` | `Spec => []Parsed` |
| `LineProofs!NumbersAreKnown` | what is read from the EEPROM and not torn is what it was delivered with or what a command wrote |
| `LineProofs!RoomSuffices` | `Room(lengths) <= ReplySize`, for any lines all of which but the last have room |
| `LineProofs!RepliesFit` | `Spec => []Fits` |

They hold for every value of the constants that satisfies the assumptions, which TLC evaluates in the runs:

- `Tcp4Assumption`, `NoReplyAssumption`: the null values are no real ones, a line has at least one octet, the modulus of sequence numbers is
  positive (2^32 is one).
- `SessionAssumption`: the initial numbers of clients are numbers, and a line is shorter than half of the modulus. A line comes in one frame.
- `LanAssumption`, `StimuliAssumption`: the server assigns addresses, never the broadcast address; nobody else sends BOOTP replies.
- `MainLoopAssumption`: a turn is shorter than half of the watchdog's period and than half of what an octet counts. They are 244 ticks and 256.
  Nor does the start take longer, from `wdt_enable` on.
- `EncAssumption`: the ring has cells, the buffer of the driver has room, a frame is not shorter than its checksum, and what is sent fits
  into the buffer.
- `TwiAssumption`: the two sensors have addresses of their own, samples are octets, and a read is of more than one octet.
- `ApplicationAssumption`: there is room for one argument at least; each of at least one octet and the zero behind it, since with less the outer loop of
  the parser would never come to an end; a reply is smaller than what a size of 16 bits counts to.
- `NumberAssumption`: `atoi` makes an integer of an argument, and what `atof` makes of one is no octet cut short by a failure of the power. It does not say how wide a number
  is when it is printed: `Widest` is a bound that `Fits` has in its premise, about what the EEPROM holds and not about what clients send. It is 13 in the run, for the
  six digits that an argument has room for behind its sign, a point, and five decimals.
- `ReplyAssumption`: all lines of `help` but the last have room in a reply, and so have those of `dump` if all numbers are of the width `Widest`. It is a sum over
  the table and the layout, which TLC evaluates with those of the code and the sizes it has for them. It says
  nothing about what the EEPROM holds at any time, nor about a dump of narrower numbers: that is what the proof is for.

The inductive invariant of `Tcp4` is `TypeOK /\ ListenIsBlank`. The refinement needs the
second part: an idle service has no owner in `SingleClient`, which is what the mapping yields only if the address and the port
of an idle entry are cleared; a `ListenOther` would otherwise change the owner while it maps to
a refusal. Each action of `Tcp4` is shown to map to an action of `SingleClient` or
to a stutter, one step of the proof each.

The inductive invariant of `Lan` adds to `TypeOK` and `OwnAddress` what makes the latter
inductive: every BOOTP reply in any buffer carries the address assigned to its `chaddr`. It is
preserved because only the server makes such frames (boards answer with other kinds, stations send other kinds),
and because what a buffer holds after `Put` or after taking its head was there before or was put in. A board that accepts
a reply has compared `chaddr` with its own address, and so takes what was assigned to it.

The inductive invariant of `MainLoop` is `TypeOK`, `LedTimed`, `Timing` and `Ticks`. `Timing` relates what time does to the place of the
loop: while WDIE is clear the watchdog has run for no longer than this turn (`Watched`), or since the one before
if the loop has just been woken; each frame has waited no longer than since the turn before those that have taken the frames in front of it (`Waiting`, where
`Overtaken` counts these turns: as many as frames were there when it came, less those that are still there); a loop that
hangs has not seen more than one timeout (`Seen`). `Ticks` follows the two octets through their copy and their
clearing: at rest the low octet has lost one tick at most (`Resting`), in between the difference to its copy is the tick
that came meanwhile (`Copied`), and since the copy is not older than two turns (`Recent`) neither carries
into the high octet (`High`). TLC has checked these formulas as invariants of the same instance.

The inductive invariant of `TcpSession`, `SInv`, has four parts. `Kept` are types, and the invariant of `Tcp4`. `Owned` says that lines
under way were typed. `Flows` holds on any wire: of each client at most one line is under way. It is on its way up
(`Runnable`), or something that tells that it has been run (`Telling`) is on its way down, never both; and what goes down to a
client that has not closed acknowledges the line that it waits for, which is in `ran`. This is `AckMeansRun`. `Tuned` holds until the first segment is lost: what
tells of a line carries the number that the client expects (`Exact`), and between the board and the client it serves `lseq` and `rseq`
are ahead of the client's numbers by what is under way, no more (`InTune`). A client that the board still serves, but which has closed or was
killed, has a FIN or a reset on its way. Queues are taken apart by lemmas on what
is left under way when a queue loses one of its ends (`FlowLess`) or more lines have been run (`FlowMore`), so that each action needs
only what it sends and hears.

The inductive invariant of `Enc28j60` is in two parts, since receiver and transmitter share nothing but `pc`. For the receiver, `Ringed` says that there are distances from
`ERXRDPT` at which the frames lie, one behind the other within one turn of the ring, and where `ERXWRPT` is behind the last
(`Layout`); `Copied` says how far the driver is with the first of them. What the chip writes lies behind the last (`Untouched`), so frames stay what they were (`FramesStay`);
`Arrive` makes the layout longer (`Longer`), `Free` makes it shorter (`Shorter`). That the pointers in memory lead along the layout, however long it is, needs
induction, which the provers do not have; `Least` takes its place: of the places where the two part there would be a first one. The
refinement follows: each action appends to, takes from or leaves what `Stored` is. For the transmitter, `TInv` follows what of a frame is written from `Write` to
the end of `Sent`.

The inductive invariant of `TwiMaster` describes a command by its transactions (`Planned`), of which `script` holds those that are left. `Transferred` and
`Held` say how far the one under way is and who has the bus; with them the step that `pc` names is the one that was `Reached`, and `StepReached` says so, which is what `ErrorTells` needs when a step fails. `Measured` is for `tempr`: from its second transaction on, the thermometer has
its temperature register selected. For `lightr`, `Selected` says what the sensor, if it has not lost its power since, does because it has been told to; `Sampled`, that an octet
which is not zero was therefore what was asked for, of that channel and in that range; and `Confirmed`, that the command only went on since the sensor
said so. `LightRead` needs all three: a sensor that lost its power answers zeros, which the test of the valid bit refuses.

The inductive invariant of `Application` relates what a command writes to what was asked for (`Agreed`: one or two numbers, in consecutive places), and to what has been written
so far: `Progress` while it goes on, `Partial` whenever it ended. `InDoubt` says that no client has been told of a number that is being written, which is what makes `Durable` survive
a failure of the power. As no octet is written twice (`Distinct`), writing one of them leaves the others as they are.

`LineProofs` is about the loops of `Application`, where one would expect induction. Its first lemmas are about any loop that leaves less to do with each round:
there is such a function (`LoopExists`), and what each round preserves and the end implies holds of its value (`LoopRule`). Either is
shown by contradiction: of the states with more and more left to do there would be a first that fails (`Least`). As loops, states and measures are sets, no
operator has to be passed. The parser follows: `Taken` and `Skipped` say what the two inner loops do with a line from any place on, `NextArgument` what they make of the
next word together, `NextWord` that it is the next in the order of `Words`, and `GatherMore` that the outer loop has gathered the first words so far.
For this no word may be begun in its middle (`Boundary`), which is what the third loop is for. `Parsed` is then inductive
as it stands: a reply that names arguments is made from a request, and any request names the words of its line (`RequestNames`).

For `Fits`, `RoomSuffices` keeps that the size that is left and the octets that are used make up the reply, and that those are no more than the lines so far
`Needed`; the last line is the one that may have the size wrap, and is followed by none. The inductive invariant `FitInv` adds to `Fits` that a command says nothing
while it writes (`Quiet`). If the numbers that are printed are not torn and no wider than `Widest`, `dump` is no longer than the one that has room (`DumpAtMost`,
`ShorterFit`). `reply.top` is of the time when it was printed and `Fits` speaks of the EEPROM as it is now, which is why `Quiet` is needed: by the time a torn or wide number is written
anew, the reply that told of it is gone. `NumbersAreKnown` has an invariant of its own, `HoldInv`, which adds to that of `Application` that
each octet of the EEPROM is of a number that came into it, or broken (`Holding`), and that a command writes no others (`Writing`).

TLC has checked all of these invariants on the instances of the runs, with the distances of `Layout` computed and the places in `Agreed` bounded. Three steps of `TcpSession` were wrong
until their proofs failed: two alternatives of a client (in `HearSynSent` and `HearInOrder`) overlapped, and `HearFin` made a client
that had heard a FIN before forget that.

Only model-checked:

- Liveness, that is `Delivers`, `CommandEnds`, `TurnsAgain`, `Configured`, `Silent`, `Available`, `Decided` and `Answered`: fairness and `ENABLED`
  are outside of what the provers handle.
- `TwiRecover`, whose one property does not hold.

No module declares a recursive operator (the loops of `Application` and the chain of `Enc28j60` are recursive functions),
so that nothing stands in the way of further proofs. Of the properties of the passing runs every invariant and every action property is proved, and
the refinements `Implements` and `IsQueue` are.

## 5. Plan

In this order; done so far are 1 to 10.

1. `SingleClient`, `Tcp4`, its refinement, type invariant and proofs.
2. `TcpSession`: clients, loss, restarts; the composition of `Tcp4` with its environment.
3. `Lan`: address configuration and the frame path, with several boards.
4. `LanProofs`: nobody takes the address of another.
5. `MainLoop` and `MainLoopProofs`: turns, ticks, watchdog.
6. `RxQueue` and `Enc28j60`: the receive ring as a queue.
7. `TwiMaster` and `TwiRecover`: transactions, and the recovery of a locked bus.
8. `Application`: the argument parser against a reference definition, the lengths of replies,
   calibrations in EEPROM and the power failing in between.
9. The sending side of `Enc28j60`, the light sensor in `TwiMaster`, and lines that come with a FIN in `TcpSession`.
10. `TwiMasterProofs`, `Enc28j60Proofs` with the refinement of `RxQueue` (without liveness), `ApplicationProofs`, and `TcpSessionProofs`, by an invariant over the segments under way.
    `LineProofs`: the parser, and replies of many lines, for lines of any length.
11. `Checksum`: what `ipv4_checksum` puts into a packet is what it accepts; the lengths of packets on their way down, -1 among them (`udp4.c:83`).
12. The pattern that `application_periodic_pwm` puts on its outputs; `pause_adc` and the interrupt it waits for.

## 6. Not modelled

Contents, layout and formatting of packets and replies; floating point; delays; SPI
transfers; what the registers of peripherals do electrically; the counters of `stats.c`; the
painted stack; printing for development. What section 5 lists from 11 on is not modelled yet. Of `tempr` the reading is left out, which is 0 if a transaction
failed.

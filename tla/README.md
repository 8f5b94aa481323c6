# TLA+ specifications of the nv driver

`xf86-video-nv` is the X.Org driver for NVIDIA chips from the Riva 128 to the
G80.  These modules describe the parts of it whose correctness depends on the
order of events: the command ring shared with a running engine, drawing that
relies on state set long before, video that the hardware, the client, V4L and
timers all take part in, mode sets made of many calls that may fail half-way,
consoles that must come back as they were, and screens that live through several
generations of the server; and the searches and copies in it whose arithmetic has
corners.  They are checked with TLC on small instances, and every safety property
that the checks find to hold is proved with TLAPS for all values of the constants.

`PROJECT.json` lists the components, the runs, the lines each definition stands
for, the hazards, and the mutants that show that each property can fail.

## 1. Inventory of the system

The X server is single threaded: it calls the driver's entry points one at a
time, and `BlockHandler` before it sleeps.  Concurrency comes from the hardware,
which fetches commands, draws, scans the screen and changes video buffers on its
own.

| Component | State | Operations | What makes it correct |
|---|---|---|---|
| DMA ring, `nv_xaa.c`, `nv_local.h` | `dmaCurrent`, `dmaPut`, `dmaFree`, the buffer, PUT and GET | `NVDmaStart`, `NVDmaNext`, `NVDmaWait`, `NVDmaKickoff`, `NVSync`, `NVDMAKickoffCallback` | every word reaches the engine once and in order; nothing unread is overwritten; waits end; sync means done |
| G80 ring, `g80_dma.c` | the same | `G80DmaStart`, `G80DmaWait`, ... | the same |
| XAA acceleration, `nv_xaa.c` | `currentRop`, the engine's graphics state, the scratch line, XAA's sync flag | Setup/Subsequent pairs, scanline functions | a drawing command executes with the state its caller asked for; the CPU never meets outstanding drawing |
| Video, `nv_video.c` | `linear`, `videoStatus`, `videoTime`, `currentBuffer`, `grabbedByV4L`, `clip`, colour key; `VideoTimerCallback` shared by two ports | `NVPutImage`, `NVStopOverlayVideo`, `NVSetOverlayPortAttribute`, the offscreen surface functions, `NVVideoTimerCallback` | the overlay is off when the driver says so; copies stay apart from the buffer on display; stopped video is turned off and freed |
| DGA, `nv_dga.c` | `DGAactive`, the viewport, `CurrentLayout` | `NV_SetMode`, `NV_FillRect`, `NV_BlitRect`, `NV_SetViewport` | its drawing follows XAA's rules; the layout is that of the mode that is set |
| Lifecycle, `nv_driver.c` | `vtSema`, the record with its pointers and flags, sub-modules | `NVPciProbe`, `PreInit`, `ScreenInit`, `SwitchMode`, `EnterVT`, `LeaveVT`, `BlockHandler`, `CloseScreen`, DPMS, RandR rotation | nothing is called that is not loaded or followed that is freed; the engine is quiet when the VT is left; drawing survives mode switches |
| Modes, `nv_hw.c`, `nv_dac.c` | `SavedReg`, `ModeReg`, `CurrentState`, the lock of the head | `NVDACInit`, `NVLoadStateExt`, `NVUnloadStateExt`, `NVShowHideCursor`, PLL search, FIFO arbitration | the mode is in every register; no mode set changes the other head's clock; the console comes back; the display's FIFO never runs dry; searches end |
| Output detection, `nv_setup.c` | chip parameters, `FlatPanel`, `CRTCnumber`, the EDID | `NVCommonSetup` | the mode set suits any outcome of the probes |
| Cursor, shadow, `nv_cursor.c`, `nv_shadow.c` | the shadow, `Rotate`, the pointer's handler, damaged boxes | conversions and rotated copies | every pixel of a box goes to its place, and nothing else |
| G80 display, `g80_display.c`, `g80_sor.c`, `g80_dac.c`, `g80_output.c`, `g80_cursor.c` | per CRTC clocks, dithering, `skipModeFixup`; per output `cached_status`, `scale` | `G80DispCommand` and its supervisor, mode set, properties, detection | the display shows the server's configuration, with its clocks; a failed property change leaves the old one |
| G80 driver and acceleration, `g80_driver.c`, `g80_xaa.c`, `g80_exa.c` | ring, operation state | `G80AcquireDisplay`, `G80InitHW`, XAA and EXA hooks | as for NV |
| Riva 128, `riva_*.c` | `FifoFreeCount` | as for NV, with a FIFO of registers in place of the ring | no write without a free entry |

How they interact: XAA, DGA and the blitter port write methods into one ring
and share the engine's graphics state.  `NVBlockHandler` runs two callbacks, one
that publishes what was not kicked and one for the video timers.  Mode and VT
switches wait with `NVSync`, reload the engine (`NVLoadStateExt`), and start the
ring and the graphics state again (`NVResetGraphics`); `NVLoadStateExt` also
stops the overlay without telling `nv_video.c`.

What is hard here: a cached `dmaFree` used long after GET was read; the
wrap-around of the ring while the engine follows; a cached `currentRop`; drawing
that only the block handler publishes; a CPU copy that races the vertical blank;
one timer callback for two ports; memory that is freed while it is shown; mode
switches that fail half-way; a clock that is asked for in the middle of a change
of the configuration; registers of two heads behind one lock and one selector;
lists of registers that must agree between the functions that save and those that
load; a pointer that one generation frees and the next does not set; a search
that gives up margins and may take one back.  `PROJECT.json` has each of them at
its line.

## 2. Modules

| Module | Models | Depends on |
|---|---|---|
| `CommandStream` | what the ring promises: a bounded FIFO of words between driver and engine | - |
| `DmaRing` | the ring itself, one register or memory access at a time | refines `CommandStream` |
| `DmaRingProofs` | theorems about `DmaRing` | `DmaRing` |
| `NVAccel` | XAA, DGA drawing, the blitter's drawing, mode and VT switches, above the ring | uses the ring as `CommandStream` describes it |
| `NVVideo` | the overlay, its memory and timers, V4L surfaces | - |
| `G80Display` | heads and outputs of the G80: mode sets, properties, cursor, DPMS, resizing, VT switches | - |
| `NVChip` | what the driver knows of a chip from its id; its tables of objects and tile regions | - |
| `Clocks` | the two searches for PLL coefficients, as functions | - |
| `NVFifo` | `NVCalcStateExt`: the clock and the FIFO settings of a mode | `Clocks`, `NVChip` |
| `NVModes` | output detection, console and mode registers, the hardware cursor, VT switches, DPMS, VBE | `NVChip` |
| `NVShadow` | the refresh functions of the shadow, as sets of words copied | - |
| `Screens` | probe, PreInit, ScreenInit and CloseScreen of the three drivers over several generations, with the shadow and its rotation | `NVChip`, `NVShadow` |
| `NVAccelProofs`, `NVVideoProofs`, `G80DisplayProofs`, `NVModesProofs`, `ScreensProofs`, `ClocksProofs` | theorems about the module they are named for | that module |
| `NVFifoProofs` | theorems about `NVFifo` | `NVFifo`, `ClocksProofs` |

### DmaRing

`mem` is `dmaBase`, `PUT` and `GET` the registers, `dmaCurrent`, `dmaPut` and
`dmaFree` the fields of `NVRec`, `dmaGet` the local of `NVDmaWait`; `pc` is the
place in `NVDmaStart`, `NVDmaWait` or `NVSync`.  The engine has `methodLeft`,
the data words it still expects, and `pgraph`, whether PGRAPH is busy.  A step is
one access, so the engine may fetch between any two accesses of the driver.  The
engine is external: it is modelled from what the driver relies on and from the
comment above `SKIPS`.  A method is a header with its count, then data; addresses
and payloads are opaque.  `size` is never zero, as in every call of
`NVDmaStart`.

The refinement mapping takes for the abstract `stream` the words on the engine's
way from `GET` to `dmaCurrent`: `Count` of them, the `k`-th at the address
`Place(k)`.  The way starts behind the no-ops when `GET` is among them, leads to
the first jump when the driver is behind the engine (`Wrapped`), and from there to
behind the no-ops again.  `DmaStart`, waiting, wrapping and kicking are stuttering
steps of the abstract specification.

### NVAccel

`cmds` holds methods written and not executed, of which the first `kicked` are
published: a state of `CommandStream` with the position of PUT added.  `hw` is
the engine's graphics state.  Each drawing command carries the state its caller
wants (`want`), which the code of course does not send; comparing the two when
the command executes is what `DrawnAsIntended` does.  `needSync` is XAA's flag,
set by XAA after every Subsequent call and by the driver through
`SET_SYNC_FLAG`.  `pc` distinguishes the waits of `NVSync` inside entry points,
and XAA's scanline loops, in which no other entry point runs.

Left out: coordinates, the number of dwords, `MaxCmds` as a property of the ring
(a driver step waits until there is room; that it then goes on is `DmaRing`'s
`WaitEnds`).

### NVVideo

Memory is an array of cells, so that two areas that overlap can be told apart
from two that do not.  `use` and `enabled` are `PMC[0x8700]` and
`PMC[0x8704]`; `buf` is what each of the two hardware buffers was programmed
with.  `PutImage` decides the place, `PutImageCopied` is the copy's end and
`NVPutOverlayImage`; vertical blanks and the clock may come in between.  The
allocator is the server's: it may place an area anywhere, fail, or resize one in
place.  `AllocateOverlayMemory` has the code's order: an area that is too small and
cannot be resized is freed before another is looked for, also under an overlay that
is on.  `moved` remembers that this happened to the area of the image on display;
it decides nothing and is there for `ReadsOwnMemory`.
`isOn` is the Xv layer's idea of the port, which determines when it calls
`NVStopOverlayVideo`.

### G80Display

`asm` is what the driver has sent with `C(method, data)`, `armed` what the display
has taken over with the last update `C(0x80, 0)`: for each head its timings, the
mode it scans out, the scaled size, pitch, dithering, cursor, and whether it is
lit; for each output the head it is connected to.  `pll` and `link` are the clock
registers, written in the supervisor interrupt within an update; `power` is an
output's DPMS register.  A head's timings say whose mode they were made from and
whether they have been fixed for the registers (`G80CrtcDoModeFixup`).  `pclk`, `dither`, `skipModeFixup` and `cursorVisible` are
`G80CrtcPrivRec`, `scale` is that of `G80OutputPrivRec`; `crtcOf`, `enabled`,
`mode` and `desiredMode` are the server's.  `crashed` is set when the dithering of
an output without a CRTC is changed, where the code follows a null pointer; nothing
happens after that.  `redone` holds the heads whose last mode set came right after
one that failed; it is there for `ConfigFollows`.

`SetMode` is a successful `xf86CrtcSetMode` with all the driver functions it
calls, in its order; `SetModeFails` one in which the server gives up before it has
programmed anything.  The callers are actions of their own: `CrtcSet` and
`CrtcOff` (RandR), `SetScale` and `RestoreScale` (the property and its second
attempt), `ResizeScreen` and `EnterVT` with `SetNext` for each head.  In between
the hardware shows what has been committed so far, so the invariants about the
hardware are checked there too.

The server is external: which of its calls may fail, and what it does to its own
fields, is modelled from what the driver calls and reads.  An update is one step;
the handshake of the supervisor's registers is not modelled.  What `G80DispInit`
sends when the VT is entered is 0 where starting the channel has left nothing, and
changes no state, so that the update it lacks makes no difference.  A head asks for a
clock when its timings or outputs change.  With a resize the screen is assumed to
be resizable (EXA, or no XAA).

### NVFifo and Clocks

`CalcVClock` and `CalcVClock2Stage` try one multiplier for each pair of dividers
and keep the first setting that is strictly nearest; `FirstNearest` says just
that.  `CalcStateExt` is `NVCalcStateExt` up to the loop of
`nv4CalcArbitration` or `nv10CalcArbitration`, `CalcArbitration4` and
`CalcArbitration10` are one round of it each, with `extra` for
`(min_)mclk_extra` and `cbs` for the burst.  That a round is a step makes the
end of the loop a liveness property.  `Round10` and `Round4` compute what a round
computes, quotient by quotient.  `arbitration0` and `arbitration1` outlive a
search that found nothing, as in the code, and `current` remembers whether they
are the mode's.

What the chip does with the settings is in no line of the repository.
`FifoSafe` therefore takes the code's own figures (how long until the data are
there, how much is drained by then) and says that the settings respect them at
both ends, after the rounding with which they are programmed: an NV4 may ask up to
one unit of 8 bytes late, an NV10 asks up to one unit early.  It does not say that
the figures are right.

### NVModes

`hw` has one field for each register, or group of registers that the code always
treats together, and its value is the mode it was computed for, `Text` for what
the console had, or `Driver`.  So "the mode is programmed" and "the console is
restored" are comparisons of values; `Loaded` and `Unloaded` are the lists of
`NVLoadStateExt` and `NVUnloadStateExt`, which differ, by chip and kind of
display.  A register of which the one writes more than the other keeps is two
fields: of CR47 bit 0 belongs to `crtc`, the rest is `cr47high`, which is written
and never read.  `constants` are the registers that get the same values with every
state, without a copy of what was there; `start` is the start address and pitch.
A write to a locked head is lost (`Written`), and a read of one gives anything
(`FifoRead`: `NVDACInit` reads CR1C before `NVModeInit` has unlocked the head).
`crtcSync` of a panel is how many tweaks have been added to the BIOS's value.
`vpll` is the PLL of the driver's own head, `otherVpll` that of the other; each
state record holds both.  `card` is chosen once, by `NVCommonSetup`, among all
outcomes of the probes (`Probes`) and the options that force a kind of display or
a head.  Which EDID limits the modes is not modelled.

The BIOS (`BiosSet`), another owner of the terminal (`OtherServer`), the driver of
the other head (`OtherDriver`, which sets that head's clock at any time, whoever
has the terminal) and the server's abort are external.  The server calls DPMS, the
cursor and the palette at any time while it has the terminal; it turns the monitor
on before it gives the terminal away.

### NVShadow and Screens

`Copies` is the set of (place written, place read) of a refresh: what the nested
loops with their moving pointers come to.  `Follows` compares it with where the
pointer handler shows each pixel, for every box of the screen.

`Screens` follows the driver's record over the generations: its pointers are
null, live or freed but still set; `mods` are the sub-modules PreInit loaded and
`used` those whose functions ScreenInit calls.  Every combination of options is
tried; a missing module and a failed allocation are choices of the environment.
A missing `int10` ends the server under NV and Riva (`PreInitDies`): they test
whether it loads, and then free its handle by a function of it in any case
(`nv_driver.c:1401` and `2084`, `riva_driver.c:396` and `809`).
`Riva` and `G80` have PreInit, ScreenInit and CloseScreen of their own, because
they differ from NV's in just the things the properties are about.

## 3. Runs

| Run | Bounds | Question |
|---|---|---|
| `DmaRing` | 8 dwords, `SKIPS` 2, methods of 1 and 2 data words, two payloads, nothing written by the reset | invariants of the ring, `SyncComplete`, refinement of `CommandStream`, `WaitEnds`, `SyncEnds` |
| `NVAccelSafety` | two raster operations, one planemask, pattern and colour, two scanlines, four methods outstanding, depth 15 | invariants of acceleration, `NoDrawLost` |
| `NVAccelLive` | one raster operation, one scanline | `DrawsGetPublished` |
| `NVVideo` | two cells, images of one cell (two with double buffering), one colour key | invariants of video, `StoppedIsFreed` |
| `NVVideoNewest`, `NVVideoKey` | two sizes; two colour keys | two disagreements of section 6 |
| `G80DisplaySafety` | a DAC, a TMDS and an LVDS output, two modes of which one needs dual link and is the panels' native one, two scales; two events, each a mode set that fails or a change of dithering, cursor, DPMS or screen size | invariants of the display |
| `G80DisplayTimings` | the same | a disagreement of section 6 |
| `NVFifoSafety` | eight chips (one of each loop and each PLL), seven clocks from 12 to 350 MHz, three depths, two memory clocks, two bus widths, page misses of 3 and 16 | `FifoSafe`, `PllIsBest`, and `LoopEnds` for these clocks |
| `NVFifoHang` | an nForce with an engine clock of 175 MHz | a disagreement of section 6 |
| `NVModesSafety` | seven chips (each generation, one and two heads, NV11, a chip that tweaks its panel), two modes, tweaks up to 2 in sum, one failure | console, mode, cursor, engine, the other head's clock |
| `ScreensSafety` | seven devices (for each driver, with and without an overlay, behind a bridge), 8, 16 and 32 bits per pixel, three generations, one missing module, one failed allocation, a frame of 8 by 3 | modules, pointers, shadow, engine |

Why the bounds are enough.  The ring of 8 dwords holds a method of each size and
the jump, fits a method exactly at its end, and wraps with the engine in front
of, among and behind the no-ops; `SKIPS` = 2 leaves a no-op between the jump's target and
PUT, which is what the padding is for.  Larger rings are covered by the proofs.
Four methods outstanding hold the longest sequence one entry point writes
(`NVPutBlitImage` at depth 15) and so make every entry point meet a full ring.
Two raster operations, together with solid, planemask and pattern, reach every
branch of `NVSetRopSolid`.  Two cells let one area fit in two places, or an
image with its second buffer once, and let an allocation fail.  Three outputs on two heads leave one without a head, so that
outputs are taken away and moved; two failures are those of a scale and of its
restoration, or one that leaves `skipModeFixup` set and one later.  The changes
concern one field each that no other of them reads; one of them before or after a
failure, or two without one, come with any mode sets and VT switches.  Clocks of
display, memory and engine are chosen on both sides of the limits in the search
(settings that fit at once, that are found after a margin or a part of the burst
is given up, that are not found; on the NV10 giving up the margin alone never
helps, since only the burst makes room); 12.007 MHz is a clock that a
setting slightly above it is rounded to, 188 MHz one where rounding the
level matters; the latency of NV4 memory is 3.  Two
modes tell a register of the last mode from one of the mode before; a second
tweak of the panel shows that tweaks add up, and `MaxTweaks` only ends the adding.  Three generations are one more
than it takes for what the first left to be used by the second and freed by it.
A frame of 8 by 3 has a width that is a multiple of the words copied at each
depth, and a height that is not.

`CHECK_DEADLOCK` is off for `NVModes` and `Screens`, where the server ends, or
refuses a screen, and for `G80Display`, where it dies of changing the dithering of
an output without a CRTC; it is on in the others.

### Fairness

- `WF(Fetch)`, `WF(PgraphDone)`, `WF(Execute)`: the engine does not stall for good
  while it has commands.  The driver's loops rely on it; a hung engine hangs them.
- `WF(Finish)`, `WF(Continue)`, `WF(PutImageCopied)`: a call that has begun goes
  on; the server is single threaded and does not preempt itself.
- `SF(BlockHandler)`, `SF(VideoTimerCallback)`: the server's main loop calls the
  block handlers before it waits for requests, again and again, whatever
  requests come.  Strong, since each request disables them while it runs.
- `WF(DmaWaitFull)`: `NVDmaWait` publishes what is there when it wraps a full ring.
- `WF(CalcArbitration4)`, `WF(CalcArbitration10)`: the loops of `NVFifo` run on
  the server's thread without a wait.
- `WF(OverlayTime)`, `WF(BlitTime)`, `WF(VBlank)`: time passes and the screen is
  refreshed.
- None on requests: clients may stop asking.

## 4. Properties

The comment in front of each property says what it is about.  The main ones:

- `ReservationSafe`: the room the driver counts on (`dmaCurrent` to the end of
  what `dmaFree` promises, and one dword for a jump) lies in the buffer and holds
  nothing unread, however old the GET it was computed from.
- `NeverJumpToPut`, `Framing`: what the engine makes of the words it meets.
- `ImplementsCommandStream`: the ring, wrap-around included, is a FIFO.
- `DrawnAsIntended`: `currentRop` and the temporary redirections never disagree
  with what the engine has seen when a command executes.
- `CpuSeesDrawing`: although `NVSync` waits only for what is published, nothing
  drawn is outstanding when the CPU touches the framebuffer.
- `KickedInTime`, `DrawsGetPublished`, `NoDrawLost`: drawing that is not kicked at
  once is neither forgotten, nor dropped by a reset, nor run on the console's
  screen.
- `OffMeansOff`, `TimersAreServed`, `StoppedIsFreed`: overlay, memory and timers
  agree whoever came first.
- `ReadsOwnMemory`: what the overlay reads, and what an image is copied to, lies in
  memory of the port.  The exception is a larger image of the client, whose old area
  is freed under the running overlay: until the new one is handed over.
- `ConfigFollows`, `NoStrayPicture`: the display shows what the server believes,
  with timings fixed for the registers, and nothing else, whatever failed or moved.
  The exception are the timings of a mode set that comes right after a failed one
  on its head (`redone`), which may be as the server made them.
- `ClocksAgree`: what was computed for a mode set and kept in fields (`pclk`,
  `output->crtc`) is that mode set's own when the supervisor uses it.
- `CopyIsApart`: an image is not copied over the one on display, as long as
  images keep their size.
- `PllIsBest`: the searches, which try one multiplier per pair of dividers, find
  the best setting over all multipliers, and never exceed the mode's clock.
- `FifoSafe`, `LoopEnds`: what is found keeps the FIFO from both ends, and the
  search is over.
- `ConsoleRestored`: the lists of registers that are saved, set and restored
  agree on every chip and kind of display, whatever happened in between, but for
  the registers in `Excepted`.
- `ModeIsProgrammed`, `CursorShadow`, `EngineReady`: no write is lost, nothing is
  taken from a stale copy, and the engine's tables are there whoever had the
  terminal before.
- `OtherClockKept`: the PLLs of both heads are written with every mode set, and yet
  none changes the clock of a head that another driver uses and sets at any time.
  Giving the console back does change it: to that of before `ScreenInit`.
- `LoadedBeforeUse`, `NothingDangles`, `EngineIsOurs`: what ScreenInit, CloseScreen
  and EnterVT rely on was made in this generation, or in PreInit.  The first speaks
  of ScreenInit, not of what PreInit calls; the second exempts what an allocation
  that failed has left.
- `PictureFollows`: shadow, refresh functions, RandR and pointer agree where each
  pixel is.

Every property has a mutant: a plausible mistake in the code (an operator whose
name ends in what is wrong, e.g. `WrapPut_NoSkips`) with which TLC finds the
property violated.

## 5. Proofs

Each `Proofs` module proves, for all constants that satisfy the assumption in its
model, every safety property that a passing run checks of that model: type
invariant, invariants and action properties, and for the ring the refinement of
`CommandStream`.  Hardly any of the properties is inductive.  Each module defines
an invariant `IInv`, a conjunction of named parts; each action has a lemma that
says it preserves `IInv` (or, where that is long, one lemma per part);
`Inductive` is `Spec => []IInv`, and the theorems about the properties follow
from it.  What an operator returns or preserves is stated once, in lemmas in front
of those about actions.

### DmaRingProofs

For every `Skips`, `DmaMax`, `MaxSize`, `InitBlocks` and `Payload`.  `IInv` is

- `TypeOK`;
- `DriverInv`: at each `pc`, what `dmaFree` may be against `dmaCurrent`, `size`
  and `left`, and how `PUT` and `dmaPut` are related.  It is where the cached room
  is tied to the buffer's end or to the `GET` of the last look;
- `PositionInv`: whether the engine is before or after the driver in the buffer,
  and, when it has yet to wrap, that the room ends below `GET`.  The cached room
  stays safe since `GET` only moves away from it until it wraps;
- `FrameInv`: for some end `e` and jump position `J`, the words on the engine's
  way split into whole methods: headers at the right places with data behind
  them, and no jump but the one at `J`.

`RingIsStream` is the refinement.  Under `IInv` the `CHOOSE` in `JumpAt` has
one value, the `J` of `FrameInv` (`WrappedJump`), and `Geometry` and `Places` say
how many places there are and that neither no-op nor jump is at any of them.
Then the stream is a function of the places and what is in memory there:
`SameStream`, `LongerStream` and `ShorterStream` say when two states have the
same stream, one word more at the end, or one less at the front.  A write of the
driver is a `Send` (`WriteSends`; that the stream is not full is
`ReservationSafe`), a fetch of a word a `Consume` (`FetchConsumes`), and the rest
stutters, wrapping and the engine's jump included: the places are renumbered and
none is lost.

### NVAccelProofs

For every set of raster operations, patterns and colours, every number of
scanlines and every `MaxCmds` that holds the longest sequence.  `IInv` is

- `TypeInv`, with the types of methods and of the engine's state;
- `PlaceInv`: where an entry point may be with what kind of operation, and where
  the callback is armed;
- `DrawInv`: when drawing may be outstanding or unpublished, by `needSync`,
  `callback` and `pc`;
- `EngineInv`: executing all of `cmds` takes `hw`, through drawings each of which
  suits the state it finds, to a state that is the one the driver believes in
  (`Runs`, `Known`).  Without it nothing is known of a command between its writing
  and its execution, which is where `currentRop` would be wrong.

### NVVideoProofs

`IInv` is `TypeOK`, `OffMeansOff`, `TimersAreServed`, `BufferInv` and `MemoryInv`.
`BufferInv` says which of the two buffers was handed over last, and that a buffer
found free stays free while the copy lasts, since only the server hands buffers over;
`CopyIsApart` follows from it with the layout of an image of the size it had before.
`MemoryInv` adds to `ReadsOwnMemory` that the area a V4L driver has grabbed was
never moved under a running overlay, and that while the overlay runs what was
handed over last is an image that was laid out.  It turns on this: an area grows in
place or goes away, and whoever lets it go has turned the overlay off before, but
for the client's larger image.

### G80DisplayProofs

For every set of outputs of the three kinds.  `IInv` is `TypeInv`, `ServerInv` (the
server's own rules: an output has one head, a head one output), `OrInv` (an
output that is connected without being asked for is off), `HeadsInv` (what a lit
head shows is in the head's fields), `ClockInv` (a lit head's clocks are those of
the mode in its timings) and `ConfigInv` (the display shows the configuration,
but for heads whose mode set failed or is to come, and with fixed timings but for
heads in `redone`).  `ConfigInv` is stated with
`ScaleNow`, the scales of the properties with the old one of the output whose
property change has just failed: the configuration is not the server's between the
failure and the restoration, and this says what it is instead.

### NVModesProofs

For every set of chips, modes and tweaks, every `MaxFailures` and `MaxTweaks`.
`IInv` is `CardInv` (what detection decided), `PhaseInv` (the terminal's owner),
`HwInv` (types, and the console's values before and after), `KeptInv` (registers
that no list loads are the console's, unless the BIOS sets modes), `SavedInv`
(`SavedReg` holds the console until it is given back), `PowerInv` (what is off was
asked to be) and `ShownInv` (while the server has the terminal every loaded
register is the mode's, but for those that are read back).  `ConsoleRestored` is
`SavedInv` for the fields in the lists and `KeptInv` for the others; that there is
no third kind of field, but for those in `Excepted`, is where the lists must agree.
`OtherClockKept` is an action property, proved of each step from `IInv`.

### ScreensProofs

For every frame size.  `IInv` is `TypeOK`, `BaseInv`, `ModulesInv` (PreInit
loaded what ScreenInit will call), `PointersInv` (which pointers are set, and
that a freed one is set only after an allocation that failed), `EngineInv` and
`ShadowInv` (the shadow has the shape of the turn it was made for).
`PictureFollows` is the arithmetic of the refresh functions: for every box of a
frame of every size, and each depth, the words copied are those that hold the
box's pixels, and each is read from where the pointer handler says it is.

### ClocksProofs and NVFifoProofs

The searches are proved best for every crystal and every clock from 12 to 350 MHz
(`OneStageIsBest`) or 400 MHz (`TwoStageIsBest`).  What a search returns is the
first of the nearest of finitely many settings (`WellFoundedInduction` gives the
minimum).  It is nearest among *all* settings since the frequency grows with the
multiplier, so that the one tried is the best for its dividers; and where that
does not fit its field and the pair is left out, a smaller divider does better than
the largest multiplier that fits.  That the search comes within 1/64 of the
clock is shown with one divider for each crystal (12 or 13 with two stages).

`NVFifo`'s `IInv` is `TypeOK`, `PllIsBest`, `LoopInv` (a loop runs for an asked
mode, on a chip that it is for, with margins and bursts it knows) and `FifoSafe`,
for all chips, widths, page misses and clocks of `FifoAssumption`.

### What the proofs changed

Stating the properties for all constants showed some of them to be wrong where
the small instance was right:

- `FifoSafe` and the level of the NV4.  The level is divided by 8 and so rounded
  down; without a margin it is short of the figures by less than a unit.  The
  property says so now, and the clause about NV4 overflows, which held for any
  code, uses what is drained (`Drained4`).
- `PllIsBest` and rounding.  What a setting makes of the crystal is rounded down to
  kHz, so a setting that is above the mode's clock by a fraction of a kHz counts as
  meeting it (at 12007 kHz there is one); no search tries such a setting.  "Not
  above the clock" is now meant before rounding.
- `NVFifo` needs chips with ids below 0x1000, where the driver's two masks agree, and
  clocks of memory and engine that are not zero, since the code divides by them;
  `G80Display` a finite set of outputs and a `None` that is no record.  These are now in the assumptions.
- `ImplementsCommandStream` filtered jumps and no-ops out of the words on the way;
  it now gives each word its place, which is what makes it provable; that there is
  no jump or no-op at a place is a lemma (`Places`).

### What is only model-checked

- Liveness under fairness (`WaitEnds`, `SyncEnds`, `DrawsGetPublished`,
  `StoppedIsFreed`, `LoopEnds`), and with it ENABLED: `tlapm` handles neither.
- The violations of section 6.
- The integers are unbounded: that no product of `NVFifo` exceeds 32 bits is
  neither modelled nor proved (those of `Clocks` stay far below, as its head says).

## 6. Disagreements found

- `nv_video.c:1108` "overwrite the newest buffer if there's not one free".  The
  buffer is found by number, its address from the size and place of the *new*
  image.  When the size has just changed the copy lands in memory that is not the
  newest buffer's and, as no register is written, the frame is lost.
  (`NVVideoNewest`)
- `nv_video.c:496` "paint the color key".  Both `XV_COLORKEY` and
  `XV_SET_DEFAULTS` change the key, and with it, through `NVResetVideo`, the
  register 0x8b00.  Only the first empties the remembered clip, so that the key is
  painted again; after the second the screen keeps the old one.  (`NVVideoKey`)
- `g80_sor.c:207` "This mode is already "fixed"".  The flag that is set there,
  `skipModeFixup`, belongs to the head and is cleared in `G80CrtcPrepare`, which a
  mode set reaches when nothing has refused the mode.  When the one it was set for
  fails before, the next mode set of the head skips the adjustment of timings that
  nothing has fixed.  (`G80DisplayTimings`)
- `nv_hw.c:571` "Can't adjust anymore!".  The search for FIFO settings halves the
  burst and then gives up, but on the nForce, when the display takes 98 to 102 per
  cent of what the engine's clock delivers, line 544 sets the burst to 512 again
  in every round and the search does not end.  (`NVFifoHang`)

The models also show other behaviour that a reader may not expect, which the
properties exempt, each in the comment in front of it or in the definition named here:

- settings of an earlier mode when the search finds none (`current`);
- pointers that keep a freed record when an allocation of a later generation fails
  (the Riva's expand buffer among them, which is then freed again), and a `NULL`
  acceleration record the blitter follows (`NothingDangles`);
- a server that ends because `int10` is missing (`PreInitDies`), or because
  dithering is set for an output without a CRTC (`crashed`);
- a shadow that stays turned over a reset (`PictureFollows`), and an engine that is
  not set up again under EXA (`EngineIsOurs`);
- registers that are written before they are saved, or never saved (`Excepted`),
  and the other head's clock, put back to what it was before `ScreenInit` when the
  console is given back (`OtherClockKept`);
- a panel whose sync is tweaked once more by every mode set until the console is
  restored, since `NVDACInit` adds the tweak to what it reads back
  (`nv_dac.c:219-220`; `crtcSync`, whose adding up `MaxTweaks` ends);
- dithering that a panel does not take with it to the other head, since the driver
  keeps it per head (`g80_display.c:567`), though `man/nv.man:174-177` lists it as a
  property of flat panels: `ConfigFollows` compares a head with what was last set
  for the head;
- an overlay that goes on reading an area that has been freed for a larger image
  (`ReadsOwnMemory`).

## 7. Plan

What is modelled is proved as far as section 5 says.  What is left:

- `NVVideo` with a fair client, for double buffering that is turned off and on
  (the hazard at `nv_video.c:700`), and for the skipped image of a stopped port.
- Partner detection of the G80 with its cache (`cached_status`).
- The chunked upload of EXA against a reference copy, with its arithmetic proved
  as that of `NVShadow` is.
- The Riva's FIFO with its cached free count: `ReservationSafe` for entries.
- `NVFifo` in 32-bit arithmetic, to know for which clocks the code's figures
  overflow.

## 8. Not modelled

- The G80's XAA and EXA entry points: XAA's repeat those of `nv_xaa.c` with less
  cached state, on the ring of `DmaRing`; EXA keeps no state in the driver.
- Modes, drawing and the FIFO of the Riva 128: the NV driver's structure for one
  chip.
- Timings inside a mode, the palette's and the cursor's formats, scaling and
  clipping of video, I2C bits, load detection, mapping of registers, reading the
  BIOS's clocks (`nvGetClocks`), register and chip tables: straight-line register
  code or arithmetic without state of its own.
- The FBDev variants (`fbdevHW*`), which leave modes to the kernel.
- Mode validation in PreInit, and the layout of the frame buffer.
- The console's text and fonts in the frame buffer beyond "overwritten" and
  "restored", which `vgaHWRestore` does.

## 9. Running

    tlc -config DmaRing.cfg DmaRing
    tlc -config NVModesSafety.cfg NVModes
    tlc -config ScreensSafety.cfg Screens
    tlapm DmaRingProofs.tla

The other runs are named in section 3; each has a `.cfg` of its name.  The other
modules whose name ends in `Proofs` are checked with `tlapm` in the same way.

# Formal model of medusa's web-form module

This directory holds TLA+ models of `src/src/modsrc/web-form.c`, the medusa
module that brute-forces HTML login forms. It also holds the TLC
configurations that check the models and the TLAPS proofs about them.

## The system

One invocation of the module is `go()`. It parses the module options into a
`ModuleDataT`, then runs `initModule()` against one host with that host's
credential iterator. The parts (the lettering follows spec.md §2):

| | Part | Code | Role |
|---|---|---|---|
| A | URL Encoder | `urlencodeup` | percent-encodes the password |
| B | Path Resolver | `_pathType`, `_resolveLocationPath`, `resolvePath` | turns a Location value into the next resource path |
| C | Header Scanner | `_findHeaderValue`, `findLocationHeaderValue` | finds Location and Set-Cookie values |
| D | Status-line Parser | `parseHttpStatusCode` | maps the first line to a known code, NOT_IMPL or a parse error |
| E | Request Builder | `prepareRequestString`, `prepareRequestParamString`, `_sendRequest` | GET or POST request text, with credentials unless `changedRequestType` |
| F | Cookie Accumulator | `_setCookiesFromResponse` | appends Set-Cookie values to `cookieJar` |
| G | Option Parser | `go`, `setOption` | FORM, FORM-DATA, DENY-SIGNAL, USER-AGENT, CUSTOM-HEADER |
| H | Attempt State Machine | `initModule`, `tryLogin`, `_request` | the MSTATE loop: connect, send, classify, redirect, record |
| I | Host Adapter | `medusaConnect`, `medusaSend`, `medusaReceiveLine`, `getNextCredSet`, `setPassResult` | medusa's transport and credential iterator (outside `src/`) |

H drives everything. It asks I for a connection and E for the request. It
reads the reply through I and classifies it with D. On a redirect it changes
the configuration through B, C and F, and returns `MSTATE_NEW` to try the
same pair again. On a 200 it scans the body for the deny signal. It records
each verdict with `setPassResult` and moves the iterator on.

## Modules

- **`WebForm.tla`** models part H, with the parts of B, C, D, E, F and G that
  change its state. Its state is:
  - `initModule`'s locals `nState` (`mstate`) and `hSocket`;
  - the `_moduleData` fields the loop reads and writes: `formType`,
    `changedRequestType`, `resourcePath`, `resourcePathOld`, `hostHeader` and
    `cookieJar`;
  - the host's side: `cur`, the index of the pair `psCredSet` holds,
    `iResult`, and the per-pair records `nRecords` and `verdictOf` that
    `setPassResult` makes;
  - `openFds`, the descriptors the host holds open;
  - history variables that only the properties read: `redirects`,
    `credsSent`, `bodyDenied`, `pathBeforeChain` and `jarPairs` (the pairs
    whose responses put the cookies now in the jar).

  The actions are one per case of `initModule`'s switch: `Initialize`,
  `New`, `Running` and `Exiting`. `Running` is a whole loop iteration:
  `TryLogin(ns)`, the path through `tryLogin` that returns `ns`, followed by
  `AfterTryLogin(ns)`, the `iResult` test and `getNextCredSet`. `TryLogin`
  has one disjunct per return path of `tryLogin` and `_request`:
  - `SendFailed`, `NoData` and `ParseError`;
  - `Ok`, which is the 200 handler followed by `ScanForDenySignal`;
  - `Redirect`, which uses `ResolveLocation`, `SetCookiesFromResponse` and
    `Demote`;
  - `Refused`, for the 4xx codes and NOT_IMPL.

  `PROJECT.json` "map" gives the lines each definition translates.
- **`MCWebForm.tla`** gives TLC its constants: three paths (the root `/`, p1
  and p2), one relative target, one URI and one cookie. `MCResolvePath`
  stands for `resolvePath`, which is not under `src/`; it is modelled from
  spec §4.B, and its result is always a path.
- **`HostRecord.tla`** is the abstract specification of what the host sees
  of one invocation: a record per pair (`rec`), the iterator's position
  (`pos`) and whether `initModule` has returned (`done`). One `Progress` step
  may record a verdict for the current pair if it has none, may move to the
  next pair, and may return. `WebForm` instantiates it as `HR`, with a
  refinement mapping:
  - `rec <- RecOf`, where `RecOf` shows a pair's one verdict, or "NONE", or
    "TWICE" if `setPassResult` was called again;
  - `pos <- cur`;
  - `done <- returned # "NO"`.

  The property `ImplementsHostRecord == HR!Spec` says that `initModule`
  implements it.
- **`UrlEncode.tla`** models part A, `urlencodeup` (lines 526-553).
  - State: `str` is the password as bytes, `buf` is `szRet` (indices
    0..3*len), `i` and `j` are the loop indices, and `pc` marks the return.
    `oob` collects the indices written past the end of `szRet`: a heap
    overflow is recorded, not performed.
  - Actions: `Copy` handles an alphanumeric byte and `Encode` the snprintf
    branch. `Terminate` writes the NUL and returns.
  - `CharOf` reads a byte as a plain char. With `SignedChar`, a byte of 0x80
    or more is negative.
  - `UIntHex` is `%02X` of `(unsigned int) c`. A negative c converts to
    2^32 + c, written as six F's and the digits of c + 256, because TLC's
    integers are 32-bit signed.
  - `SnprintfOut` stores at most n - 1 chars and a NUL.
  - `URL_ENCODE_BYTE_FMT` is defined in `web-form.h`, which is not in the
    repository. The cfgs set `FmtSize` = 7, which is `sizeof("%%%02X")`: the format
    the `j += 3` step expects. The proofs need only `FmtSize >= 4`.
  - `UrlEncodeSpec` is the reference encoding of spec §4.A: `SpecChunk(b)`
    for each byte, joined with `FlattenSeq`. `ChunksAt(s, e)` states the
    same layout without recursion. The chunk of byte k ends at
    `ChunkEnd(s, k) = k + 2 * |encoded bytes among the first k|`, and `e`
    holds every chunk at its place. The chunks tile `1..Len(e)`, so this
    determines `e`.
- **`MCUrlEncode.tla`** gives the byte sets: `AsciiBytes` (space, `%`, `&`,
  `0`, `Z`, `_`, `a`) and `AllBytes`, which adds 0x80, 0xE9 and 0xFF.
- **`WebForm_proofs.tla`**, **`WebFormRecord_proofs.tla`** and
  **`UrlEncode_proofs.tla`** hold the TLAPS proofs.

### What the model abstracts

Strings are model values:
- a path is a member of `Paths`;
- a Location value is a record `[type, val]` whose type is what `_pathType`
  returns once `_resolveLocationPath` has cut the query off;
- the Set-Cookie values of one response are a sequence of at most two cookies.

The server is free:
- every status class, with or without a Location header;
- a body that holds the deny signal or not, and a receive that times out
  before the deny-signal line (`late`);
- `redirects` only bounds how many redirects the server sends (`MaxRedirects`).

The host is free too:
- a connect succeeds on any free descriptor of `Fds`, or fails;
- `getNextCredSet` may fail, report DONE (only at the last pair) or NEW_USER.

`setPassResult` counts its calls per pair up to `RecordCap` = 2. That cap is
enough to see a second record. `resolvePath` is the constant operator
`ResolvePath`, assumed to return a path (`ResolvePathAssumption`).

The values of the `MSTATE_*` enumerators are not in the repository, because
`web-form.h` is not under `src/`. After a failed send, `_request` returns
`MSTATE_EXITING`. If that value is not 0, `tryLogin` goes on and parses a NULL
buffer. `parseHttpStatusCode(NULL)` is a parse error, so either way the
outcome is the one `SendFailed` models: one UNKNOWN record, then EXITING.

## Runs

The WebForm runs use `MCWebForm` with NPairs = 3, Fds = {3, 4} and
MaxRedirects = 2.
`CHECK_DEADLOCK FALSE` is set because `initModule` returns: a state with
`returned # "NO"` really is final. The same holds for the UrlEncode runs,
whose final state is `urlencodeup`'s return (`pc = "done"`).

**`webform_core`** (`MCWebForm.cfg`) passes, with about 1.9 million
distinct states. It checks:
- `TypeOK`.
- `FormTypeConsistent`: `formType` is never FORM_UNKNOWN once a request can
  be built, at which point `prepareRequestParamString` would abort. The
  method is the FORM-DATA method, except that a POST form is GET while
  `changedRequestType` is set.
- `AtMostOneVerdict`: no password is recorded twice.
- `NoLeakAtReturn`: both returns of `initModule` leave no descriptor open.
- `Termination`: `initModule` returns.
- `ImplementsHostRecord`: `initModule` refines `HostRecord`. It walks the
  pairs in order and records each pair at most once, and only at its turn.
  It records nothing once it has returned. For this to hold, a redirect's
  retry, a reconnect and the iterator's advance must fit together.

The bounds are enough to reach what these properties are about:
- two redirects allow a 301/302 demotion followed by a 307 inside one chain;
- three pairs let a verdict, a redirect and a later pair follow each other;
- two descriptors let a reconnect take a different descriptor.

There are seven WebForm violation runs, one property each. Each shows a disagreement
between the code and the spec or its own comments; the "findings" in
PROJECT.json give the details.

| Run | Property | What TLC finds |
|---|---|---|
| `stale_iresult` | `VerdictFollowsCredentials` | After a verdict, a redirect leaves `iResult` stale. The loop then moves to the next pair instead of retrying, and that pair is judged on a request without credentials. |
| `parse_error_unrecorded` | `EveryTestedPairRecorded` | A parse error exits with no record for the sent password. |
| `path_not_restored` | `PathRestoredAfterChain` | A 302 to an absolute path, then a 200, leaves `resourcePath` NULL. |
| `timeout_is_success` | `SuccessOnlyWithoutDenySignal` | A timeout in the body scan records SUCCESS. |
| `fd_zero_leak` | `NoLeakAtReturn` (Fds = {0, 3}) | Descriptor 0 is never disconnected, because the test is `hSocket > 0`. |
| `cookie_leak` | `CookiesFromOwnChain` | A cookie from one pair's redirect is still in the jar when the next pair is tried. In the trace TLC prints, the stale iResult advances the iterator after the redirect. A 307 chain that ends in a 200 leaves its cookies too, because only a demoted chain clears the jar. |
| `uri_host_header` | `HostHeaderIsAuthority` | A 3xx to an absolute URI makes the whole URI the Host header of every later request (the case at line 793 sets `hostHeader` to the Location value). |

The UrlEncode runs enumerate every password of up to `MaxLen` = 3 bytes,
with `SignedChar` = TRUE (x86-64 and most ABIs) and `FmtSize` = 7. Three
bytes are enough for the two orders of a copied and an encoded byte, and for
an encoded byte first, in the middle and last.

| Run | Bytes | Properties | Result |
|---|---|---|---|
| `urlencode_ascii` | `AsciiBytes` | `TypeOK`; `EncodesAsSpec` (the result is the spec's encoding, so the NUL of each snprintf is overwritten and the final NUL lands right after the text); `NoHeapOverflow`; `StepEmitsSpecChunk` (an action property: each iteration writes the spec's chunk for its byte at `szRet[j]` and moves `j` just past it) | passes |
| `urlencode_all_bytes` | `AllBytes` | `OutputAlphabet`: only letters, digits and `%` come out | passes |
| `urlencode_nonascii` | `AllBytes` | `EncodesAsSpec` | violated: <<128>> gives "%FF". A negative char is formatted as FFFFFF80 and truncated to six chars. |
| `urlencode_overflow` | `AllBytes` | `NoHeapOverflow` | violated: for <<128>>, snprintf writes indices 4, 5 and 6 of a 4-char buffer |

### Fairness

`Spec` has `WF_vars(Next)`. The module runs on one thread (spec §5), and
every host call returns, because medusa's sockets time out. So while
`initModule` has a step to take, it takes one. `Termination` rests on that,
and on the server's redirects being finite (`MaxRedirects`). The code itself
has no redirect limit, which is the liveness hazard in PROJECT.json.

## Proofs

`WebForm_proofs.tla` proves two theorems for every value of the constants,
from the ASSUMEs of `WebForm`:
- `NPairs \in Nat`;
- `Fds` is a non-empty set of naturals;
- NULL and HostDefault are distinct from paths and URIs;
- `ResolvePath` returns a path.

- **`TypeCorrect`**: `Spec => []TypeOK`. `TypeOK` alone is not inductive.
  With no pair, `cur` points at no pair, and `setPassResult` would write
  outside the record. The inductive invariant is therefore
  `TypeInv == TypeOK /\ (NPairs = 0 => mstate = "COMPLETE")`: with no first
  pair, `initModule` starts complete. The step proof has one lemma per part
  of the loop: `SetPassResultTyped`, `RequestSentTyped`, `TryLoginTyped`
  (one step per response class) and `AfterTryLoginTyped`.
- **`MethodFollowsFormData`**: `Spec => []FormTypeConsistent`. The inductive
  invariant `FormInv` adds `TypeInv` and one fact:
  `mstate = "INITIALIZE" => ~changedRequestType`. `Initialize` overwrites
  `formType` with the FORM-DATA method, and that is only consistent because
  no redirect has happened yet. TLC checked `FormInv` as an invariant of the
  `webform_core` instance before it was proved. The lemmas `DemoteForm` and
  `TryLoginForm` show that a demotion and every tryLogin path keep the
  relation.

`WebFormRecord_proofs.tla` (it EXTENDS `WebForm_proofs`) proves three more:
- **`RecordedAtMostOnce`**: `Spec => []AtMostOneVerdict`. The inductive
  invariant `RecInv` is `TypeInv` and `RecCore`. `RecCore` says:
  - every pair has at most one record;
  - pairs after `cur` have none;
  - while the loop can still reach `tryLogin` (INITIALIZE, NEW or RUNNING,
    not returned), `cur` has none either;
  - once returned, `mstate` is NEW (the connect failure) or COMPLETE, so no
    action is enabled.

  The third conjunct carries the argument. A path that records leaves the
  pair: by `getNextCredSet` or into EXITING. A path that stays on the pair
  in NEW, the redirect retry or `iResult` = UNKNOWN, recorded nothing
  (`TryLoginRecords`, `AfterTryLoginMoves`).
- **`RefinesHostRecord`**: `Spec => ImplementsHostRecord`. It rests on two
  lemmas:
  - `InitMaps`: an initial state maps to a `HostRecord` initial state;
  - `StepMaps`: from `RecInv`, every step maps to a `Progress` step or a
    stutter. `RecordMaps` turns a call of `setPassResult` on an unrecorded
    pair into `[rec EXCEPT ![pos] = v]`. `Exiting` and the connect failure
    are the steps that set `done`.
- **`ClosesBeforeReturn`**: `ASSUME 0 \notin Fds PROVE Spec => []NoLeakAtReturn`.
  The invariant `LeakInv` adds `openFds \subseteq {hSocket}` to `RecInv`.
  `KeptEmpty` shows that the close before a reconnect or a return leaves
  nothing open when descriptors are positive. The assumption is needed:
  without it, `fd_zero_leak` is a counterexample.

`UrlEncode_proofs.tla` proves five theorems about `urlencodeup`, for every
password length and byte set, from the ASSUMEs of `UrlEncode`. Bytes are in
1..255, `MaxLen` is a natural, `SignedChar` is Boolean and `FmtSize` is
positive. The conversions come first, as lemmas:
- `FormattedShape`: the text of `%02X` is 3 format characters, or 9 for a
  negative char;
- `SnprintfShape`: `snprintf` stores the first min(n-1, len) characters and a
  NUL;
- `EncodeWord` combines the two for one byte: the stored text has at most 4
  bytes for a non-negative char. When `FmtSize >= 4`, its first three bytes
  are `%` and hex digits;
- `WriteAtProps` and `SpillProps`: a write keeps the cells of `szRet`, and it
  spills nothing when it ends inside the buffer.

The theorems:
- **`UrlTypeCorrect`**: `Spec => []TypeOK`. The inductive invariant
  `IndexInv` adds `j <= 3 * i` and "done implies i = iLen". The first is what
  keeps the next write's start inside `szRet`: `j + 3 <= 3 * (i + 1)`.
- **`NoOverflowWithoutNegativeChars`**: `ASSUME NonNegativeChars PROVE
  Spec => []NoHeapOverflow`. `NonNegativeChars` says plain char is unsigned
  or every byte is below 0x80. The invariant is `IndexInv /\ oob = {}`. A
  non-negative char makes snprintf store at most `"%XX"` and its NUL, 4 bytes
  that end at `j + 3 <= 3 * iLen`. Without the assumption, `urlencode_overflow`
  is a counterexample.
- **`OutputOnlyUnreserved`**: `ASSUME FmtSize >= 4 PROVE
  Spec => []OutputAlphabet`. The invariant `OutputInv` adds two facts to
  `IndexInv`: every cell below `j` holds `[A-Za-z0-9%]`, and at the return
  `szRet[j]` is the NUL. From these, `ResultAtDone` shows that the first NUL
  is at `j`, since no output character is NUL, so `Result` is `szRet[0..j-1]`.
  This holds for signed chars too. A longer `"%FFFFFF80"` is cut at `j + 3`
  by the next write or by the final NUL. With `FmtSize` = 3, TLC finds the
  invariant broken: snprintf's NUL lands at `j + 2`. The code's `j += 3`
  presumes room for four bytes.
- **`StepMatchesSpec`**: `ASSUME NonNegativeChars, FmtSize >= 4 PROVE
  Spec => StepEmitsSpecChunk`. It follows from `IndexInvariant` and from
  `NextChunk`, which shows every step from `IndexInv` is an `EmitsSpecChunk`
  step. `CopyChunk` and `EncodeChunk` show that the bytes written are
  `SpecChunk` of the byte consumed.
- **`EncodesPasswordAsSpec`**: `ASSUME NonNegativeChars, FmtSize >= 4
  PROVE Spec => []EncodesByChunks`. This is the functional correctness of
  `urlencodeup`. The inductive invariant `ChunkInv` adds `ChunkCore` to
  `OutputInv`. `ChunkCore` says that `j = ChunkEnd(str, i)` and that the
  chunk of each consumed byte sits in `szRet` at its place.
  - `NextChunk` places the next chunk at `j`.
  - `BelowUnchanged`: no step writes below `j`.
  - `ChunkInside`: every earlier chunk lies below `j`.
  - `ChunkEndStep`: `ChunkEnd` grows by the chunk's length. It is proved
    from `FS_AddElement`, and `ChunkEndMono` from `FS_Subset`.
  - At the return, `ResultIsPrefix` gives `Result = szRet[0..j-1]`.
  TLC checked `ChunkInv` on three instances before it was proved: ASCII with
  signed char, and all bytes with unsigned char at `FmtSize` 4 and 9.

Left to TLC only:
- `Termination`, which is liveness under fairness and out of the prover's
  reach;
- the properties of the violation runs, which do not hold;
- `EncodesAsSpec`, in its `FlattenSeq` form. `EncodesPasswordAsSpec` proves
  the same result in its `ChunksAt` form. What is left is that
  `ChunksAt(s, UrlEncodeSpec(s))` holds, which needs the recursive function
  inside `FlattenSeq` unfolded for every length. That needs the library's
  recursion and induction theorems, which take an operator parameter that
  none of the installed provers can instantiate. The `urlencode_ascii` run
  checks `EncodesAsSpec` on every password it enumerates; `EncodesByChunks`
  itself is proved, not run, since on the passwords TLC enumerates it says
  what `EncodesAsSpec` says.

## Not modelled, and why

- **The request text** (most of E): string concatenation with no effect on
  control. The model keeps only what it decides: the method and whether
  credentials are included.
- **Header Scanner and Status-line Parser** (C, D): the model uses only
  their outcome classes. Their scans over characters (for example, the
  `isspace` skip in `_findHeaderValue`) are planned as modules of their own.
- **DENY-SIGNAL, USER-AGENT, CUSTOM-HEADER** (G): these only shape request
  text.
- **Host Adapter internals** (I): they are outside `src/`. Their outcomes are
  the nondeterministic choices above.
- **showUsage, summaryUsage, and the stubs built without SSL**: they only
  print.

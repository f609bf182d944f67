# Verification of the Glowora booking backend

Glowora is a NestJS backend through which customers book appointments with
beauty stores. It keeps its data in MySQL (InnoDB, through Prisma), caches and
one-time codes in Redis, and passes mail, web push, Telegram messages and cron
ticks through RabbitMQ. It runs as a cluster of Node processes behind one port,
so every handler runs concurrently with every other one: between two `await`s
anything may happen in another request, in another process.

The modules here model the part of it where that matters most, in TLA+: TLC
checks small instances, TLAPS proves the central results for all of them.

## 1. Inventory

Paths are relative to `src/src/` in the repository unless they start with `src/`.

| Component | State | Operations | What is hard | What makes it correct |
|---|---|---|---|---|
| Booking transactions, `features/booking/bookings/bookings.service.ts` | `bookings`, `booking_items`, row locks on `staff` | `create`, `createWalkIn`, `updateBookingItemStaff` | concurrent transactions under READ COMMITTED, row locks taken one service at a time, retries, writers that take no lock | no staff member at two places at once; no request refused without need; every request answered |
| Booking lifecycle, same file | `Booking.status`, deposit amount and deadline | `confirm`, `reject`, `complete`, `cancel`, `remove` | read, decide, write later by id | a transition takes effect only from the states it is meant for |
| Payments, `features/booking/payments` | `payments`, the booking's status | `createSepayPayment`, `recordStorePayment`, SePay webhook | duplicated, late and short transfers, replaced QR codes, refunds | money is booked once, a status that shows money is backed by it, nobody pays more than the price |
| Reminders, `bookings/booking-reminder.*` | the tick queue; rows of `notifications` | cron tick, three reminders, automatic cancellation | redelivered ticks, two ticks at once, a payment during the tick | paid bookings are never cancelled, unpaid ones are in the end, one reminder of a kind |
| Coupons, `features/booking/coupons` | `coupons.usedCount`, `coupon_usages` | use in a booking, `update`, `remove` | races for the last use, removal by a stale count | counter and limits exact |
| Promotions, `features/booking/promotions` | `promotions` | discount, `create`, `update`, `remove` | read outside the transaction; overlap test and write apart | one active promotion at a time, prices add up |
| Reviews, `features/booking/reviews` | `reviews`, averages on store, service, staff | `create`, `update`, `remove`, visibility | averages recomputed by concurrent transactions | averages follow the reviews |
| Slots, `features/booking/slots` | none (reads) | free slots of a day | windows, intervals, day offs, call-ins | an offered slot is one `create` accepts |
| Staff, `features/stores/staff` | `staff`, `staff_invites`, `user_roles` | invite, accept, remove | two acceptances; removal while booked | one staff row and one role per member |
| Roster, `features/staff/*` | schedules, day offs, call-ins | request, review, edit, respond, remove | read and write apart; four readers combine the tables on their own | a decision stands; the readers agree where they mean to |
| Stores, `features/stores` | `stores.status`, papers, payment account | upload, approve, reject, lock, unlock, deposit | an upload waits for Cloudinary between its read and its write | the store stands as an administrator decided |
| Catalogue, `features/catalog` | services, variants, pictures | create, edit, import, delete, list, search | name test, count of upcoming bookings, pictures and row are separate steps; pages are separate queries | names differ, no service is removed or made INACTIVE under a booking, pictures are there, pages show everything once |
| Authentication, `features/identity/auth` | refresh token hash, OTP and blacklist in Redis | register, login, refresh, logout, reset | two refreshes at once, refresh against reset | a token is exchanged once; a session that was ended stays ended |
| Permissions, guard and `redis/permission-cache.service.ts` | cached permission sets | guard read, invalidation on role change | cache filled with an old value after the invalidation; Redis errors are swallowed | a wrong answer has a known cause |
| Messaging, `features/messaging`, `gateways`, `telegram` | conversations, messages, topics, AI history | send, reply, link a group | topic created twice, history written back after an `await` | replies reach their conversation |
| Queues, `rabbitmq`, consumers | main, retry and dead-letter queues | `ack`, `publishRetry` | publish and ack are two steps | bounded attempts, nothing lost |
| Cluster, `main.ts` | the id of the singleton worker | fork, refork | worker dies | one owner of the cron |
| Notifications, web push, mail | rows, subscriptions, messages | `notify*`, `sendTo*`, `subscribe` | several inserts and publishes, each may fail; devices fail one by one | rows before messages, nobody forgotten, one push per device |
| AI assistant, `ai` and `gateways/chat.gateway.ts` | the last turns of a socket, in memory | ask, reset, disconnect | history read, model awaited, history written back | the history is the last turns |
| System log, upload, locations, analytics, request plumbing | none or append-only | queries and I/O | nothing concurrent of their own | out of scope |

Interactions: bookings read promotions before their transaction and use coupons
inside it; payments and the reminder consumer write `Booking.status` next to
the lifecycle; staff removal and roster change what bookings read; the lifecycle
decides which items still block a staff member; consumers of all queues share
the retry topology. `PROJECT.json` lists every component with its status, and
under `hazards` what is hard to test, at the line where it bites.

## 2. Modules

| Module | What it is |
|---|---|
| `StaffBooking` | the transactions of `create` and `createWalkIn`, and the unlocked writers |
| `SlotCalendar` | abstract: a booking takes all its slots in one step, only free ones |
| `BookingLifecycle` | one booking: status, payments, webhook, deposit deadline |
| `PaymentLedger` | abstract: what the payment rows of a booking promise |
| `Checkout` | prices, promotion and coupon of bookings |
| `RetryQueue` | a RabbitMQ queue with its retry and dead-letter queue, and `ack()` |
| `WorkerCluster` | the workers of `main.ts` and the mark of the one that runs the cron |
| `Reminders` | the reminder cron, on top of `RetryQueue` and `WorkerCluster` |
| `Notices` | `notify*`, web push and mail, on top of `RetryQueue` |
| `Conversations` | chat of a store with its customers, and its Telegram topics |
| `Assistant` | the AI chat of a socket, and the searches behind it |
| `StoreApproval` | one store between its owner and the administrators |
| `Catalogue` | services, their pictures, and the bookings that name them |
| `Promotions` | the promotions of a store |
| `Reviews` | reviews and the averages they feed |
| `Search` | the paged lists of services and stores |
| `PermissionCache` | roles, permissions, the guard and its cache |
| `Membership` | invitations, members and owners, on top of `PermissionCache` |
| `Sessions` | registration, login, refresh, logout, passwords of one account |
| `Roster` | weekly schedule, day off and call-in of one date |
| `Slots` | the readers of the roster, on top of it |
| `MCStaffBooking`, `MCBookingLifecycle`, `MCCheckout`, `MCReminders`, `MCNotices`, `MCMessaging`, `MCShop`, `MCPeople` | instances for TLC |
| `StaffBookingProofs`, `BookingLifecycleProofs`, `CheckoutProofs`, `RetryQueueProofs`, `ReminderProofs` | theorems about the module of that name |
| `MessagingProofs` | theorems about `Notices`, `Conversations`, `Assistant` |
| `ShopProofs` | theorems about `StoreApproval`, `Promotions`, `Reviews`, `Catalogue`, `Search` |
| `PeopleProofs` | theorems about `Membership` and `PermissionCache`, `Sessions`, `Roster`, `Slots` |

`MCMessaging`, `MCShop` and `MCPeople` hold several components that share no
state. There the variable `part` is chosen at the start and one component moves
while the others stand still: nothing is lost, since they could not influence one
another, and TLC does not multiply their states.

In all modules a handler is split where it awaits and something else may change
what it has read. Definitions marked "Mutant" or "Variant" are wrong on purpose: they
take part in no specification, and `PROJECT.json` says which definition each would
replace.

### StaffBooking

`pc[r]` says where the transaction of request `r` stands; `line`, `clock`,
`target`, `cand`, `picked` are the locals `i`, `currentTime`, the staff member
at hand, the candidates left and `itemsData`; `tries` counts the retries.
`holder` is the lock table of the `staff` rows, `items` and `status` the
committed rows. `status` has three values: the five live statuses are "active",
COMPLETED, CANCELLED, REJECTED are "ended". `Begin` and `ReadLine` follow the
code up to the lock, `LockStaff` is the `SELECT ... FOR UPDATE`, `CheckStaff`
the `findOverlap` under it with both outcomes, `CheckCustomer` the plain read of
the customer's bookings, `CommitBooking` and `CommitWalkIn` insert and commit.
One action may stand for a few statements when nothing another transaction could
see, or change, lies between them. `Abort` is `retryTransaction`, entered from
`DeadlockVictim` (InnoDB) or `Timeout` (Prisma's P2028). A deadlock on the raw
lock query may or may not come back under a code that is retried, so both are
allowed. `Reassign`, `EndBooking`, `ReviveBooking` and `RemoveStaff` are the
writers outside these transactions.

Left out: the checks before the transaction (they change nothing), the variants
(always found) and, as constants, the roster (`Shift`). Time is abstract; the
scan margin of six hours is the constant `Margin`.

### BookingLifecycle

A handler is two steps: an `Ask...` action reads the booking and keeps what it
needs in `call[c]`; the action named after the operation writes. A payment has
more: the read, the look at the PAID rows (`CheckPaid`), the FAILED update of the
open rows (`Replace`) and the new row (`Insert`), or one transaction
(`RecordCash`). `Settle` is the transaction of `updatePaymentSuccess`. `Stop` is
a handler that dies in between; a transaction is one step and has no between.
`tick` holds the ticks that have selected the booking as expired. `late` says that
`depositDeadline` has passed; `answers` is a ghost that counts the webhook calls
that confirmed a row. Whether the store asks for a deposit, the cancellation
window and the amount of a transfer are nondeterministic. `Services` limits an
instance to some operations.

### Checkout

The price part of the same transactions, with the loop over staff reduced to
one step. The bill of a booking has the four amounts stored with it: promotion
saving, total, coupon discount and final price. The row lock on the coupon is
`holder`; `used` and `usages` are what is committed. `seen[m]` is the
`usedCount` that a `remove` call has read. `Abort` also stands for all errors
the staff part may raise. A coupon that has not started yet behaves as an
expired one, and a promotion scope is the set of services it reaches.
Amounts are multiples of what percentages divide, so rounding to two decimals is
not represented.

### RetryQueue, WorkerCluster, Reminders

The broker keeps copies of a message in slots (`copy`), a consumer keeps
invocations of its handler (`run`). When a connection or a process is lost
the copy goes back to the main queue, but without the process dying the
invocation goes on. `publishRetry` and `ack` are two steps, and the first may be
refused: `ack()` then rejects with the message neither acknowledged nor refused, and it
stays with its consumer ("stuck") until the connection is lost. The `channel.ack` of
a handler that has succeeded is inside the `try`, so on a closed channel it may throw and
publish a retry of what was done. `Reminders` adds
the branches that `Promise.all` runs side by side, for one booking; the branch
that cancels is `Expire` of `BookingLifecycle`. Every query and every publish may
fail, an insert also after it was committed; a push or mail that is refused is only logged,
and the ghost `missed` counts it. `overlapped` records that two invocations were at work at once, which happens:
`Promise.all` gives up at the first failure while other branches go on.

### Notices

A `notify*` call is a job with a plan: the rounds of people it writes a row for
and pushes to, and the mail. The plans are read off the calls; booking, user and
store are what decides between them. `sendToUsers` reads subscriptions, sends to
each device on its own, and removes those that answer 404 or 410. Push queue
and mail queue are one `RetryQueue` with room for both.

### Conversations, Assistant

A message is stored in a transaction of two statements; the shared lock of the
foreign key makes two of them block each other, and InnoDB rolls one back. Its
forwarding creates the topic if the row it has read has none, and writes it later.
A Redis key, which may expire, or else the row leads back from a topic. `crossed`
records a message that reached another conversation's topic. In `Assistant` a request
carries the history it has read. What Gemini answers is any choice of its tags.

### StoreApproval, Catalogue, Promotions, Reviews, Search

The first four have the same shape: requests read, decide and write later, or run a
transaction. Ghosts (`outdated`, `crossed`, `mixed`, `raced`, `overtaken`,
`stretched`, `moderated`) record that something happened which the code does not
guard against, so that each property names its exceptions; TLC reaches a violation
as soon as one of them is dropped. The papers of a store are a version number. A name
is one value to JavaScript and `Fold[name]` to MySQL. An average is the set of
reviews it counts. Pictures are uploads, and a client may send any list of their URLs
with a new service or an edit; the ghost `resent` collects the URLs that were neither new nor
shown by the row. A booking that has ended may come back by a late deposit (`Revive`), and a
service may become DELETED by an edit, for which nobody looks for bookings: `CatalogueInOrder`
claims neither. In `Search` each page is a query of its own, and MySQL may
return rows that the ORDER BY does not tell apart in any order. Stores can be sorted by
distance and services cannot, so the questions differ (`QuestionFields`).

### PermissionCache, Membership

`permCache` has one entry per user and store, filled by `Load` and `StoreCodes` and
dropped by `InvalidateUser` and `InvalidateAll` after the change they follow;
Redis may fail in each. A request to the guard is the record in `permReqs`. `excused`
collects the entries that are wrong for a known reason: a change overtook a load, Redis
failed, or `users.update` rewrote the roles, which drops nothing. Such an
entry stays for up to 300 seconds. `Membership` adds the staff rows and
the invitations. `touched` names the members whose status or roles were
set by hand: `update` may set INACTIVE or DELETED and leaves the role, and a
later acceptance then aborts on the unique key (`JoinFails`). No row is ever
marked EXPIRED, and `acceptInvite` has no limit on the number of stores.

### Sessions

The account row, the blacklist of refresh tokens and the codes in Redis are written
one after the other. bcrypt compares 72 bytes, which two tokens of one account have
in common: the stored hash therefore stands for all of them, and only the
blacklist tells a spent one from a live one. That is why `refresh` checks
the blacklist, and why a second exchange is possible exactly when two overlap.

### Roster, Slots

One date and its weekday. `Roster` has the writers: a row is read by one call and
written later. A new day off does not look at call-ins. The change of date in an edit of
a day off is taken as a change within the date. `Slots` has the readers, as operators:
the page of slots, the automatic choice, the stand-ins, the public list and the
timeline of the store; parallel queries of one reader are one snapshot. A call-in may have both ends of its hours,
one or none: the page takes each missing end from the store. Bookings are any set of items,
overlapping ones included, since some writers check nothing (`StaffBooking` says which). The
readers differ, and `ReadersAgree` says where: the automatic choice ignores the opening hours and
passes over a member called in without both ends, the stand-ins ignore call-ins, and on the timeline a
call-in hides a weekly shift. The opening hours are constants. Only the format of hours off
is checked, so they may end before they begin: such a pair takes no minute of
the day and yet keeps the member from a long service across it. `OffersAreExact` says of
every roster that nothing is offered that cannot be had, and of those with hours off in order
(`HoursOffInOrder`) that everything is offered that can be had.

## 3. Runs

`PROJECT.json` names, for each property of a passing run, a mutated definition
(kept in the module) under which TLC finds it violated.

| Run | Checks | Instance |
|---|---|---|
| `BookingWriters` | `LockedItemsDisjoint`, `BookingInv`, `ReservesAtomically` under every writer | 2 staff, 2 requests out of 3 orders, 1 clerk, 1 leaver, 1 retry |
| `BookingRaces` | `NoDoubleBooking`, `RefusedOnlyWhenTaken`, `EveryRequestAnswered` without other writers | 2 staff, 3 requests, 1 retry |
| `LifecycleLedger` | `PaidStatusBacked`, `FollowsLedger` | 2 handlers, 1 tick, 2 rows, deposit = price |
| `LifecycleDeposit` | `AutoCancelSparesPaid`, `ExpiredDepositResolved` | 2 handlers, 1 tick, 2 rows, price 3, deposit 1 |
| `CheckoutCoupon` | `CouponAccounts`, `NoUseOnceDisabled`, `CustomerBillsAddUp` | 3 bookings, 3 customers, limit 2, once per customer (either limit can bind) |
| `ReminderTicks` | `NothingLost`, `OneCronOwner`, `RecordedOnceWhenSerial`, `ToldIsRecorded`, `EveryTickSettles` | 1 tick, 2 workers and a third id, 3 copies, 2 invocations, 1 retry, 1 loss |
| `NoticeDelivery` | `ToldOnlyWhenRecorded`, `NobodyForgotten`, `PushedOncePerDevice` | 1 event, 2 people, 2 devices, 1 retry, 1 loss |
| `Messaging` | `TopicsKeptApart`, `AnswersFindTheirWay`, `PreviewIsNewest`; `SessionIsRecent` | 2 conversations, 2 handlers, 2 groups, 2 topics; 2 requests at a time of 3, 2 turns |
| `Shop` | `StoreStandsAsDecided`, `CatalogueInOrder`, `OnePromotionRuns`, `StarsAddUp`, `PagesShowEachOnce` | 2 requests at a time; 2 services, one of which is booked, 2 promotions, 2 reviews, 3 rows in pages of 2 |
| `People` | `MembersHoldRoles`, `CacheExplained`; `TokenExchangedOnce`, `SessionEndsForGood`; `ApprovalStands`, `OffersAreExact`, `ReadersAgree` | 2 users, 2 stores, 3 calls; 3 tokens, 2 codes, 4 calls; 2 members, 3 calls, 3 items of which 2 overlap, a day of 3 hours |
| `BookingCustomer`, `LifecycleOvercharge` | violated, see below | 2 staff, 2 requests; 1 handler, confirmation and bank transfers of a customer's booking |

Each of the first runs also checks the type invariant of its module where the proofs
need one.

Why these bounds. A collision needs two items, so two bookings; two staff members
and orders that name them in opposite order give the deadlock; three requests let
one lose both its candidates to different winners, and be the victim of a cycle
after a lost race. The orders share the hours 1 to 4, touch at their ends and
overlap by parts, and durations stay below `Margin`. Two handlers suffice for every
read-then-write race of the lifecycle and of the shop, which all have the shape
"one reads, one writes, the first writes"; the second row lets a QR code be
replaced, and the deposit equal to the price makes the remainder zero. `Rows` bounds
the number of payments of a booking, `Retries` and `MaxRetry` stand for the four and
three attempts of the code. Three bookings are the fewest that can exceed a limit of
two. One tick suffices for a redelivery, a retry next to a branch that still runs, a
lost connection and a dying singleton. Two devices of which one fails give the partial
failure of a push. Two topics per group and two groups let a number mean different
customers. Three calls are an acceptance, a removal and one more between the read and
the write of either. Four session calls are two refreshes of one token, and the login
before or the reset after them. Three calls about the roster are a day off asked for,
decided and edited across the decision, or a call-in accepted next to a day off. The day of three hours has shifts that begin late,
calls before it, with both ends, one and none, absences of a part, of the whole and with an
end that is not after the beginning, services that do and do not fit, and two bookings of one
member that overlap. One service with bookings (`Bookable`) suffices, since bookings of
different services do not meet.
`MaxLosses`, `MaxForks`, `MaxWarned` (0 in `ReminderTicks`, where no property is about the
warning, 2 in `DepositReminder`), `MaxTopics`, `MaxAsked`, `MaxPapers`, `MaxCalls`,
`MaxChanges`, `MaxTokens`, `MaxCodes`, `MaxAuthCalls` and `MaxRosterCalls` bound what
would go on for ever. `MaxStoreRoles` is 1 where the code has 3, so that the limit is
met; and `Conversations` does not link a store back to a group it has left for another.

Deadlock checking is off everywhere: the instances end when every request has been
answered or a bound is reached, and waiting for a lock for ever is what
`EveryRequestAnswered` excludes.

### What they show

As long as nobody writes outside the lock, the row locks do what the comment on
`lockStaffForBooking` says, deadlocks and retries included: no double booking,
and an automatic choice is refused only when all eligible members are taken. With
the other writers this still holds for the items nobody has touched since
(`LockedItemsDisjoint`). The payment rows are sound under every order of
webhooks, and the automatic cancellation respects payments. The coupon's counter
and limits are exact.

No tick is lost, none is tried for ever, and one worker has the cron whatever dies; but a tick
whose retry cannot be published stays with its worker, and enough of them starve it. A
reminder is recorded once unless two invocations overlap; a process that dies
after the row, or a publish that is refused, leaves the customer untold, since no later tick
looks at it again. Pushes and mails come after
their rows. Topics stay with their conversation until the store changes groups, and
the preview is the newest message only thanks to the lock of the foreign key.

Members and roles stay together under any overlap; a cached answer can be wrong, for
up to its TTL, in three named ways. A refresh token is spent once unless
two exchanges overlap; a reset ends the session unless a refresh is past its
check. The page of slots is exact, minute by minute.

Two statements of the repository are refuted in runs; `findings` quotes the lines.

- One customer can hold two bookings at the same hour (`BookingCustomer`).
- A deposit code and a full-price code can be open together and both be paid
  (`LifecycleOvercharge`, after a confirmation that asks for a deposit).

Eight further configurations are kept beside the runs. Each checks one property that
a line of the repository states and ends, like the two runs, in a counterexample:

| Configuration, module | Property | What happens, and the line that says otherwise |
|---|---|---|
| `BookingReassign`, `MCStaffBooking` | `NoReassignOverlap` | `updateBookingItemStaff` checks and writes apart, without the lock: a booking committed in between shares the member (`bookings.service.ts:1137`; `store-bookings.controller.ts:178` promises a 409) |
| `BookingRevive`, `MCStaffBooking` | `NoDoubleBooking` | a late deposit revives an ended booking whose slot is taken (`payments.service.ts:468`; `src/load-tests/README.md:87`) |
| `LifecycleConfirm`, `MCBookingLifecycle` | `ConfirmOnlyPending` | `confirm` writes by id over what has happened since its read (`bookings.service.ts:716`; `store-bookings.controller.ts:89`) |
| `LifecycleComplete`, `MCBookingLifecycle` | `CompletedIsPaid` | a refunded booking becomes COMPLETED (`bookings.service.ts:797`, against its own line 793) |
| `CheckoutWalkIn`, `MCCheckout` | `WalkInBillsAddUp` | the promotion is taken off twice; above 50 percent the price is negative (`bookings.service.ts:495`; line 267 calls the amount "for display only") |
| `DepositReminder`, `MCReminders` | `DepositRemindedOnce` | a redelivered or retried tick warns again, since the warning leaves no row (`booking-reminder.consumer.ts:117`; the comment at 113 says once) |
| `SearchRange`, `MCShop` | `RangeIsOfTheCheapest` | any variant within the range will do (`services.service.ts:307`; `service-filter.dto.ts:59` says the cheapest) |
| `PermissionFollows`, `MCPeople` | `CacheFollowsRoles` | a load that a change overtakes, a failing Redis, or `users.update` leave the old permissions cached (`permissions.guard.ts:148`; `src/README.md:189` says the cache is dropped when roles or permissions change) |

Two lines of `ai/platform-guide.md` also differ from the code, without a configuration
of their own: cancellation is said to be possible only from PENDING and CONFIRMED
(lines 62, 332; the code also allows DEPOSIT_PENDING, DEPOSIT_PAID and PAID), and
completion from CONFIRMED, DEPOSIT_PAID and PAID (line 102; the code: PAID only).

### Fairness

- `FairTxSpec` (`StaffBooking`): weak fairness of each request over its own next
  statement or, if it waits in a cycle, its abort. Node runs every accepted request,
  InnoDB grants a free lock and always breaks a deadlock. A timeout need not come, so
  nothing depends on it. Retries are bounded, which makes the answer certain.
- `FairSpec` (`BookingLifecycle`): ticks come every ten minutes (weak fairness of
  `ScanExpired`), a failed tick is redelivered or followed by the next, so one that
  keeps selecting the booking succeeds in the end (strong fairness of `Expire`). It
  includes `OneConfirmSpec`: two members of a store do not confirm one booking at the
  same time. Without it each late `confirm` sets a new deadline (`LifecycleConfirm`
  shows how), and the booking could be kept in DEPOSIT_PENDING for ever.
- `FairSpec` (`Reminders`): weak fairness of `Progress`, the steps that Node, the broker
  and the primary process take by themselves: callbacks, deliveries, the TTL of the
  retry queue, forks. No query and no publish is assumed ever to succeed, and losses
  are not forced: `EveryTickSettles` rests on the bounded number of attempts, and excepts what
  a refused publish of a retry leads to (`HeldUp`, `Starved`).

## 4. Proofs

TLAPS checks the theorems for every value of the constants that satisfies the
named assumptions of the modules. Every safety property of the passing runs is a
theorem; the runs show each of them, and the mutant that breaks it, on a small instance.

### Bookings and money

`StaffBookingProofs`. `TypeCorrect` proves `[]TypeOK`, together with the bounds of
the loop. `BookingInvariant` proves `[]BookingInv` and `NoCollisionUnderLocks` its
consequence `[]LockedItemsDisjoint`, both under `MarginCoversDurations`: the scan
margin exceeds every duration. That is the assumption stated by the comment on
`OVERLAP_SCAN_MARGIN_MS`; no validation enforces it, and without it
`FindOverlap` may miss an item (lemma `FindOverlapComplete` is where it is used).
Disjointness alone is not inductive: at the commit one must know that the picked
items do not collide with what has been committed since they were checked. So the
invariant says that a transaction holds the row of all it has picked (`LockInv`),
and that no committed item collides with a picked one (`CheckedInv`): others
cannot commit on a row they do not hold. `moved` and `revived` single out the
items that unlocked writers have touched; only about the rest anything can be
claimed.

Three more theorems rest on it. `NeverDoubleBooked` (`[]NoDoubleBooking`): the transactions
by themselves (`TxSpec`) touch no item and revive none (`Undisturbed`), so the exceptions
of `LockedItemsDisjoint` are empty. `RefusesOnlyForWant` (`RefusedOnlyWhenTaken`, for
`TxSpec`) adds `TriedInv`: each member a line may be given to is being tried, still to
be tried, or taken already. It needs no margin, since it speaks of what the scan finds.
`BooksAtomically` is the refinement `ReservesAtomically`, with all writers: the committed
rows that nobody has touched are the calendar, a commit reserves all items of a booking
or none, and every other step only takes items away or leaves them alone.

`BookingLifecycleProofs`. `LifecycleTypes` proves `[]TypeOK`, strengthened by what a
handler remembers (a row it wants to settle exists and never disappears).
`ShownMoneyIsBacked` proves `[]PaidStatusBacked`: every write of DEPOSIT_PAID or
PAID comes with the row, and the only step that takes PAID rows away, the refund,
leaves CANCELLED. `PaymentsFollowLedger` proves the refinement of `PaymentLedger`.
Both rest on `StepEffect`, which reduces each action to one of six effects on
rows and status. `CancellationSparesPaid` proves `AutoCancelSparesPaid` for
`OneConfirmSpec`, where two members of the store do not confirm one booking at the same
time: a late `confirm` does put a booking with a paid row back into DEPOSIT_PENDING
(`LifecycleConfirm`), and the cancellation trusts the status. The invariant is that a
booking in DEPOSIT_PENDING has received nothing (`DepositDue`); it needs to know that
while a decision on the booking is still open there is no row at all (`UndecidedInv`).

`CheckoutProofs`. `CheckoutTypes`, `CouponNeverOverused` (`[]CouponAccounts`) and
`DisablingTakesEffect` (`NoUseOnceDisabled`). The invariant is `CouponLock`: a
booking between the check and its commit holds the coupon row, and what it has
checked is still true. `CustomersPayWhatIsDue` (`[]CustomerBillsAddUp`) is about the
amounts: by induction over the lines of a cart the total is the catalogue price less the
savings and not negative (`TotalsAgree`), the coupon takes off no more than the total
(`CouponBound`), and nothing a bill was made of changes afterwards (`BillsKept`).

### Queues and messages

`RetryQueueProofs`, `ReminderProofs`. `NoTickLost` (`[]NothingLost`) and
`CronHasOneOwner` (`[]OneCronOwner`), for any number of workers, copies, invocations,
retries and losses. Several invocations may work on one message, since a lost
connection queues its copy again, so the invariant must exclude that one of them
acknowledges the retry another relies on: each holds a copy of its own
(`Holding`), and the retry that is published before an acknowledgement has a later
attempt than what is acknowledged (`Keeping`). `x-retry-count` never runs ahead of
the failures (`Counting`), so what is dead-lettered has had all its attempts. The proof
is about the queue alone (`QueueLosesNothing`), and every step of the cron and the
workers is shown to be a step of the queue or to leave it alone. `OwnerInv` adds to
`OneCronOwner` that ids are given out in turn and that an exited worker does not run.
`SerialTicksRecordOnce` (`RecordedOnceWhenSerial`): while no two invocations have been at
work together, a reminder about to be recorded has no row yet (`SerialInv`).
`TellsWhatIsRecorded` (`ToldIsRecorded`) counts: the rows are the messages told, those missed
by an error that was only logged, and the branches between row and message; as long as nobody
has died it is exactly so, and else the rows are the bound (`TellInv`).

`MessagingProofs`. For notices, `TellsAfterRecording`, `ForgetsNobody`, `NoNoticeLost` (the
queue of `RetryQueueProofs` below them) and `ShowsOnce`. The last one, `PushedOncePerDevice`,
needs that a message is in one place at a time, queued or with one invocation
(`OneChance`), and that where it may still be sent nothing has been shown
(`OncePerMessage`). It was claimed too strongly at first: after a lost connection
the broker redelivers a message although its retry has been published, and both copies are
shown, so it now says "while nothing has been lost". For conversations,
`NewestIsPreviewed`, `TopicsStayApart` and `AnswersArrive`: nobody commits a preview while
an older message of the conversation is uncommitted (`OlderFirst`, which is the shared lock
of the foreign key against the update of the row), what a handler remembers of group and
topic was true once (`TopicsKnown`), and as long as there has been one group a key names
the conversation its topic was made for (`OneGroup`). For the assistant,
`HistoryIsRecent`: the request under way has read the history as it is (`AiInv`).

### The shop

`ShopProofs`, one theorem per component. `StandsAsDecided`: a request was let in on
grounds it remembers (`SeenAllows`), and a banned store, too, keeps the papers that were
approved (`Decided`): an unlock would otherwise bring it back with others.
`OneAtATime`: while no request has overtaken another, one is under way at most and
what it has checked still holds (`PromoAlone`). `AveragesAddUp`: of the
reviews written at once only one gets to the row of the store at a time, the others have
not begun by then (`FirstWrites`), and it counts from what there is (`SnapshotRight`).
`ShelvesInOrder` covers three promises, each on something a request has read and nobody
else changes: the name looked for, the booking not found, the pictures of the row
(`RequestsRight`). What the second excuses besides overlaps are revived bookings and the status
DELETED, the third URLs that a client sends again (`resent`): the code checks none of them. The proof showed that `raced` had excused too much: an edit now sets it
only when a booking is being made at that moment.
`EachRowOnce`: where the sort keys differ there is one order only (`OneOrder`), which
reaches each row (`OrderIsOnto`), and what has been shown is its beginning (`SearchInv`).

### The people of a store

`PeopleProofs`. `ApprovalStandsAlways` proves the action property `ApprovalStands`.
By itself it says nothing of the calls under way; the invariant `OnlyEarlyCalls` adds
that whoever holds an old reading of an approved day off is one of the calls
that were under way at the approval.

`ReadersAlwaysAgree` and `OffersAlwaysExact` are about the slots of a date. Their invariant
only says what rows there can be (`SlotInv`); the argument is about the readers. Whether a
member fits in, as the code computes it from windows and intervals, comes down to one
list of conditions (`FitsMeans`), which hold only if the member is free in every minute
(`SuitsIsFree`); the converse, which names the minute that is taken, needs hours off in order. The plan of a time is
then followed service by service (`PlanIsExact`): it stands when each service so far
has had somebody free, and the members picked are done by the time it has reached, so
that picking one never excludes another. It does not matter whom the code prefers, only that
the least busy of those who are free exists (`SomebodyIsLeastBusy`).

`SessionsInvariant`, and its consequences `ExchangedOnce` (`TokenExchangedOnce`) and
`EndsForGood` (`SessionEndsForGood`). The invariant says,
besides types, that an exchanged token is in the blacklist until it expires
(`TokensAccounted`), so that a later call is stopped by the one or the other; and that
while the session counts as ended no call is left that may still store a token
(`NothingToSave`).

`MembersAlwaysHoldRoles` and `CacheAlwaysExplained`, for any users,
stores, roles, codes and rewrites. The invariant adds that owners hold their role
(`OwnersHoldRoles`), that a removal under way is never of an owner
(`OwnersStay`), and states the cache entry by entry: each is right, about to be
dropped, or excused. The assumptions are `BossIsUser` (the first owner
is one of the users) and `SystemIsNoStore`.

### How far it goes

Sums, plans and orders are recursive functions. The library's induction theorems take a
predicate, which the provers here cannot supply; the proofs use induction for a
set instead, derived from the least element of a set of naturals (`LeastNat`,
`Induction`, `StepByStep`), and first show that the recursion has a solution
(`SumExists`, `PlanUnfolds`, `MinutesExist`).

Only model-checked: the liveness properties `EveryRequestAnswered`, `ExpiredDepositResolved`
and `EveryTickSettles`, which are out of the prover's reach.

## 5. Not modelled

- System log, upload, locations, analytics, request plumbing: pure I/O or reads. The
  seed scripts and load tests are no part of the running service.
- The read-only lists of coupons, promotions, bookings and conversations; of the lists
  only those that sort and page with a query of their own are in `Search`.
- `roles.create`, `users.create` and `remove`, `updateProfile`, categories, the profile
  of a store and its opening hours: single writes that nothing here reads back at the
  same time. Read marks and the inbox of notifications are of the same kind.
- A publish of a retry that the connection manager repeats after a lost confirm: the queue of
  `RetryQueue` gets one copy of it or none.
- Texts: mails, push texts, prompts, slugs beyond their stem, file formats of imports.
- The authentication of webhooks and sockets.

## 6. What could follow

Categories and opening hours as variables; the refinement of an abstract queue by
`RetryQueue`; the change of staff rows while a booking is being made (one of the
hazards without a property) as a theorem about which members a booking may name.

SPECIFICATION Spec
CONSTANTS
  Parts = {"loop", "memory", "images", "stickers", "profiles", "attention", "actions", "days", "provider", "bot", "life"}
  NoValue = NoValue
  Askers = {"r", "s", "t"}
  Urls = {"p", "q"}
  CacheMax = 1
  NoTask = "none"
  Savers = {"s", "t"}
  Senders = {"u"}
  Pictures = {"p", "q"}
  NoPicture = "none"
  MaxStickers = 1
  MaxFaults = 1
  Learners = {"turn"}
  Updaters = {"updater"}
  Users = {"ann"}
  Facts = {1, 2}
  MaxFacts = 1
  MaxRounds = 3
  Times = {0, 30, 60, 330, 360, 399, 43200, 86100, 86340, 86399, 86400, 86459, 86460, 86700, 86760, 172500}
  Window = 300
  NoStamp = NoStamp
  Keep = 2
  MaxDays = 3
  MaxTurns = 3
  MaxLate = 1
  MaxRestarts = 1
  Callers = {"c", "d"}
  Remote = {"u"}
  Fallback = FALSE
  CacheSize = 1
  MaxBackoff = 4
  MaxFrames = 2
  MaxDrops = 1
  Begun <- MCBegun
  Files = {"f", "g"}
  Jobs = {"j", "k"}
  HasAgents = TRUE
  MaxEdits = 1
INVARIANTS  PicturesAreKept UsersAreKnown BotIsOrderly LifeIsOrderly
PROPERTIES PartsEnd
CHECK_DEADLOCK FALSE

CONSTANT
  Scrapers = {c1, c2, c3}
SPECIFICATION FairSpec
INVARIANTS TypeOK WorkerScrapesServed RunErrorIsFatal
PROPERTY SignalledExits

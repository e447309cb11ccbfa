CONSTANT
  Scrapers = {c1}
SPECIFICATION Spec
INVARIANT ScrapesServed

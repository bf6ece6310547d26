\* Licences only, whose entries may lack their id.
SPECIFICATION SpecResolver
CONSTANTS
    NIH = NIH  EC = EC  ror1 = ror1  ror2 = ror2
    n1 = n1  n2 = n2  t1 = t1  t2 = t2  x1 = x1  x2 = x2  x3 = x3
    Doe = Doe  Roe = Roe  o1 = o1  o2 = o2  CERN = CERN  MIT = MIT  mit = mit  cc0 = cc0  ctl = ctl
    Invalid = Invalid  None = None
    Metadata <- MCLicenses
    FunderRorIds <- MCFunderRorIds
    Lower <- MCLower
    Unsendable = {ctl}
    Catalogue <- MCCatalogue
    BaseUrls = {"odd"}
INVARIANT LicenseFallsBack

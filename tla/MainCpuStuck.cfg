SPECIFICATION FairSpec
CONSTANTS
  CardSlot = {TRUE, FALSE}
PROPERTIES
  DownReachesSleep

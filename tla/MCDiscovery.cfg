\* Two brokers, one of which has a service.
SPECIFICATION Spec
CONSTANTS
  b1 = b1
  b2 = b2
  s1 = s1
  Brokers = {b1, b2}
  Offers <- OneSided
  Services = {s1}

  
  
PROPERTY BrokersMeet
